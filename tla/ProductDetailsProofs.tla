------------------------ MODULE ProductDetailsProofs ------------------------
(***************************************************************************)
(* What a details page promises, for any number of pages and reads beside  *)
(* any number of operators, and that pages do nothing to the cache that a  *)
(* plain read does not.                                                    *)
(***************************************************************************)
EXTENDS ProductDetails, CatalogCacheProofs

-----------------------------------------------------------------------------
(* The pages and the cache. *)

\* A page of r asks another source, or ends.
Gathers(r) == PageStep(r) \/ InventoryAnswers(r) \/ ReviewAnswers(r)

\* The product is asked of the cache alone, the other sources of others alone.
LEMMA PageNextIsCatalogNext == [PageNext]_pageVars => [CatalogNext]_allVars
<1>1. ASSUME NEW r \in Requests, ReadProduct(r) PROVE CatalogNext
  BY <1>1 DEF ReadProduct, CatalogNext
<1>2. ASSUME NEW r \in Pages, Gathers(r) PROVE UNCHANGED allVars
  BY <1>2 DEF Gathers, PageStep, InventoryAnswers, ReviewAnswers, GetProductReturns,
     GetRelatedProducts, NoAvailability, InventoryFails, ReviewFails, Gather
<1>3. CASE Background /\ UNCHANGED <<part, page>>
  BY <1>3 DEF CatalogNext
<1>4. UNCHANGED pageVars => UNCHANGED allVars
  BY DEF pageVars
<1> QED
  BY <1>1, <1>2, <1>3, <1>4 DEF PageNext, Gathers

\* The composition with the pages is a behaviour of the cache and its commands: what is
\* proved of CatalogSpec holds beside pages.
THEOREM PagesAreReads == PageSpec => CatalogSpec
<1>1. PageInit => CatalogInit
  BY DEF PageInit
<1> QED
  BY <1>1, PageNextIsCatalogNext, PTL DEF PageSpec, CatalogSpec

\* Beside pages too, a stale detail is owed, lost, raced or renamed.
THEOREM StaleDetailsBesidePages == PageSpec => []StaleDetailIsExcused
BY PagesAreReads, StaleDetails, PTL

-----------------------------------------------------------------------------
(* The pages. *)

\* A page that has left the product behind still has the answer it got in hand; the
\* page failed exactly for a product it has not got.
PageFits(r) ==
  /\ part[r] # "product" => pc[r] = "answered"
  /\ part[r] = "failed" => got[r] \in {Absent, Failed}
  /\ part[r] \in {"related", "availability", "reviews", "rendered"} => got[r] \in Payload
  /\ part[r] \in {"product", "related", "availability"} => page[r].availability = "none"
  /\ part[r] \in {"reviews", "rendered"} =>
       (page[r].availability = "none" <=> ~page[r].fetcher)
  /\ page[r].summary = "zero" <=> page[r].reviews = "empty"

PageInv ==
  /\ part \in [Pages -> Parts]
  /\ page \in [Pages -> Page]
  /\ \A r \in Pages : PageFits(r)

\* Every page starts blank.
LEMMA PageInvInit == PageInit => PageInv
<1> SUFFICES ASSUME PageInit PROVE PageInv
  OBVIOUS
<1>1. part \in [Pages -> Parts] /\ page \in [Pages -> Page]
  BY DEF PageInit, Parts, Page, BlankPage
<1>2. \A r \in Pages : part[r] = "product" /\ page[r] = BlankPage
  BY DEF PageInit
<1>3. \A r \in Pages : PageFits(r)
  BY <1>2 DEF PageFits, BlankPage
<1> QED
  BY <1>1, <1>3 DEF PageInv

\* A page that stays where it is, with its read where it was, is as good as before.
LEMMA PageStays ==
  ASSUME NEW r \in Pages, PageFits(r), part'[r] = part[r], page'[r] = page[r],
         part[r] = "product" \/ (pc'[r] = pc[r] /\ got'[r] = got[r])
  PROVE  PageFits(r)'
BY DEF PageFits

\* A read that has its answer does nothing but end.
LEMMA AnsweredReads ==
  ASSUME Inv, NEW r \in Requests, ReadDetail(r)
  PROVE  /\ \A x \in Requests : x # r => pc'[x] = pc[x] /\ got'[x] = got[x]
         /\ pc[r] = "answered" => pc'[r] = "idle"
<1>1. \A x \in Requests : x # r => pc'[x] = pc[x] /\ got'[x] = got[x]
  BY DEF ReadDetail, ReadStep, Step, GetProduct, Acquire, LockIsHeld, LockUnavailable,
     FetchAsOwner, SetProduct, Release, Tick, Timeout, FetchDirect, GetProductOrSet, Cancelled,
     End, Goto, Hold, Inv, TypeOK
<1>2. pc[r] = "answered" => pc'[r] = "idle"
  BY DEF ReadDetail, ReadStep, Step, GetProduct, Acquire, LockIsHeld, LockUnavailable,
     FetchAsOwner, SetProduct, Release, Tick, Timeout, FetchDirect, GetProductOrSet, Cancelled,
     End, Goto, Inv, TypeOK
<1> QED
  BY <1>1, <1>2

\* The read of a page's product, and its end.
LEMMA ReadProductInv ==
  ASSUME CacheInv, PageInv, NEW r \in Requests, ReadProduct(r)
  PROVE  PageInv'
<1>1. /\ \A x \in Requests : x # r => pc'[x] = pc[x] /\ got'[x] = got[x]
      /\ pc[r] = "answered" => pc'[r] = "idle"
  BY AnsweredReads DEF ReadProduct, CacheInv
<1>2. CASE r \in Pages /\ pc'[r] = "idle"
  <2>1. part' = [part EXCEPT ![r] = "product"] /\ page' = [page EXCEPT ![r] = BlankPage]
    BY <1>2 DEF ReadProduct
  <2>2. part' \in [Pages -> Parts] /\ page' \in [Pages -> Page]
    BY <2>1 DEF PageInv, Parts, Page, BlankPage
  <2>3. PageFits(r)'
    BY <1>2, <2>1 DEF PageInv, PageFits, BlankPage
  <2>4. ASSUME NEW x \in Pages, x # r PROVE PageFits(x)'
    BY <1>1, <2>1, <2>4, PageStays, PagesAssumption DEF PageInv
  <2> QED
    BY <2>2, <2>3, <2>4 DEF PageInv
<1>3. CASE ~(r \in Pages /\ pc'[r] = "idle")
  <2>1. UNCHANGED <<part, page>>
    BY <1>3 DEF ReadProduct
  <2>2. ASSUME NEW x \in Pages PROVE PageFits(x)'
    <3>1. part[x] = "product" \/ (pc'[x] = pc[x] /\ got'[x] = got[x])
      BY <1>1, <1>3, PagesAssumption DEF PageInv, PageFits
    <3> QED
      BY <2>1, <3>1, PageStays DEF PageInv
  <2> QED
    BY <2>1, <2>2 DEF PageInv
<1> QED
  BY <1>2, <1>3

\* What a source gives a page, or does not.
LEMMA GathersInv ==
  ASSUME CacheInv, PageInv, NEW r \in Pages, Gathers(r)
  PROVE  PageInv'
<1>1. PICK to \in Parts, blocks \in Page :
        /\ part' = [part EXCEPT ![r] = to]
        /\ page' = [page EXCEPT ![r] = blocks]
        /\ PageFits(r)'
  <2>1. page[r] \in Page /\ PageFits(r)
    BY DEF PageInv
  <2>2. pc' = pc /\ got' = got
    BY DEF Gathers, PageStep, InventoryAnswers, ReviewAnswers, GetProductReturns,
       GetRelatedProducts, NoAvailability, InventoryFails, ReviewFails, Gather, allVars, vars
  <2>3. CASE GetProductReturns(r)
    <3>1. got[r] \in Payload \cup {Absent, Failed} /\ pc[r] = "answered"
      BY <2>3, PagesAssumption DEF GetProductReturns, CacheInv, Inv, TypeOK
    <3>2. PICK to \in {"failed", "related"}, dialled \in BOOLEAN :
            /\ part[r] = "product" /\ (to = "failed" <=> got[r] \in {Absent, Failed})
            /\ part' = [part EXCEPT ![r] = to]
            /\ \/ page' = [page EXCEPT ![r] = page[r]]
               \/ page' = [page EXCEPT ![r] = [page[r] EXCEPT !.fetcher = dialled]]
      BY <2>3 DEF GetProductReturns, DialOutcomes, Gather
    <3>3. PICK blocks \in {page[r], [page[r] EXCEPT !.fetcher = dialled]} :
            page' = [page EXCEPT ![r] = blocks]
      BY <3>2
    <3>4. /\ blocks \in Page
          /\ blocks.summary = page[r].summary /\ blocks.reviews = page[r].reviews
          /\ blocks.availability = page[r].availability
      BY <2>1 DEF Page
    <3>5. part'[r] = to /\ page'[r] = blocks
      BY <3>2, <3>3 DEF PageInv
    <3>6. PageFits(r)'
      BY <2>1, <2>2, <3>1, <3>2, <3>4, <3>5 DEF PageFits
    <3> QED
      BY <3>2, <3>3, <3>4, <3>6 DEF Parts
  <2>4. CASE GetRelatedProducts(r) \/ NoAvailability(r) \/ ReviewFails(r)
    <3>1. PICK to \in {"availability", "reviews", "rendered"} :
            /\ part' = [part EXCEPT ![r] = to] /\ page' = [page EXCEPT ![r] = page[r]]
            /\ \/ to = "availability" /\ part[r] = "related"
               \/ to = "reviews" /\ part[r] = "availability" /\ ~page[r].fetcher
               \/ to = "rendered" /\ part[r] = "reviews"
      BY <2>4 DEF GetRelatedProducts, NoAvailability, ReviewFails, Gather
    <3>2. part'[r] = to /\ page'[r] = page[r]
      BY <3>1 DEF PageInv
    <3>3. PageFits(r)'
      BY <2>1, <2>2, <3>1, <3>2 DEF PageFits
    <3> QED
      BY <2>1, <3>1, <3>3 DEF Parts
  <2>5. CASE InventoryAnswers(r) \/ InventoryFails(r)
    <3>1. PICK verdict \in {"known", "unknown"} :
            Gather(r, "availability", "reviews", [page[r] EXCEPT !.availability = verdict])
      BY <2>5 DEF InventoryAnswers, InventoryFails
    <3> DEFINE blocks == [page[r] EXCEPT !.availability = verdict]
    <3>2. /\ blocks \in Page /\ blocks.availability = verdict
          /\ blocks.summary = page[r].summary /\ blocks.reviews = page[r].reviews
          /\ blocks.fetcher = page[r].fetcher /\ page[r].fetcher
      BY <2>1, <2>5 DEF Page, InventoryAnswers, InventoryFails
    <3>3. /\ part[r] = "availability" /\ part' = [part EXCEPT ![r] = "reviews"]
          /\ page' = [page EXCEPT ![r] = blocks]
      BY <3>1 DEF Gather
    <3> HIDE DEF blocks
    <3>4. part'[r] = "reviews" /\ page'[r] = blocks
      BY <3>3 DEF PageInv
    <3>5. PageFits(r)'
      BY <2>1, <2>2, <3>2, <3>3, <3>4 DEF PageFits
    <3> QED
      BY <3>2, <3>3, <3>5 DEF Parts
  <2>6. CASE ReviewAnswers(r)
    <3>1. PICK rows \in {"empty", "rows"} :
            Gather(r, "reviews", "rendered",
              [page[r] EXCEPT !.reviews = rows,
                              !.summary = IF rows = "empty" THEN "zero" ELSE "computed"])
      BY <2>6 DEF ReviewAnswers
    <3> DEFINE blocks == [page[r] EXCEPT !.reviews = rows,
                            !.summary = IF rows = "empty" THEN "zero" ELSE "computed"]
    <3>2. /\ blocks \in Page /\ blocks.availability = page[r].availability
          /\ blocks.fetcher = page[r].fetcher
          /\ blocks.summary = "zero" <=> blocks.reviews = "empty"
      BY <2>1 DEF Page
    <3>3. /\ part[r] = "reviews" /\ part' = [part EXCEPT ![r] = "rendered"]
          /\ page' = [page EXCEPT ![r] = blocks]
      BY <3>1 DEF Gather
    <3> HIDE DEF blocks
    <3>4. part'[r] = "rendered" /\ page'[r] = blocks
      BY <3>3 DEF PageInv
    <3>5. PageFits(r)'
      BY <2>1, <2>2, <3>2, <3>3, <3>4 DEF PageFits
    <3> QED
      BY <3>2, <3>3, <3>5 DEF Parts
  <2> QED
    BY <2>3, <2>4, <2>5, <2>6 DEF Gathers, PageStep
<1>2. UNCHANGED <<pc, got>>
  BY DEF Gathers, PageStep, InventoryAnswers, ReviewAnswers, GetProductReturns,
     GetRelatedProducts, NoAvailability, InventoryFails, ReviewFails, Gather, allVars, vars
<1>3. part' \in [Pages -> Parts] /\ page' \in [Pages -> Page]
  BY <1>1 DEF PageInv
<1>4. ASSUME NEW x \in Pages, x # r PROVE PageFits(x)'
  BY <1>1, <1>2, <1>4, PageStays DEF PageInv
<1> QED
  BY <1>1, <1>3, <1>4 DEF PageInv

\* Every step.
LEMMA PageInvStep == CacheInv /\ PageInv /\ [PageNext]_pageVars => PageInv'
<1> SUFFICES ASSUME CacheInv, PageInv, [PageNext]_pageVars PROVE PageInv'
  OBVIOUS
<1>1. ASSUME NEW r \in Requests, ReadProduct(r) PROVE PageInv'
  BY <1>1, ReadProductInv
<1>2. ASSUME NEW r \in Pages, Gathers(r) PROVE PageInv'
  BY <1>2, GathersInv
<1>3. CASE (Background /\ UNCHANGED <<part, page>>) \/ UNCHANGED pageVars
  <2>1. UNCHANGED <<part, page, pc, got>>
    BY <1>3 DEF Background, ListNext, LockTTL, LockExpires, DetailTTL, EntryGoes, ListProducts,
       ListStep, EndList, GetProductList, FindPage, CountPage, SetProductList, ListTTL, Command,
       UpdateProduct, Transition, CreateProduct, UpdateCategory, Committed, Invalidate,
       DeleteDetail, Scan, Unlink, InvalidationEnds, pageVars, allVars, vars
  <2> QED
    BY <2>1, PageStays DEF PageInv
<1> QED
  BY <1>1, <1>2, <1>3 DEF PageNext, Gathers

\* The invariant holds in every reachable state.
THEOREM PageInvariance == PageSpec => []PageInv
BY PageInvInit, PageInvStep, PagesAreReads, CacheInvariance, PTL DEF PageSpec

\* No failure of a soft source, and no combination of them, takes a page away that has
\* its product.
THEOREM SoftSourcesDoNotFail == PageSpec => []OnlyTheProductFailsThePage
<1>1. PageInv => OnlyTheProductFailsThePage
  BY DEF PageInv, PageFits, OnlyTheProductFailsThePage
<1> QED
  BY <1>1, PageInvariance, PTL

\* A rendered page has its product, the availability block unless its process has nobody
\* to ask, and the summary of its reviews: in particular no error of inventory takes the
\* block away.
THEOREM PagesAreWhole == PageSpec => []RenderedPagesAreWhole
<1>1. PageInv => RenderedPagesAreWhole
  BY DEF PageInv, PageFits, RenderedPagesAreWhole
<1> QED
  BY <1>1, PageInvariance, PTL

\* Every state of the pages and of the cache beside them is typed.
THEOREM PageTypeCorrect == PageSpec => []PageTypeOK
<1>1. CatalogTypeOK /\ PageInv => PageTypeOK
  BY DEF PageInv, PageTypeOK
<1> QED
  BY <1>1, PagesAreReads, CatalogTypeCorrect, PageInvariance, PTL
=============================================================================
