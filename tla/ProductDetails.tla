--------------------------- MODULE ProductDetails ---------------------------
(***************************************************************************)
(* The details page: ProductService.GetProductDetails of                   *)
(* internal/logic/v1/details.go with its clients of internal/web/v1.       *)
(*                                                                         *)
(* A page asks four sources in turn: the product (the cached read of       *)
(* ProductCache, beside the commands of CatalogCache), the related         *)
(* products (a replica), the availability (inventory service) and the      *)
(* reviews (review service).  Only the first may fail the page.  The two   *)
(* services may never answer: each call has a deadline of its own.  A      *)
(* process whose dial to inventory failed at its start goes on without an  *)
(* availabilityFetcher, and asks three sources only.                       *)
(***************************************************************************)
EXTENDS CatalogCache

CONSTANT Pages   \* the requests that render a page; the others are plain reads

ASSUME PagesAssumption == Pages \subseteq Requests

VARIABLES
  part,  \* what each page asks for next, or how it ended
  page   \* what each page has gathered beside its product

pageVars == <<allVars, part, page>>

-----------------------------------------------------------------------------
Parts == {"product", "related", "availability", "reviews", "rendered", "failed"}

\* The blocks of a page beside its product and the related products, which may be
\* missing without a trace: "none" is a block that is left out.  `fetcher` says
\* whether the process that renders the page has been given an availabilityFetcher.
Page == [fetcher      : BOOLEAN,
         availability : {"none", "unknown", "known"},
         reviews      : {"empty", "rows"},
         summary      : {"zero", "computed"}]

\* What GetProductDetails starts from once it has the product.
BlankPage ==
  [fetcher |-> FALSE, availability |-> "none", reviews |-> "empty", summary |-> "zero"]

PageTypeOK ==
  /\ CatalogTypeOK
  /\ part \in [Pages -> Parts]
  /\ page \in [Pages -> Page]

PageInit ==
  /\ CatalogInit
  /\ part = [r \in Pages |-> "product"]
  /\ page = [r \in Pages |-> BlankPage]

\* The page is at `from` and goes on to `to` with these blocks.
Gather(r, from, to, blocks) ==
  /\ part[r] = from
  /\ part' = [part EXCEPT ![r] = to]
  /\ page' = [page EXCEPT ![r] = blocks]
  /\ UNCHANGED allVars

\* A process dials inventory once, at its start; if that fails it goes on, and its pages
\* have no fetcher for as long as it runs.
DialOutcomes == BOOLEAN

\* GetProduct has returned: only its error ends the page.
GetProductReturns(r) ==
  /\ pc[r] = "answered"
  /\ \/ got[r] \in {Absent, Failed} /\ Gather(r, "product", "failed", page[r])
     \/ /\ got[r] \notin {Absent, Failed}
        /\ \E dialled \in DialOutcomes :
             Gather(r, "product", "related", [page[r] EXCEPT !.fetcher = dialled])

\* FindRelatedProducts on the replica; its error is dropped.
GetRelatedProducts(r) == Gather(r, "related", "availability", page[r])

\* No fetcher, no block.
NoAvailability(r) ==
  ~page[r].fetcher /\ Gather(r, "availability", "reviews", page[r])

\* inventory answers: a verdict, or none for a SKU it does not track.
InventoryAnswers(r) ==
  /\ page[r].fetcher
  /\ \E verdict \in {"known", "unknown"} :
       Gather(r, "availability", "reviews", [page[r] EXCEPT !.availability = verdict])

\* Faulty variant: an error leaves the block out.
InventoryFailsSilently(r) ==
  page[r].fetcher /\ Gather(r, "availability", "reviews", page[r])

\* The call fails, at its deadline of 3 s at the latest.
InventoryFails(r) ==
  /\ page[r].fetcher
  /\ Gather(r, "availability", "reviews", [page[r] EXCEPT !.availability = "unknown"])

\* review answers: the list and the summary computed from it, zero for no reviews.
ReviewAnswers(r) ==
  \E rows \in {"empty", "rows"} :
    Gather(r, "reviews", "rendered",
      [page[r] EXCEPT !.reviews = rows,
                      !.summary = IF rows = "empty" THEN "zero" ELSE "computed"])

\* Faulty variant: the error is returned.
ReviewFailsThePage(r) == Gather(r, "reviews", "failed", page[r])

\* Faulty variant: no deadline, so that only an answer ends the call.
ReviewNeverFails(r) == FALSE /\ UNCHANGED <<pageVars, r>>

\* The call fails, at its deadline of 3 s at the latest.
ReviewFails(r) == Gather(r, "reviews", "rendered", page[r])

\* The cached read of the product.  When the response is written, or the process
\* dies, the page is gone with its request.
ReadProduct(r) ==
  /\ ReadDetail(r)
  /\ IF r \in Pages /\ pc'[r] = "idle"
     THEN /\ part' = [part EXCEPT ![r] = "product"]
          /\ page' = [page EXCEPT ![r] = BlankPage]
     ELSE UNCHANGED <<part, page>>

\* What the process does by itself, whoever answers or not.
PageStep(r) ==
  \/ GetProductReturns(r) \/ GetRelatedProducts(r) \/ NoAvailability(r) \/ InventoryFails(r)
  \/ ReviewFails(r)

PageNext ==
  \/ \E r \in Requests : ReadProduct(r)
  \/ \E r \in Pages : PageStep(r) \/ InventoryAnswers(r) \/ ReviewAnswers(r)
  \/ Background /\ UNCHANGED <<part, page>>

PageSpec == PageInit /\ [][PageNext]_pageVars

\* The cache's own fairness; every read goes on; PostgreSQL answers; both deadlines
\* pass.  No other service need ever answer.
PageFairness ==
  /\ WF_pageVars(DetailTTL /\ UNCHANGED <<part, page>>)
  /\ \A w \in Writers : WF_pageVars(Invalidate(w) /\ UNCHANGED <<part, page>>)
  /\ \A r \in Requests : WF_pageVars(ReadStep(r) /\ UNCHANGED <<part, page>>)
  /\ \A r \in Pages : WF_pageVars(PageStep(r))

FairPageSpec == PageSpec /\ PageFairness

-----------------------------------------------------------------------------
(* What the page promises. *)

\* A failed page is one whose product could not be read: no soft source, and no
\* combination of them, takes a page away that has its product.
OnlyTheProductFailsThePage ==
  \A r \in Pages : part[r] = "failed" => got[r] \in {Absent, Failed}

\* Whatever failed, a rendered page has its product, an availability block (which may
\* say "unknown") unless its process could not dial inventory when it started, and a
\* summary of exactly the reviews it shows.
RenderedPagesAreWhole ==
  \A r \in Pages : part[r] = "rendered" =>
    /\ got[r] \in Payload
    /\ page[r].availability = "none" <=> ~page[r].fetcher
    /\ page[r].summary = "zero" <=> page[r].reviews = "empty"

\* Every page ends although neither service ever answers, its owner of the fill lock
\* died, or the cache is down.
PagesAreAnswered ==
  \A r \in Pages : pc[r] # "idle" ~> pc[r] = "idle" \/ part[r] \in {"rendered", "failed"}
=============================================================================
