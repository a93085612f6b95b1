------------------------------- MODULE Catalog -------------------------------
(***************************************************************************)
(* What the privileged writers promise their callers: the catalog as one   *)
(* atomic object.  Every command either changes one row and appends the    *)
(* one audit row that describes the change, or does nothing at all.        *)
(* CatalogAdmin, which runs commands as interleaved transactions,          *)
(* implements this module.                                                 *)
(***************************************************************************)
EXTENDS Naturals, Sequences, CatalogData

VARIABLES
  product,   \* the products rows; NoRow where no row has the id
  category,  \* category names; NoName where no row has the id
  audit      \* what each audit row says, target by target, in order

vars == <<product, category, audit>>

Exists(p) == product[p].version > 0

NameIsFree(p, name) == \A q \in Products : q # p => product[q].name # name

CategoryNameIsFree(c, name) == \A d \in Categories : d # c => category[d] # name

\* A products row is in an existing category or in none.
SomeCategory == {c \in Categories : category[c] # NoName} \cup {NoCategory}

\* The part of an audit row that the promise is about.
Record(action, before, after, statusBefore, statusAfter) ==
  [action |-> action, versionBefore |-> before, versionAfter |-> after,
   statusBefore |-> statusBefore, statusAfter |-> statusAfter]

Init ==
  /\ product \in [Products -> SeedRow \cup {NoRow}]
  /\ category \in [Categories -> CategoryNames \cup {NoName}]
  /\ \A p \in Products : Exists(p) => NameIsFree(p, product[p].name)
  /\ \A c \in Categories : category[c] # NoName => CategoryNameIsFree(c, category[c])
  /\ \A p \in Products : product[p].category \in SomeCategory
  /\ audit = [t \in Targets |-> <<>>]

\* A new product is a DRAFT of version 1 under a free name.
Create(p) ==
  /\ ~Exists(p)
  /\ \E name \in Names, c \in SomeCategory :
       /\ NameIsFree(p, name)
       /\ product' = [product EXCEPT ![p] =
            [name |-> name, category |-> c, status |-> "DRAFT", version |-> 1]]
  /\ audit' = [audit EXCEPT ![p] =
       Append(@, Record("CREATE", 0, 1, NoStatus, NoStatus))]
  /\ UNCHANGED category

\* An edit replaces what it read: it keeps the status and adds one version.
Edit(p) ==
  /\ Exists(p)
  /\ \E name \in Names, c \in SomeCategory :
       /\ NameIsFree(p, name)
       /\ product' = [product EXCEPT ![p] =
            [name |-> name, category |-> c, status |-> @.status, version |-> @.version + 1]]
  /\ audit' = [audit EXCEPT ![p] =
       Append(@, Record("UPDATE", product[p].version, product[p].version + 1,
                        NoStatus, NoStatus))]
  /\ UNCHANGED category

\* A transition moves along one edge and changes nothing else.
Move(p, action) ==
  /\ Exists(p)
  /\ NextStatus(product[p].status, action) # ErrInvalidTransition
  /\ product' = [product EXCEPT ![p].status = NextStatus(@, action),
                                ![p].version = @ + 1]
  /\ audit' = [audit EXCEPT ![p] =
       Append(@, Record(action, product[p].version, product[p].version + 1,
                        product[p].status, NextStatus(product[p].status, action)))]
  /\ UNCHANGED category

\* A category is created or renamed under a free name; products keep their
\* category_id and their version.
NameCategory(c, action) ==
  /\ (action = "CREATE CATEGORY") <=> (category[c] = NoName)
  /\ \E name \in CategoryNames :
       CategoryNameIsFree(c, name) /\ category' = [category EXCEPT ![c] = name]
  /\ audit' = [audit EXCEPT ![c] = Append(@, Record(action, 0, 0, NoStatus, NoStatus))]
  /\ UNCHANGED product

Next ==
  \/ \E p \in Products : Create(p) \/ Edit(p)
  \/ \E p \in Products, action \in LifecycleAction : Move(p, action)
  \/ \E c \in Categories, action \in CategoryCommands : NameCategory(c, action)

Spec == Init /\ [][Next]_vars
=============================================================================
