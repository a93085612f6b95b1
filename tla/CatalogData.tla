----------------------------- MODULE CatalogData -----------------------------
(***************************************************************************)
(* The rows of the products and categories tables and the commands of the  *)
(* privileged writers.  Price and description travel with a product's      *)
(* name: no guard of the writers reads them.  The serial ids of the two    *)
(* tables are the members of Products and Categories.                      *)
(***************************************************************************)
EXTENDS Naturals, Lifecycle

CONSTANTS
  Products,       \* values of products.id
  Names,          \* product names
  Categories,     \* values of categories.id
  CategoryNames,  \* category names
  NoCategory,     \* a NULL category_id
  NoName          \* the empty string

ASSUME DataAssumption ==
  /\ NoCategory \notin Categories
  /\ NoName \notin Names \cup CategoryNames
  /\ Products \cap Categories = {}

NoStatus == "NONE"

\* The columns of a product the writers decide on; version 0 is "no such row".
NoRow == [name |-> NoName, category |-> NoCategory, status |-> NoStatus, version |-> 0]

Row == [name     : Names \cup {NoName},
        category : Categories \cup {NoCategory},
        status   : ProductStatus \cup {NoStatus},
        version  : Nat]

\* Rows that predate the lifecycle (migration 000007): ACTIVE, version 1, no audit.
SeedRow == [name : Names, category : Categories \cup {NoCategory},
            status : {"ACTIVE"}, version : {1}]

Targets == Products \cup Categories

ProductCommands == {"CREATE", "UPDATE"} \cup LifecycleAction
CategoryCommands == {"CREATE CATEGORY", "UPDATE CATEGORY"}
=============================================================================
