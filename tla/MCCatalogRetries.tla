-------------------------- MODULE MCCatalogRetries --------------------------
(* Instances of CatalogRetries for TLC. *)
EXTENDS CatalogRetries, TLC

CONSTANTS ann, bob, p1, p2, n1, n2, c1, c2, k1, k2

\* Operators, ids and names are interchangeable: only equality is ever asked.
Symmetry == Permutations(Operators) \cup Permutations(Products) \cup Permutations(Names)
              \cup Permutations(Categories) \cup Permutations(CategoryNames)
=============================================================================
