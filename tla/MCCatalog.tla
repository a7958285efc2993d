----------------------------- MODULE MCCatalog -----------------------------
(* Instances of Catalog for TLC. *)
EXTENDS Catalog, TLC

CONSTANTS p1, r1, r2, r3, r4

\* One product; a request may ask for anything.
MCTarget == [r \in Request |-> p1]
Symmetry == Permutations(Request)
=============================================================================
