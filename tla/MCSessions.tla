----------------------------- MODULE MCSessions -----------------------------
(* Instances of Sessions for TLC. *)
EXTENDS Sessions, TLC

CONSTANTS b1, r1, r2, r3, r4, r5

MCBrowserOf == [r \in Request |-> b1]

\* Tokens that expire.
MaxExpired == 2
FewExpire == Cardinality({t \in Request : token[t].expired}) <= MaxExpired

Symmetry == Permutations(Request)
=============================================================================
