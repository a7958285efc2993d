----------------------------- MODULE MCSandbox -----------------------------
(* Instances of Sandbox for TLC. *)
EXTENDS Sandbox, TLC

CONSTANTS u1, u2, p1, k1, r1, t1, t2, t3, t4

MCSeller == [p \in Product |-> u1]

\* One order, by the user of the sandbox.
MCForm == [r \in Request |-> [buyer |-> u2, key |-> k1, product |-> p1, quantity |-> 1]]

Asks(side, quantity) ==
  [user |-> u2, side |-> side, product |-> p1, quantity |-> quantity]

\* A purchase, a sale of all it brings and one of a part, and a reset.
MCTrades ==
  [t \in Trade |-> CASE t = t1 -> Asks("BUY", 2)
                     [] t = t2 -> Asks("SELL", 2)
                     [] t = t3 -> Asks("SELL", 1)
                     [] t = t4 -> Asks("RESET", 1)]

\* Bound: what becomes of a placement that fails is checked with Account.
NoFailure == \A r \in Request : placing'[r] # "failed"
\* Bound: no order is placed while the seller edits, nor does he edit thereafter.
EditsFirst == editing = {} \/ \A r \in Request : placing[r] = "new"
=============================================================================
