--------------------------- MODULE MCTradeOrders ---------------------------
(* Instances of TradeOrders for TLC. *)
EXTENDS TradeOrders, TLC

CONSTANTS u1, u2, p1, p2, k1, k2, r1, r2, r3

Wants(buyer, key, item, quantity) ==
  [buyer |-> buyer, key |-> key, product |-> item, quantity |-> quantity]

\* Two users, each with a product.
MCSeller == [p \in Product |-> IF p = p1 THEN u1 ELSE u2]

\* A request, its repetition, and another, larger order of the same buyer.
MCForm ==
  [r \in Request |-> IF r = r3 THEN Wants(u2, k2, p1, 2) ELSE Wants(u2, k1, p1, 1)]
=============================================================================
