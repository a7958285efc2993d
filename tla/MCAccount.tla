------------------------------ MODULE MCAccount ------------------------------
(* Instances of Account for TLC: the orders of MCTradeOrders. *)
EXTENDS Account, MCTradeOrders

CONSTANTS f1, f2, a1, a2, v1, v2

MCWished == [f \in Favorite |-> p1]

Underway == {n \in telling : Reached(n)}
Failures == {r \in Request : placing[r] = "failed"}

NoOrders == \A r \in Request : placing[r] = "new"
NoFavorites == \A f \in Favorite : favorite[f].at = "new"
NoAddresses == \A a \in Address : address[a] = "none"
NoVisits == \A v \in Visit : visit[v] = "new"

\* Bound: orders, favorites and addresses change next to products that are
\* edited, but not together with one another, which they cannot affect; settings
\* change alone.  One placement fails, with or without effect, where no
\* product is edited.
\* A product that is not published has been taken off the shelf.
OneAtATime ==
  /\ \A p \in Product : product[p].published \/ edits > 0
  /\ \/ /\ NoFavorites /\ NoAddresses /\ NoVisits
        /\ Cardinality(Underway) <= 1
        /\ Cardinality(Underway) + Cardinality(canceling) + Cardinality(Failures) <= 2
        /\ Cardinality(Failures) <= IF edits = 0 THEN 1 ELSE 0
     \/ NoOrders /\ NoFavorites /\ NoVisits
     \/ NoOrders /\ NoAddresses /\ NoVisits
     \/ NoOrders /\ NoFavorites /\ NoAddresses /\ edits = 0
=============================================================================
