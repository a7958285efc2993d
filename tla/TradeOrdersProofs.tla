-------------------------- MODULE TradeOrdersProofs --------------------------
(***************************************************************************)
(* Theorems about TradeOrders, for any users, products, requests, prices   *)
(* and bounds.                                                             *)
(***************************************************************************)
EXTENDS TradeOrders, FiniteSetTheorems, TLAPS

(***************************************************************************)
(* The inductive invariant.  What TLC checks lacks two facts: an order is  *)
(* only ever inserted by the request it is named after, so one that has    *)
(* merely looked its key up has none (OwnOrder); and paid_at and status    *)
(* agree until the order is canceled (PaidMatches), which is what tells a  *)
(* refund from a cancellation of an unpaid order.                          *)
(***************************************************************************)
OwnOrder == \A r \in Request : Exists(r) => placing[r] \in {"ordered", "failed"}

PaidMatches ==
  \A o \in Request :
    /\ order[o].status = "PENDING_PAYMENT" => ~order[o].paid
    /\ order[o].status \in {"PAID", "SHIPPED", "COMPLETED"} => order[o].paid

\* The part of the invariant that is about orders, their events and requests.
OrdersInv ==
  /\ order \in [Request -> OrderRow]
  /\ trail \in [Request -> Seq(Events)]
  /\ placing \in [Request -> Phases]
  /\ given \in [Request -> Request]
  /\ OwnOrder
  /\ PaidMatches
  /\ OneOrderPerKey
  /\ TrailComplete

TInv == TradeTypeOK /\ OrdersInv

-----------------------------------------------------------------------------
(* What the operations are built from *)

LEMMA Parties ==
  ASSUME NEW o \in Request
  PROVE  /\ Form[o] \in Forms
         /\ Buyer(o) \in User
         /\ Seller(o) \in User
         /\ Form[o].product \in Product
         /\ Form[o].quantity \in Nat
  BY TradeConstantsOK DEF Forms, Buyer, Seller

\* An account that was missing is used as one that holds the starting cash.
LEMMA AccountOfType ==
  ASSUME TradeTypeOK, NEW u \in User
  PROVE  /\ AccountOf(u) \in Account
         /\ AccountOf(u).open = TRUE
  BY TradeConstantsOK DEF TradeTypeOK, AccountOf, NewAccount, Account

\* debitBuyer takes the amount from one balance and leaves the others alone.
LEMMA DebitEffect ==
  ASSUME TradeTypeOK, NEW u \in User, NEW amount \in Nat, Debits(u, amount)
  PROVE  /\ account' \in [User -> Account]
         /\ AccountOf(u)'.cash = AccountOf(u).cash - amount
         /\ \A v \in User \ {u} : AccountOf(v)' = AccountOf(v)
  <1> DEFINE a == [AccountOf(u) EXCEPT !.cash = @ - amount]
  <1>1. /\ AccountOf(u) \in Account
        /\ AccountOf(u).open = TRUE
    BY AccountOfType
  <1>2. /\ a \in Account
        /\ a.open = TRUE
        /\ a.cash = AccountOf(u).cash - amount
    BY <1>1 DEF Account, Debits
  <1>3. account' = [account EXCEPT ![u] = a]
    BY DEF Debits
  <1>4. account \in [User -> Account]
    BY DEF TradeTypeOK
  <1> HIDE DEF a
  <1>5. QED
    BY <1>2, <1>3, <1>4 DEF AccountOf

\* creditUser gives the amount to one balance and leaves the others alone.
LEMMA CreditEffect ==
  ASSUME TradeTypeOK, NEW u \in User, NEW amount \in Nat, Credits(u, amount)
  PROVE  /\ account' \in [User -> Account]
         /\ AccountOf(u)'.cash = AccountOf(u).cash + amount
         /\ \A v \in User \ {u} : AccountOf(v)' = AccountOf(v)
  <1> DEFINE a == [AccountOf(u) EXCEPT !.cash = @ + amount]
  <1>1. /\ AccountOf(u) \in Account
        /\ AccountOf(u).open = TRUE
    BY AccountOfType
  <1>2. /\ a \in Account
        /\ a.open = TRUE
        /\ a.cash = AccountOf(u).cash + amount
    BY <1>1 DEF Account
  <1>3. account' = [account EXCEPT ![u] = a]
    BY DEF Credits
  <1>4. account \in [User -> Account]
    BY DEF TradeTypeOK
  <1> HIDE DEF a
  <1>5. QED
    BY <1>2, <1>3, <1>4 DEF AccountOf

\* The writes to a product's row.
LEMMA ProductWrites ==
  ASSUME TradeTypeOK, NEW p \in Product, NEW stock \in Nat, NEW price \in Nat
  PROVE  /\ product[p] \in ProductRow
         /\ [product EXCEPT ![p].stock = stock] \in [Product -> ProductRow]
         /\ [product EXCEPT ![p].stock = stock, ![p].price = price]
              \in [Product -> ProductRow]
         /\ [product EXCEPT ![p].published = ~@] \in [Product -> ProductRow]
  <1> DEFINE row == product[p]
  <1>1. product \in [Product -> ProductRow] /\ row \in ProductRow
    BY DEF TradeTypeOK
  <1>2. [row EXCEPT !.stock = stock] \in ProductRow
    BY <1>1 DEF ProductRow
  <1>3. [[row EXCEPT !.stock = stock] EXCEPT !.price = price] \in ProductRow
    BY <1>2 DEF ProductRow
  <1>4. [row EXCEPT !.published = ~@] \in ProductRow
    BY <1>1 DEF ProductRow
  <1>5. QED
    BY <1>1, <1>2, <1>3, <1>4

\* Appending an event to a trail.
LEMMA AppendEvent ==
  ASSUME NEW t \in Seq(Events), NEW e \in Events
  PROVE  /\ Append(t, e) \in Seq(Events)
         /\ Append(t, e) # <<>>
         /\ Len(Append(t, e)) = Len(t) + 1
         /\ Append(t, e)[Len(t) + 1] = e
         /\ \A i \in 1..Len(t) : Append(t, e)[i] = t[i]
  OBVIOUS

LEMMA NotEmpty ==
  ASSUME NEW t \in Seq(Events), t # <<>>
  PROVE  Len(t) \in Nat /\ Len(t) >= 1
  OBVIOUS

LEMMA FirstAppend ==
  ASSUME NEW e \in Events
  PROVE  /\ Append(<<>>, e) # <<>>
         /\ Len(Append(<<>>, e)) = 1
         /\ Append(<<>>, e)[1] = e
         /\ 1..1 = {1} /\ 2..1 = {}
  OBVIOUS

LEMMA Indices ==
  ASSUME NEW n \in Nat, n >= 1
  PROVE  /\ 1 \in 1..n /\ n \in 1..n
         /\ 1..(n + 1) = (1..n) \cup {n + 1}
         /\ 2..(n + 1) = (2..n) \cup {n + 1}
         /\ \A i \in 2..n : i \in 1..n /\ i - 1 \in 1..n
         /\ (n + 1) - 1 = n
  OBVIOUS

\* The first event is the creation of the order.
LEMMA FirstEvent ==
  ASSUME NEW row \in OrderRow, NEW new \in OrderRow, NEW t \in Seq(Events),
         NEW e \in Events, Tells(t, row), row.status = "NONE",
         new.status = "PENDING_PAYMENT", new.paid = FALSE,
         e.from = "", e.to = "PENDING_PAYMENT"
  PROVE  Tells(Append(t, e), new)
  <1>1. t = <<>>
    BY DEF Tells
  <1> DEFINE s == Append(t, e)
  <1>2. /\ s # <<>>
        /\ Len(s) = 1
        /\ s[1] = e
        /\ 1..1 = {1} /\ 2..1 = {}
    BY <1>1, FirstAppend
  <1> HIDE DEF s
  <1>3. s # <<>> => s[1].from = "" /\ s[Len(s)].to = new.status
    BY <1>2
  <1>4. \A i \in 2..Len(s) : /\ s[i].from = s[i-1].to
                             /\ <<s[i].from, s[i].to>> \in orderTransitions
    BY <1>2
  <1>5. new.paid <=> \E i \in 1..Len(s) : s[i].to = "PAID"
    BY <1>2
  <1>6. Tells(s, new)
    BY <1>2, <1>3, <1>4, <1>5 DEF Tells
  <1>7. QED
    BY <1>6 DEF s

\* Every later event goes on where the one before it ended.
LEMMA NextEvent ==
  ASSUME NEW row \in OrderRow, NEW new \in OrderRow, NEW t \in Seq(Events),
         NEW e \in Events, Tells(t, row), row.status # "NONE",
         e.from = row.status, e.to = new.status,
         <<row.status, new.status>> \in orderTransitions,
         new.paid = (row.paid \/ new.status = "PAID")
  PROVE  Tells(Append(t, e), new)
  <1> DEFINE s == Append(t, e)
             n == Len(t)
  <1>1. /\ s # <<>>
        /\ Len(s) = n + 1
        /\ s[n + 1] = e
        /\ \A i \in 1..n : s[i] = t[i]
    BY AppendEvent
  <1>2. n \in Nat /\ n >= 1
    <2>1. t # <<>>
      BY DEF Tells
    <2>2. QED
      BY <2>1, NotEmpty
  <1>3. /\ t[1].from = ""
        /\ t[n].to = row.status
        /\ \A i \in 2..n : /\ t[i].from = t[i-1].to
                           /\ <<t[i].from, t[i].to>> \in orderTransitions
        /\ row.paid <=> \E i \in 1..n : t[i].to = "PAID"
    BY DEF Tells
  <1> HIDE DEF s, n
  <1>4. s[1].from = "" /\ s[n].to = row.status
    <2>1. s[1] = t[1] /\ s[n] = t[n]
      BY <1>1, <1>2, Indices
    <2>2. QED
      BY <1>3, <2>1
  <1>5. ASSUME NEW i \in 2..n
        PROVE  /\ s[i].from = s[i-1].to
               /\ <<s[i].from, s[i].to>> \in orderTransitions
    <2>1. s[i] = t[i] /\ s[i-1] = t[i-1]
      BY <1>1, <1>2, Indices
    <2>2. QED
      BY <1>3, <2>1
  <1>6. /\ s[n + 1].from = s[(n + 1) - 1].to
        /\ <<s[n + 1].from, s[n + 1].to>> \in orderTransitions
    <2>1. (n + 1) - 1 = n
      BY <1>2
    <2>2. QED
      BY <1>1, <1>4, <2>1
  <1>7. \A i \in 2..Len(s) : /\ s[i].from = s[i-1].to
                             /\ <<s[i].from, s[i].to>> \in orderTransitions
    <2>1. 2..Len(s) = (2..n) \cup {n + 1}
      BY <1>1, <1>2, Indices
    <2>2. QED
      BY <1>5, <1>6, <2>1
  <1>8. (\E i \in 1..Len(s) : s[i].to = "PAID")
          <=> (\E i \in 1..n : t[i].to = "PAID") \/ new.status = "PAID"
    <2>1. 1..Len(s) = (1..n) \cup {n + 1}
      BY <1>1, <1>2, Indices
    <2>2. s[n + 1].to = new.status
      BY <1>1
    <2>3. QED
      BY <1>1, <2>1, <2>2
  <1>9. /\ new.status # "NONE"
        /\ row.paid \in BOOLEAN /\ new.paid \in BOOLEAN
    BY DEF orderTransitions, OrderRow
  <1>10. new.paid <=> \E i \in 1..Len(s) : s[i].to = "PAID"
    BY <1>3, <1>8, <1>9
  <1>11. Tells(s, new)
    BY <1>1, <1>4, <1>7, <1>9, <1>10 DEF Tells
  <1>12. QED
    BY <1>11 DEF s
-----------------------------------------------------------------------------
(* Steps of an order *)

\* transitionOrder keeps all of it, whoever calls it.
LEMMA TransitKeeps ==
  ASSUME OrdersInv, NEW o \in Request, NEW to, NEW actor \in User,
         NEW role \in {"BUYER", "SELLER"}, Transits(o, to, actor, role),
         UNCHANGED <<placing, given>>
  PROVE  OrdersInv'
  <1> DEFINE row == order[o]
             new == [row EXCEPT !.status = to, !.paid = @ \/ to = "PAID"]
             e == [from |-> row.status, to |-> to, actor |-> actor, role |-> role]
  <1>1. /\ row \in OrderRow /\ trail[o] \in Seq(Events)
        /\ row.status # "NONE"
        /\ <<row.status, to>> \in orderTransitions
    BY DEF OrdersInv, Transits, Exists
  <1>2. /\ row.status \in OrderStatuses
        /\ to \in OrderStatuses \ {"PENDING_PAYMENT"}
        /\ to = "SHIPPED" => row.status = "PAID"
        /\ to = "COMPLETED" => row.status = "SHIPPED"
    BY <1>1 DEF orderTransitions, OrderStatuses
  <1>3. /\ new \in OrderRow /\ new.status = to
        /\ new.paid = (row.paid \/ to = "PAID")
    BY <1>1, <1>2 DEF OrderRow
  <1>4. /\ e \in Events /\ e.from = row.status /\ e.to = to
    BY <1>2 DEF Events
  <1>5. /\ order' = [order EXCEPT ![o] = new]
        /\ trail' = [trail EXCEPT ![o] = Append(@, e)]
    BY DEF Transits, Records
  <1>6. Tells(Append(trail[o], e), new)
    <2>1. Tells(trail[o], row)
      BY DEF OrdersInv, TrailComplete
    <2> HIDE DEF row, new, e
    <2>2. QED
      BY <1>1, <1>3, <1>4, <2>1, NextEvent
  <1>7. Append(trail[o], e) \in Seq(Events)
    BY <1>1, <1>4, AppendEvent
  <1>8. row.status \in {"PAID", "SHIPPED", "COMPLETED"} => row.paid
    BY DEF OrdersInv, PaidMatches
  <1> HIDE DEF row, new, e
  <1>9. /\ order' \in [Request -> OrderRow] /\ trail' \in [Request -> Seq(Events)]
        /\ order'[o] = new /\ trail'[o] = Append(trail[o], e)
        /\ \A q \in Request \ {o} : order'[q] = order[q] /\ trail'[q] = trail[q]
    BY <1>3, <1>5, <1>7 DEF OrdersInv
  <1>10. \A q \in Request : Exists(q)' <=> Exists(q)
    BY <1>1, <1>2, <1>3, <1>9 DEF Exists, row, OrderStatuses
  <1>11. OwnOrder'
    BY <1>10 DEF OrdersInv, OwnOrder
  <1>12. PaidMatches'
    <2> SUFFICES ASSUME NEW q \in Request
                 PROVE  /\ order'[q].status = "PENDING_PAYMENT" => ~order'[q].paid
                        /\ order'[q].status \in {"PAID", "SHIPPED", "COMPLETED"}
                             => order'[q].paid
      BY DEF PaidMatches
    <2>1. CASE q = o
      BY <1>2, <1>3, <1>8, <1>9, <2>1
    <2>2. CASE q # o
      BY <1>9, <2>2 DEF OrdersInv, PaidMatches
    <2>3. QED
      BY <2>1, <2>2
  <1>13. OneOrderPerKey'
    BY <1>10 DEF OrdersInv, OneOrderPerKey, SameKey
  <1>14. TrailComplete'
    <2> SUFFICES ASSUME NEW q \in Request
                 PROVE  Tells(trail'[q], order'[q])
      BY DEF TrailComplete, Tells
    <2>1. CASE q = o
      BY <1>6, <1>9, <2>1
    <2>2. CASE q # o
      BY <1>9, <2>2 DEF OrdersInv, TrailComplete
    <2>3. QED
      BY <2>1, <2>2
  <1>15. QED
    BY <1>9, <1>11, <1>12, <1>13, <1>14 DEF OrdersInv

\* A request that is answered without a new order.
LEMMA AnswerKeeps ==
  ASSUME OrdersInv, NEW r \in Request, NEW how \in Phases, NEW o \in Request,
         Answers(r, how, o), placing[r] \in {"new", "lookedUp"},
         how = "ordered" => Exists(o) /\ Form[o] = Form[r],
         UNCHANGED <<order, trail>>
  PROVE  OrdersInv'
  <1>1. placing' \in [Request -> Phases] /\ given' \in [Request -> Request]
    BY DEF OrdersInv, Answers
  <1>2. OwnOrder'
    BY DEF OrdersInv, OwnOrder, Answers, Exists
  <1>3. OneOrderPerKey'
    BY DEF OrdersInv, OneOrderPerKey, Answers, Exists, SameKey
  <1>4. PaidMatches' /\ TrailComplete'
    BY DEF OrdersInv, PaidMatches, TrailComplete, Tells
  <1>5. QED
    BY <1>1, <1>2, <1>3, <1>4 DEF OrdersInv

\* The insert of an order whose key is not taken.
LEMMA InsertKeeps ==
  ASSUME OrdersInv, NEW r \in Request, NEW amount \in Nat, NEW how \in {"ordered", "failed"},
         placing[r] = "lookedUp", Earlier(r) = {},
         order' = [order EXCEPT ![r] = [status |-> "PENDING_PAYMENT",
                                        amount |-> amount, paid |-> FALSE]],
         Records(r, "", "PENDING_PAYMENT", Buyer(r), "BUYER"),
         Answers(r, how, r)
  PROVE  OrdersInv'
  <1> DEFINE new == [status |-> "PENDING_PAYMENT", amount |-> amount, paid |-> FALSE]
             e == [from |-> "", to |-> "PENDING_PAYMENT",
                   actor |-> Buyer(r), role |-> "BUYER"]
  <1>1. /\ new \in OrderRow /\ e \in Events
        /\ new.status = "PENDING_PAYMENT" /\ new.paid = FALSE
        /\ e.from = "" /\ e.to = "PENDING_PAYMENT"
    BY Parties DEF OrderRow, OrderStatuses, Events
  <1>2. /\ order' = [order EXCEPT ![r] = new]
        /\ trail' = [trail EXCEPT ![r] = Append(@, e)]
    BY DEF Records
  <1> HIDE DEF new, e
  <1>3. order[r] \in OrderRow /\ trail[r] \in Seq(Events) /\ order[r].status = "NONE"
    BY DEF OrdersInv, OwnOrder, Exists
  <1>4. Tells(Append(trail[r], e), new)
    <2>1. Tells(trail[r], order[r])
      BY DEF OrdersInv, TrailComplete
    <2>2. QED
      BY <1>1, <1>3, <2>1, FirstEvent
  <1>5. Append(trail[r], e) \in Seq(Events)
    BY <1>1, <1>3, AppendEvent
  <1>6. /\ order' \in [Request -> OrderRow] /\ trail' \in [Request -> Seq(Events)]
        /\ order'[r] = new /\ trail'[r] = Append(trail[r], e)
        /\ \A q \in Request \ {r} : order'[q] = order[q] /\ trail'[q] = trail[q]
    <2>1. order \in [Request -> OrderRow] /\ trail \in [Request -> Seq(Events)]
      BY DEF OrdersInv
    <2>2. QED
      BY <1>1, <1>2, <1>5, <2>1
  <1>7. /\ placing' \in [Request -> Phases] /\ given' \in [Request -> Request]
        /\ placing'[r] = how /\ given'[r] = r
        /\ \A q \in Request \ {r} : placing'[q] = placing[q] /\ given'[q] = given[q]
    BY DEF OrdersInv, Answers, Phases
  <1>8. \A q \in Request : Exists(q)' <=> Exists(q) \/ q = r
    BY <1>1, <1>6 DEF Exists
  <1>9. OwnOrder'
    BY <1>7, <1>8 DEF OrdersInv, OwnOrder
  <1>10. PaidMatches'
    BY <1>1, <1>6 DEF OrdersInv, PaidMatches
  <1>11. OneOrderPerKey'
    <2>1. ASSUME NEW o \in Request, NEW q \in Request,
                 Exists(o)', Exists(q)', SameKey(o, q)
          PROVE  o = q
      <3>1. \A p \in Request : Exists(p) => ~SameKey(r, p)
        BY DEF Earlier
      <3>2. SameKey(q, o)
        BY <2>1 DEF SameKey
      <3>3. \A p, w \in Request : Exists(p) /\ Exists(w) /\ SameKey(p, w) => p = w
        BY DEF OrdersInv, OneOrderPerKey
      <3>4. (Exists(o) \/ o = r) /\ (Exists(q) \/ q = r)
        BY <1>8, <2>1
      <3>5. QED
        BY <2>1, <3>1, <3>2, <3>3, <3>4
    <2>2. \A q \in Request :
            placing'[q] = "ordered"
              => order'[given'[q]].status # "NONE" /\ Form[given'[q]] = Form[q]
      <3> SUFFICES ASSUME NEW q \in Request, placing'[q] = "ordered"
                   PROVE  order'[given'[q]].status # "NONE" /\ Form[given'[q]] = Form[q]
        OBVIOUS
      <3>1. CASE q = r
        BY <1>1, <1>6, <1>7, <3>1
      <3>2. CASE q # r
        <4>1. Exists(given[q]) /\ Form[given[q]] = Form[q] /\ given[q] \in Request
          BY <1>7, <3>2 DEF OrdersInv, OneOrderPerKey
        <4>2. QED
          BY <1>1, <1>6, <1>7, <3>2, <4>1 DEF Exists
      <3>3. QED
        BY <3>1, <3>2
    <2>3. QED
      BY <2>1, <2>2 DEF OneOrderPerKey, SameKey, Exists
  <1>12. TrailComplete'
    <2> SUFFICES ASSUME NEW q \in Request
                 PROVE  Tells(trail'[q], order'[q])
      BY DEF TrailComplete, Tells
    <2>1. CASE q = r
      BY <1>4, <1>6, <2>1
    <2>2. CASE q # r
      BY <1>6, <2>2 DEF OrdersInv, TrailComplete
    <2>3. QED
      BY <2>1, <2>2
  <1>13. QED
    BY <1>6, <1>7, <1>9, <1>10, <1>11, <1>12 DEF OrdersInv

-----------------------------------------------------------------------------
(* The invariant *)

LEMMA InitInvariant == Init => TInv
  <1> SUFFICES ASSUME Init
               PROVE  TInv
    OBVIOUS
  <1>1. TradeTypeOK
    <2>1. /\ product \in [Product -> ProductRow]
          /\ supplied \in [Product -> Int]
      <3>1. product \in [Product -> [stock : Stocks, price : Prices, published : BOOLEAN]]
        BY DEF Init
      <3>2. \A row \in [stock : Stocks, price : Prices, published : BOOLEAN] :
              row \in ProductRow
        BY TradeConstantsOK DEF ProductRow
      <3>3. product \in [Product -> ProductRow]
        BY <3>1, <3>2
      <3>4. \A p \in Product : product[p].stock \in Int
        BY <3>3 DEF ProductRow
      <3>5. supplied = [p \in Product |-> product[p].stock]
        BY DEF Init
      <3>6. QED
        BY <3>3, <3>4, <3>5
    <2>2. order \in [Request -> OrderRow]
      BY DEF Init, OrderRow
    <2>3. trail \in [Request -> Seq(Events)]
      BY DEF Init
    <2>4. account \in [User -> Account]
      BY DEF Init, Account
    <2>5. /\ placing \in [Request -> Phases] /\ given \in [Request -> Request]
          /\ canceling \in SUBSET Cancels /\ editing \in SUBSET Product /\ edits \in Nat
      BY DEF Init, Phases
    <2>6. QED
      BY <2>1, <2>2, <2>3, <2>4, <2>5 DEF TradeTypeOK
  <1>2. /\ OwnOrder
        /\ PaidMatches
        /\ OneOrderPerKey
    BY DEF Init, OwnOrder, PaidMatches, OneOrderPerKey, Exists
  <1>3. TrailComplete
    <2>1. Len(<<>>) = 0 /\ 2..0 = {} /\ 1..0 = {}
      OBVIOUS
    <2>2. \A o \in Request : /\ order[o].status = "NONE" /\ order[o].paid = FALSE
                             /\ trail[o] = <<>>
      BY DEF Init
    <2>3. QED
      BY <2>1, <2>2 DEF TrailComplete, Tells
  <1>4. QED
    BY <1>1, <1>2, <1>3 DEF TInv, OrdersInv, TradeTypeOK

\* What is left to show once orders are dealt with: the types of the rest.
LEMMA Rest ==
  ASSUME OrdersInv',
         product' \in [Product -> ProductRow],
         account' \in [User -> Account],
         canceling' \in SUBSET Cancels,
         supplied' \in [Product -> Int],
         editing' \in SUBSET Product,
         edits' \in Nat
  PROVE  TInv'
  BY DEF TInv, OrdersInv, TradeTypeOK

LEMMA OrdersUntouched ==
  ASSUME OrdersInv, UNCHANGED <<order, trail, placing, given>>
  PROVE  OrdersInv'
  <1>1. OwnOrder' /\ PaidMatches'
    BY DEF OrdersInv, OwnOrder, PaidMatches, Exists
  <1>2. OneOrderPerKey'
    BY DEF OrdersInv, OneOrderPerKey, Exists, SameKey
  <1>3. TrailComplete'
    BY DEF OrdersInv, TrailComplete, Tells
  <1>4. QED
    BY <1>1, <1>2, <1>3 DEF OrdersInv

LEMMA PlaceInvariant ==
  ASSUME TInv, NEW r \in Request,
         \/ PlaceLookup(r) \/ PlaceRefused(r) \/ PlaceFails(r) \/ PlaceDuplicate(r) \/ PlaceCommit(r)
  PROVE  TInv'
  <1> USE DEF TInv
  <1>1. OrdersInv'
    <2>1. ASSUME NEW o \in Request, Replays(r, o), placing[r] \in {"new", "lookedUp"},
                 UNCHANGED <<order, trail>>
          PROVE  OrdersInv'
      <3>1. Exists(o)
        BY <2>1 DEF Replays, Earlier
      <3>2. CASE Form[r] = Form[o]
        <4>1. Answers(r, "ordered", o)
          BY <2>1, <3>2 DEF Replays
        <4>2. QED
          BY <2>1, <3>1, <3>2, <4>1, AnswerKeeps DEF Phases
      <3>3. CASE Form[r] # Form[o]
        <4>1. Answers(r, "conflict", r)
          BY <2>1, <3>3 DEF Replays
        <4>2. QED
          BY <2>1, <4>1, AnswerKeeps DEF Phases
      <3>4. QED
        BY <3>2, <3>3
    <2>2. CASE PlaceLookup(r)
      <3>1. CASE \E o \in Request : Replays(r, o)
        BY <2>1, <2>2, <3>1 DEF PlaceLookup
      <3>2. CASE Answers(r, "lookedUp", r)
        BY <2>2, <3>2, AnswerKeeps DEF PlaceLookup, Phases
      <3>3. QED
        BY <2>2, <3>1, <3>2 DEF PlaceLookup
    <2>3. CASE PlaceRefused(r) \/ PlaceFails(r)
      BY <2>3, AnswerKeeps DEF PlaceRefused, PlaceFails, Phases
    <2>4. CASE PlaceDuplicate(r)
      BY <2>1, <2>4 DEF PlaceDuplicate
    <2>5. CASE PlaceCommit(r)
      <3>1. product[Form[r].product].price * Form[r].quantity \in Nat
        <4>1. /\ Form[r].quantity \in Nat
              /\ product[Form[r].product] \in ProductRow
          BY Parties DEF TradeTypeOK
        <4>2. product[Form[r].product].price \in Nat
          BY <4>1 DEF ProductRow
        <4>3. \A a, b \in Nat : a * b \in Nat
          OBVIOUS
        <4>4. QED
          BY <4>1, <4>2, <4>3
      <3>2. PICK how \in {"ordered", "failed"} : Answers(r, how, r)
        BY <2>5 DEF PlaceCommit
      <3>3. QED
        BY <2>5, <3>1, <3>2, InsertKeeps DEF PlaceCommit
    <2>6. QED
      BY <2>2, <2>3, <2>4, <2>5
  <1>2. product' \in [Product -> ProductRow]
    <2>1. CASE PlaceCommit(r)
      <3> DEFINE p == Form[r].product
                 left == product[p].stock - Form[r].quantity
      <3>1. p \in Product /\ Form[r].quantity \in Nat /\ product[p] \in ProductRow
        BY Parties DEF TradeTypeOK
      <3>2. left \in Nat
        <4>1. product[p].stock >= Form[r].quantity
          BY <2>1 DEF PlaceCommit, Orderable
        <4>2. product[p].stock \in Nat
          BY <3>1 DEF ProductRow
        <4>3. QED
          BY <3>1, <4>1, <4>2
      <3>3. product' = [product EXCEPT ![p].stock = left]
        BY <2>1 DEF PlaceCommit
      <3> HIDE DEF p, left
      <3>4. QED
        BY <3>1, <3>2, <3>3, ProductWrites DEF ProductRow
    <2>2. CASE ~PlaceCommit(r)
      BY <2>2 DEF TradeTypeOK, PlaceLookup, PlaceRefused, PlaceFails, PlaceDuplicate
    <2>3. QED
      BY <2>1, <2>2
  <1>3. UNCHANGED <<account, canceling, supplied, editing, edits>>
    BY DEF PlaceLookup, PlaceRefused, PlaceFails, PlaceDuplicate, PlaceCommit
  <1>4. QED
    BY <1>1, <1>2, <1>3, Rest DEF TradeTypeOK

LEMMA LifeInvariant ==
  ASSUME TInv, NEW o \in Request, Pay(o) \/ Ship(o) \/ Confirm(o)
  PROVE  TInv'
  <1> USE DEF TInv
  <1>1. order[o].amount \in Nat /\ Buyer(o) \in User /\ Seller(o) \in User
    BY Parties DEF TradeTypeOK, OrderRow
  <1>2. OrdersInv'
    BY <1>1, TransitKeeps DEF Pay, Ship, Confirm
  <1>3. account' \in [User -> Account]
    BY <1>1, DebitEffect, CreditEffect DEF Pay, Ship, Confirm, TradeTypeOK
  <1>4. UNCHANGED <<product, canceling, supplied, editing, edits>>
    BY DEF Pay, Ship, Confirm
  <1>5. QED
    BY <1>2, <1>3, <1>4, Rest DEF TradeTypeOK

LEMMA CancelLoadInvariant ==
  ASSUME TInv, NEW o \in Request, NEW u \in User, CancelLoad(o, u)
  PROVE  TInv'
  <1> USE DEF TInv
  <1>1. OrdersInv'
    BY OrdersUntouched DEF CancelLoad
  <1>2. canceling' \in SUBSET Cancels
    BY DEF CancelLoad, TradeTypeOK, Cancels, CancelRole
  <1>3. QED
    BY <1>1, <1>2, Rest DEF CancelLoad, TradeTypeOK

LEMMA CancelInvariant ==
  ASSUME TInv, NEW c \in canceling, CancelRefused(c) \/ CancelCommit(c)
  PROVE  TInv'
  <1> USE DEF TInv
  <1>1. c \in Cancels /\ canceling' \in SUBSET Cancels
    BY DEF TradeTypeOK, CancelRefused, CancelCommit
  <1>2. CASE CancelRefused(c)
    <2>1. OrdersInv'
      BY <1>2, OrdersUntouched DEF CancelRefused
    <2>2. QED
      BY <1>1, <1>2, <2>1, Rest DEF CancelRefused, TradeTypeOK
  <1>3. CASE CancelCommit(c)
    <2>1. /\ c.order \in Request /\ c.actor \in User /\ c.role \in {"BUYER", "SELLER"}
      BY <1>1 DEF Cancels
    <2>2. order[c.order].amount \in Nat /\ Buyer(c.order) \in User
      BY <2>1, Parties DEF TradeTypeOK, OrderRow
    <2>3. OrdersInv'
      BY <1>3, <2>1, TransitKeeps DEF CancelCommit
    <2>4. account' \in [User -> Account]
      BY <1>3, <2>2, CreditEffect DEF CancelCommit, TradeTypeOK
    <2>5. product' \in [Product -> ProductRow]
      <3> DEFINE p == Form[c.order].product
                 back == product[p].stock + Form[c.order].quantity
      <3>1. p \in Product /\ Form[c.order].quantity \in Nat /\ product[p] \in ProductRow
        BY <2>1, Parties DEF TradeTypeOK
      <3>2. back \in Nat
        BY <3>1 DEF ProductRow
      <3>3. product' = [product EXCEPT ![p].stock = back]
        BY <1>3 DEF CancelCommit
      <3> HIDE DEF p, back
      <3>4. QED
        BY <3>1, <3>2, <3>3, ProductWrites DEF ProductRow
    <2>6. QED
      BY <1>1, <1>3, <2>3, <2>4, <2>5, Rest DEF CancelCommit, TradeTypeOK
  <1>4. QED
    BY <1>2, <1>3

LEMMA SellerInvariant ==
  ASSUME TInv, NEW p \in Product,
         \/ EditLoad(p) \/ ShelveProduct(p)
         \/ \E stock \in Stocks, price \in Prices : EditCommit(p, stock, price)
  PROVE  TInv'
  <1> USE DEF TInv
  <1>1. UNCHANGED <<order, trail, account, placing, given, canceling>>
    BY DEF EditLoad, ShelveProduct, EditCommit
  <1>2. OrdersInv'
    BY <1>1, OrdersUntouched
  <1>3. edits' \in Nat /\ editing' \in SUBSET Product
    <2>1. /\ edits' \in {edits, edits + 1}
          /\ editing' \in {editing, editing \cup {p}, editing \ {p}}
      BY DEF EditLoad, ShelveProduct, EditCommit
    <2>2. QED
      BY <2>1 DEF TradeTypeOK
  <1>4. product' \in [Product -> ProductRow] /\ supplied' \in [Product -> Int]
    <2>1. product \in [Product -> ProductRow] /\ supplied \in [Product -> Int]
      BY DEF TradeTypeOK
    <2>2. CASE EditLoad(p)
      BY <2>1, <2>2 DEF EditLoad
    <2>3. CASE ShelveProduct(p)
      BY <2>1, <2>3, ProductWrites DEF ShelveProduct
    <2>4. ASSUME NEW stock \in Stocks, NEW price \in Prices, EditCommit(p, stock, price)
          PROVE  product' \in [Product -> ProductRow] /\ supplied' \in [Product -> Int]
      <3>1. stock \in Nat /\ price \in Nat
        BY TradeConstantsOK
      <3>2. product' \in [Product -> ProductRow]
        BY <2>4, <3>1, ProductWrites DEF EditCommit
      <3>3. product[p].stock \in Nat
        BY <2>1 DEF ProductRow
      <3>4. supplied' = [supplied EXCEPT ![p] = @ + stock - product[p].stock]
        BY <2>4 DEF EditCommit
      <3>5. QED
        BY <2>1, <3>1, <3>2, <3>3, <3>4
    <2>5. QED
      BY <2>2, <2>3, <2>4
  <1>5. QED
    BY <1>1, <1>2, <1>3, <1>4, Rest DEF TradeTypeOK

LEMMA NextInvariant == TInv /\ [Next]_tradeVars => TInv'
  <1> SUFFICES ASSUME TInv, [Next]_tradeVars
               PROVE  TInv'
    OBVIOUS
  <1>1. CASE Next
    BY <1>1, PlaceInvariant, LifeInvariant, CancelLoadInvariant, CancelInvariant,
       SellerInvariant DEF Next
  <1>2. CASE UNCHANGED tradeVars
    <2>1. OrdersInv'
      BY <1>2, OrdersUntouched DEF TInv, tradeVars
    <2>2. QED
      BY <1>2, <2>1, Rest DEF TInv, tradeVars, TradeTypeOK
  <1>3. QED
    BY <1>1, <1>2

THEOREM TradeInvariance == Spec => []TInv
  BY InitInvariant, NextInvariant, PTL DEF Spec

\* Every table has the shape the models declare; in particular no balance and
\* no stock is ever negative.
THEOREM TradeTypeCorrect == Spec => []TradeTypeOK
  BY TradeInvariance, PTL DEF TInv

\* However requests repeat and interleave, a key has one order, and it is the
\* one every copy of the request is answered with.
THEOREM KeysHaveOneOrder == Spec => []OneOrderPerKey
  BY TradeInvariance, PTL DEF TInv, OrdersInv

\* The events of an order tell its whole story.
THEOREM TrailsComplete == Spec => []TrailComplete
  BY TradeInvariance, PTL DEF TInv, OrdersInv

-----------------------------------------------------------------------------
(* Refinement of Escrow *)

\* What transitionOrder does to the stages of the deals.
LEMMA TransitStages ==
  ASSUME TInv, NEW o \in Request, NEW to, NEW actor, NEW role,
         Transits(o, to, actor, role)
  PROVE  /\ worths' = worths
         /\ to = "PAID" => /\ stages[o] = "agreed"
                           /\ stages' = [stages EXCEPT ![o] = "held"]
         /\ to = "SHIPPED" => /\ stages[o] = "held"
                              /\ stages' = [stages EXCEPT ![o] = "onItsWay"]
         /\ to = "COMPLETED" => /\ stages[o] = "onItsWay"
                                /\ stages' = [stages EXCEPT ![o] = "released"]
         /\ to = "CANCELED" /\ order[o].status = "PENDING_PAYMENT"
              => /\ stages[o] = "agreed"
                 /\ stages' = [stages EXCEPT ![o] = "dropped"]
         /\ to = "CANCELED" /\ order[o].status = "PAID"
              => /\ stages[o] = "held"
                 /\ stages' = [stages EXCEPT ![o] = "refunded"]
  <1> DEFINE new == [order[o] EXCEPT !.status = to, !.paid = @ \/ to = "PAID"]
  <1>1. /\ order \in [Request -> OrderRow] /\ order[o] \in OrderRow
        /\ order[o].status = "PENDING_PAYMENT" => ~order[o].paid
        /\ order[o].status = "PAID" => order[o].paid
    BY DEF TInv, TradeTypeOK, OrdersInv, PaidMatches
  <1>2. order' = [order EXCEPT ![o] = new]
    BY DEF Transits
  <1>3. <<order[o].status, to>> \in orderTransitions
    BY DEF Transits
  <1>4. /\ new.status = to
        /\ new.amount = order[o].amount
        /\ new.paid = (order[o].paid \/ to = "PAID")
    BY <1>1 DEF OrderRow
  <1> HIDE DEF new
  <1>5. worths' = worths
    BY <1>1, <1>2, <1>4 DEF worths
  <1>6. stages' = [stages EXCEPT ![o] = StageOf(new)]
    BY <1>1, <1>2 DEF stages
  <1>7. stages[o] = StageOf(order[o])
    BY DEF stages
  <1>8. /\ to = "PAID" => order[o].status = "PENDING_PAYMENT"
        /\ to = "SHIPPED" => order[o].status = "PAID"
        /\ to = "COMPLETED" => order[o].status = "SHIPPED"
    BY <1>3 DEF orderTransitions
  <1>9. /\ order[o].status = "PENDING_PAYMENT" => StageOf(order[o]) = "agreed"
        /\ order[o].status = "PAID" => StageOf(order[o]) = "held"
        /\ order[o].status = "SHIPPED" => StageOf(order[o]) = "onItsWay"
    BY DEF StageOf
  <1>10. /\ to = "PAID" => StageOf(new) = "held"
         /\ to = "SHIPPED" => StageOf(new) = "onItsWay"
         /\ to = "COMPLETED" => StageOf(new) = "released"
         /\ to = "CANCELED" /\ ~new.paid => StageOf(new) = "dropped"
         /\ to = "CANCELED" /\ new.paid => StageOf(new) = "refunded"
    BY <1>4 DEF StageOf
  <1>11. /\ to = "CANCELED" /\ order[o].status = "PENDING_PAYMENT" => ~new.paid
         /\ to = "CANCELED" /\ order[o].status = "PAID" => new.paid
    BY <1>1, <1>4
  <1>12. QED
    BY <1>5, <1>6, <1>7, <1>8, <1>9, <1>10, <1>11

\* What debitBuyer and creditUser do to the balances.
LEMMA MoneyMoves ==
  ASSUME TradeTypeOK, NEW u \in User, NEW amount \in Nat
  PROVE  /\ Debits(u, amount)
              => /\ balances[u] >= amount
                 /\ balances' = [balances EXCEPT ![u] = @ - amount]
         /\ Credits(u, amount) => balances' = [balances EXCEPT ![u] = @ + amount]
         /\ UNCHANGED account => balances' = balances
  <1>1. ASSUME Debits(u, amount)
        PROVE  /\ balances[u] >= amount
               /\ balances' = [balances EXCEPT ![u] = @ - amount]
    <2>1. /\ AccountOf(u)'.cash = AccountOf(u).cash - amount
          /\ \A v \in User \ {u} : AccountOf(v)' = AccountOf(v)
      BY <1>1, DebitEffect
    <2>2. AccountOf(u).cash >= amount
      BY <1>1 DEF Debits
    <2>3. QED
      BY <2>1, <2>2 DEF balances
  <1>2. ASSUME Credits(u, amount)
        PROVE  balances' = [balances EXCEPT ![u] = @ + amount]
    <2>1. /\ AccountOf(u)'.cash = AccountOf(u).cash + amount
          /\ \A v \in User \ {u} : AccountOf(v)' = AccountOf(v)
      BY <1>2, CreditEffect
    <2>2. QED
      BY <2>1 DEF balances
  <1>3. ASSUME UNCHANGED account
        PROVE  balances' = balances
    BY <1>3 DEF balances, AccountOf
  <1>4. QED
    BY <1>1, <1>2, <1>3

\* A step that changes neither an order nor an account does not show.
LEMMA EscrowStutters ==
  ASSUME UNCHANGED <<order, account>>
  PROVE  UNCHANGED TheEscrow!escrowVars
  <1>1. stages' = stages /\ worths' = worths
    BY DEF stages, worths
  <1>2. balances' = balances
    BY DEF balances, AccountOf
  <1>3. QED
    BY <1>1, <1>2 DEF TheEscrow!escrowVars

\* The insert of an order agrees on the deal.
LEMMA PlaceAgrees ==
  ASSUME TInv, NEW r \in Request, PlaceCommit(r)
  PROVE  TheEscrow!Agree(r)
  <1> DEFINE amount == product[Form[r].product].price * Form[r].quantity
             new == [status |-> "PENDING_PAYMENT", amount |-> amount, paid |-> FALSE]
  <1>1. amount \in Nat
    <2>1. /\ Form[r].quantity \in Nat
          /\ product[Form[r].product] \in ProductRow
      BY Parties DEF TInv, TradeTypeOK
    <2>2. product[Form[r].product].price \in Nat
      BY <2>1 DEF ProductRow
    <2>3. \A a, b \in Nat : a * b \in Nat
      OBVIOUS
    <2>4. QED
      BY <2>1, <2>2, <2>3
  <1>2. /\ order' = [order EXCEPT ![r] = new]
        /\ UNCHANGED account
    BY DEF PlaceCommit
  <1>3. order \in [Request -> OrderRow] /\ order[r].status = "NONE"
    BY DEF TInv, OrdersInv, OwnOrder, Exists, PlaceCommit
  <1>4. StageOf(order[r]) = "none"
    BY <1>3 DEF StageOf
  <1>5. /\ StageOf(new) = "agreed"
        /\ new.amount = amount
    BY DEF StageOf
  <1> HIDE DEF new, amount
  <1>6. /\ stages[r] = "none"
        /\ stages' = [stages EXCEPT ![r] = "agreed"]
    BY <1>2, <1>3, <1>4, <1>5 DEF stages
  <1>7. /\ worths' = [worths EXCEPT ![r] = amount]
        /\ worths'[r] = amount
    BY <1>2, <1>3, <1>5 DEF worths
  <1>8. balances' = balances
    BY <1>2 DEF balances, AccountOf
  <1>9. QED
    BY <1>1, <1>6, <1>7, <1>8 DEF TheEscrow!Agree, TheEscrow!Moves

\* Paying holds the money, shipping sends the goods, confirming releases it.
LEMMA LifeRefines ==
  ASSUME TInv, NEW o \in Request
  PROVE  /\ Pay(o) => TheEscrow!Hold(o)
         /\ Ship(o) => TheEscrow!Dispatch(o)
         /\ Confirm(o) => TheEscrow!Release(o)
  <1> DEFINE payer == [q \in Request |-> Buyer(q)]
             payee == [q \in Request |-> Seller(q)]
  <1>1. /\ TradeTypeOK /\ order[o].amount \in Nat
        /\ Buyer(o) \in User /\ Seller(o) \in User
    BY Parties DEF TInv, TradeTypeOK, OrderRow
  <1>2. /\ payer[o] = Buyer(o) /\ payee[o] = Seller(o)
        /\ worths[o] = order[o].amount
    BY DEF worths
  <1> HIDE DEF payer, payee
  <1>3. ASSUME Pay(o)
        PROVE  TheEscrow!Hold(o)
    <2>1. /\ stages[o] = "agreed"
          /\ stages' = [stages EXCEPT ![o] = "held"]
          /\ worths' = worths
      BY <1>3, TransitStages DEF Pay
    <2>2. /\ balances[Buyer(o)] >= order[o].amount
          /\ balances' = [balances EXCEPT ![Buyer(o)] = @ - order[o].amount]
      BY <1>1, <1>3, MoneyMoves DEF Pay
    <2>3. QED
      BY <1>2, <2>1, <2>2 DEF TheEscrow!Hold, TheEscrow!Moves, payer
  <1>4. ASSUME Ship(o)
        PROVE  TheEscrow!Dispatch(o)
    <2>1. /\ stages[o] = "held"
          /\ stages' = [stages EXCEPT ![o] = "onItsWay"]
          /\ worths' = worths
      BY <1>4, TransitStages DEF Ship
    <2>2. balances' = balances
      BY <1>4 DEF Ship, balances, AccountOf
    <2>3. QED
      BY <2>1, <2>2 DEF TheEscrow!Dispatch, TheEscrow!Moves
  <1>5. ASSUME Confirm(o)
        PROVE  TheEscrow!Release(o)
    <2>1. /\ stages[o] = "onItsWay"
          /\ stages' = [stages EXCEPT ![o] = "released"]
          /\ worths' = worths
      BY <1>5, TransitStages DEF Confirm
    <2>2. balances' = [balances EXCEPT ![Seller(o)] = @ + order[o].amount]
      BY <1>1, <1>5, MoneyMoves DEF Confirm
    <2>3. QED
      BY <1>2, <2>1, <2>2 DEF TheEscrow!Release, TheEscrow!Moves, payee
  <1>6. QED
    BY <1>3, <1>4, <1>5

\* Canceling refunds what was held and drops what was merely agreed.
LEMMA CancelRefines ==
  ASSUME TInv, NEW c \in canceling, CancelCommit(c)
  PROVE  TheEscrow!Refund(c.order) \/ TheEscrow!Drop(c.order)
  <1> DEFINE o == c.order
             payer == [q \in Request |-> Buyer(q)]
  <1>1. o \in Request
    BY DEF TInv, TradeTypeOK, Cancels
  <1>2. /\ TradeTypeOK /\ order[o].amount \in Nat /\ Buyer(o) \in User
    BY <1>1, Parties DEF TInv, TradeTypeOK, OrderRow
  <1>3. payer[o] = Buyer(o) /\ worths[o] = order[o].amount
    BY <1>1 DEF worths
  <1>4. /\ Transits(o, "CANCELED", c.actor, c.role)
        /\ order[o].status \in {"PENDING_PAYMENT", "PAID"}
        /\ order[o].status = "PAID" => Credits(Buyer(o), order[o].amount)
        /\ order[o].status # "PAID" => UNCHANGED account
    BY DEF CancelCommit, CancelAuthorized
  <1> HIDE DEF o, payer
  <1>5. CASE order[o].status = "PAID"
    <2>1. /\ stages[o] = "held"
          /\ stages' = [stages EXCEPT ![o] = "refunded"]
          /\ worths' = worths
      BY <1>1, <1>4, <1>5, TransitStages
    <2>2. balances' = [balances EXCEPT ![Buyer(o)] = @ + order[o].amount]
      BY <1>2, <1>4, <1>5, MoneyMoves
    <2>3. TheEscrow!Refund(o)
      BY <1>3, <2>1, <2>2 DEF TheEscrow!Refund, TheEscrow!Moves, payer
    <2>4. QED
      BY <2>3 DEF o
  <1>6. CASE order[o].status = "PENDING_PAYMENT"
    <2>1. /\ stages[o] = "agreed"
          /\ stages' = [stages EXCEPT ![o] = "dropped"]
          /\ worths' = worths
      BY <1>1, <1>4, <1>6, TransitStages
    <2>2. balances' = balances
      BY <1>2, <1>4, <1>6, MoneyMoves
    <2>3. TheEscrow!Drop(o)
      BY <2>1, <2>2 DEF TheEscrow!Drop, TheEscrow!Moves
    <2>4. QED
      BY <2>3 DEF o
  <1>7. QED
    BY <1>4, <1>5, <1>6

LEMMA NextKeepsEscrow ==
  TInv /\ [Next]_tradeVars => [TheEscrow!Next]_(TheEscrow!escrowVars)
  <1> SUFFICES ASSUME TInv, [Next]_tradeVars
               PROVE  TheEscrow!Next \/ UNCHANGED TheEscrow!escrowVars
    OBVIOUS
  <1>1. ASSUME NEW r \in Request,
               PlaceLookup(r) \/ PlaceRefused(r) \/ PlaceFails(r) \/ PlaceDuplicate(r)
        PROVE  UNCHANGED TheEscrow!escrowVars
    BY <1>1, EscrowStutters DEF PlaceLookup, PlaceRefused, PlaceFails, PlaceDuplicate
  <1>2. ASSUME NEW r \in Request, PlaceCommit(r) \/ Pay(r) \/ Ship(r) \/ Confirm(r)
        PROVE  TheEscrow!Next
    BY <1>2, PlaceAgrees, LifeRefines DEF TheEscrow!Next
  <1>3. ASSUME NEW c \in canceling, CancelCommit(c)
        PROVE  TheEscrow!Next
    <2>1. c.order \in Request
      BY DEF TInv, TradeTypeOK, Cancels
    <2>2. QED
      BY <1>3, <2>1, CancelRefines DEF TheEscrow!Next
  <1>4. ASSUME NEW o \in Request, NEW u \in User, CancelLoad(o, u)
        PROVE  UNCHANGED TheEscrow!escrowVars
    BY <1>4, EscrowStutters DEF CancelLoad
  <1>5. ASSUME NEW c \in canceling, CancelRefused(c)
        PROVE  UNCHANGED TheEscrow!escrowVars
    BY <1>5, EscrowStutters DEF CancelRefused
  <1>6. ASSUME NEW p \in Product, NEW stock, NEW price,
               EditLoad(p) \/ ShelveProduct(p) \/ EditCommit(p, stock, price)
        PROVE  UNCHANGED TheEscrow!escrowVars
    BY <1>6, EscrowStutters DEF EditLoad, ShelveProduct, EditCommit
  <1>7. CASE UNCHANGED tradeVars
    BY <1>7, EscrowStutters DEF tradeVars
  <1>8. QED
    BY <1>1, <1>2, <1>3, <1>4, <1>5, <1>6, <1>7 DEF Next

\* TradeOrders implements Escrow: a payment leaves the buyer's balance once and
\* reaches one party, and no other step of the orders touches a balance.
THEOREM OrdersKeepEscrow == Spec => EscrowKept
  <1>1. Init => TheEscrow!Init
    <2> SUFFICES ASSUME Init
                 PROVE  TheEscrow!Init
      OBVIOUS
    <2>1. stages = [o \in Request |-> "none"] /\ worths = [o \in Request |-> 0]
      BY DEF Init, stages, worths, StageOf
    <2>2. balances = [u \in User |-> StartingCash]
      BY DEF Init, balances, AccountOf, NewAccount
    <2>3. QED
      BY <2>1, <2>2 DEF TheEscrow!Init
  <1>2. QED
    BY <1>1, NextKeepsEscrow, TradeInvariance, PTL DEF Spec, EscrowKept, TheEscrow!Spec

-----------------------------------------------------------------------------
(***************************************************************************)
(* Sums over finite sets.  SumFunctionOnSet is defined by a CHOOSE of the  *)
(* function that adds up every subset; that there is such a function, and  *)
(* that it can take any element last, is shown for a smallest subset for   *)
(* which it would fail.                                                    *)
(***************************************************************************)

\* The definition of the sum, as a property of the function it defines.
Choice(s) == CHOOSE x \in s : TRUE

Adding(g, f, A) ==
  g = [s \in SUBSET A |-> IF s = {} THEN 0 ELSE f[Choice(s)] + g[s \ {Choice(s)}]]

LEMMA SumDefinition ==
  ASSUME NEW f, NEW S
  PROVE  SumFunctionOnSet(f, S) = (CHOOSE g : Adding(g, f, S))[S]
  BY Zenon DEF SumFunctionOnSet, FoldFunctionOnSet, MapThenFoldSet, Adding, Choice

\* Of a nonempty set of finite sets, one has no other below it.
LEMMA SmallestSet ==
  ASSUME NEW S, IsFiniteSet(S), NEW T \in SUBSET SUBSET S, T # {}
  PROVE  \E A \in T : \A B \in T : B \subseteq A => B = A
  <1> DEFINE R == StrictSubsetOrdering(S)
  <1>1. IsWellFoundedOn(R, SUBSET S)
    BY FS_StrictSubsetOrderingWellFounded, FS_FiniteSubsetsOfFinite
  <1>2. PICK A \in T : \A B \in T : ~(<<B, A>> \in R)
    <2> HIDE DEF R
    <2>1. QED
      BY <1>1, WFMin
  <1>3. QED
    BY <1>2 DEF StrictSubsetOrdering

LEMMA ChoiceIn ==
  ASSUME NEW s, s # {}
  PROVE  Choice(s) \in s
  BY DEF Choice

\* Two functions that add f up agree where both are defined.
LEMMA AddingAgrees ==
  ASSUME NEW f, NEW S, IsFiniteSet(S), NEW A \in SUBSET S, NEW B \in SUBSET S,
         NEW g, Adding(g, f, A), NEW h, Adding(h, f, B), NEW s \in SUBSET (A \cap B)
  PROVE  g[s] = h[s]
  <1> DEFINE T == {t \in SUBSET (A \cap B) : g[t] # h[t]}
  <1>1. SUFFICES ASSUME T # {} PROVE FALSE
    OBVIOUS
  <1>2. T \in SUBSET SUBSET S
    OBVIOUS
  <1>3. PICK t \in T : \A u \in T : u \subseteq t => u = t
    <2> HIDE DEF T
    <2>1. QED
      BY <1>1, <1>2, SmallestSet
  <1>4. \A u \in SUBSET A : g[u] = IF u = {} THEN 0 ELSE f[Choice(u)] + g[u \ {Choice(u)}]
    BY DEF Adding
  <1>5. \A u \in SUBSET B : h[u] = IF u = {} THEN 0 ELSE f[Choice(u)] + h[u \ {Choice(u)}]
    BY DEF Adding
  <1>6. t # {}
    BY <1>4, <1>5
  <1>7. t \ {Choice(t)} \notin T
    BY <1>3, <1>6, ChoiceIn
  <1>8. g[t \ {Choice(t)}] = h[t \ {Choice(t)}]
    BY <1>7
  <1>9. QED
    BY <1>4, <1>5, <1>6, <1>8

LEMMA AddingExists ==
  ASSUME NEW f, NEW S, IsFiniteSet(S), NEW A \in SUBSET S
  PROVE  \E g : Adding(g, f, A)
  <1> DEFINE T == {B \in SUBSET S : ~\E g : Adding(g, f, B)}
  <1>1. SUFFICES ASSUME T # {} PROVE FALSE
    OBVIOUS
  <1>2. PICK B \in T : \A C \in T : C \subseteq B => C = B
    <2>1. T \in SUBSET SUBSET S
      OBVIOUS
    <2> HIDE DEF T
    <2>2. QED
      BY <1>1, <2>1, SmallestSet
  <1> DEFINE G(C) == CHOOSE g : Adding(g, f, C)
             h == [s \in SUBSET B |->
                     IF s = {} THEN 0
                               ELSE f[Choice(s)] + G(s \ {Choice(s)})[s \ {Choice(s)}]]
  <1>3. ASSUME NEW C \in SUBSET B, C # B PROVE Adding(G(C), f, C)
    <2>1. \E g : Adding(g, f, C)
      BY <1>2, <1>3
    <2>2. QED
      BY <2>1, Zenon
  <1>4. ASSUME NEW C \in SUBSET B, C # B PROVE h[C] = G(C)[C]
    <2>1. G(C)[C] = IF C = {} THEN 0 ELSE f[Choice(C)] + G(C)[C \ {Choice(C)}]
      <3> HIDE DEF G
      <3>1. QED
        BY <1>3, <1>4 DEF Adding
    <2>2. CASE C = {}
      BY <2>1, <2>2
    <2>3. CASE C # {}
      <3> DEFINE D == C \ {Choice(C)}
      <3>1. D \in SUBSET B /\ D # B /\ D \subseteq C /\ D \in SUBSET S /\ C \in SUBSET S
        BY <1>4, <2>3, ChoiceIn
      <3>2. Adding(G(C), f, C) /\ Adding(G(D), f, D)
        BY <1>3, <1>4, <3>1
      <3>3. D \in SUBSET (C \cap D)
        BY <3>1
      <3>4. G(C)[D] = G(D)[D]
        <4> HIDE DEF D, G
        <4>1. QED
          BY <3>1, <3>2, <3>3, AddingAgrees
      <3>5. QED
        BY <2>1, <2>3, <3>4
    <2>4. QED
      BY <2>2, <2>3
  <1>5. Adding(h, f, B)
    <2>1. ASSUME NEW s \in SUBSET B, s # {}
          PROVE  G(s \ {Choice(s)})[s \ {Choice(s)}] = h[s \ {Choice(s)}]
      <3>1. s \ {Choice(s)} \in SUBSET B /\ s \ {Choice(s)} # B
        BY <2>1, ChoiceIn
      <3> HIDE DEF G, h
      <3>2. QED
        BY <1>4, <3>1
    <2> HIDE DEF G
    <2>2. /\ h = [s \in SUBSET B |-> h[s]]
          /\ \A s \in SUBSET B :
               h[s] = IF s = {} THEN 0
                                ELSE f[Choice(s)] + G(s \ {Choice(s)})[s \ {Choice(s)}]
      OBVIOUS
    <2> HIDE DEF h
    <2>3. \A s \in SUBSET B :
            h[s] = IF s = {} THEN 0 ELSE f[Choice(s)] + h[s \ {Choice(s)}]
      BY <2>1, <2>2
    <2>4. QED
      BY <2>2, <2>3 DEF Adding
  <1>6. QED
    BY <1>2, <1>5

LEMMA SumStep ==
  ASSUME NEW f, NEW S, IsFiniteSet(S)
  PROVE  SumFunctionOnSet(f, S) =
           IF S = {} THEN 0 ELSE f[Choice(S)] + SumFunctionOnSet(f, S \ {Choice(S)})
  <1> DEFINE G(A) == CHOOSE g : Adding(g, f, A)
             T == S \ {Choice(S)}
  <1>1. \A A \in SUBSET S : Adding(G(A), f, A)
    <2>1. \A A \in SUBSET S : \E g : Adding(g, f, A)
      BY AddingExists
    <2>2. QED
      BY <2>1, Zenon
  <1>2. SumFunctionOnSet(f, S) = G(S)[S] /\ SumFunctionOnSet(f, T) = G(T)[T]
    BY SumDefinition
  <1> HIDE DEF G
  <1>3. G(S)[S] = IF S = {} THEN 0 ELSE f[Choice(S)] + G(S)[T]
    BY <1>1 DEF Adding
  <1>4. T \in SUBSET S /\ S \in SUBSET S /\ T \in SUBSET (S \cap T)
    OBVIOUS
  <1> HIDE DEF T
  <1>5. G(S)[T] = G(T)[T]
    BY <1>1, <1>4, AddingAgrees
  <1>6. QED
    BY <1>2, <1>3, <1>5 DEF T

LEMMA SumEmpty ==
  ASSUME NEW f
  PROVE  SumFunctionOnSet(f, {}) = 0
  BY SumStep, FS_EmptySet

\* The sum depends only on the values that are added, and is a number if they are.
LEMMA SumSame ==
  ASSUME NEW f, NEW g, NEW S, IsFiniteSet(S), \A x \in S : f[x] = g[x]
  PROVE  SumFunctionOnSet(f, S) = SumFunctionOnSet(g, S)
  <1> DEFINE T == {A \in SUBSET S : SumFunctionOnSet(f, A) # SumFunctionOnSet(g, A)}
  <1>1. SUFFICES ASSUME T # {} PROVE FALSE
    OBVIOUS
  <1>2. PICK A \in T : \A B \in T : B \subseteq A => B = A
    <2>1. T \in SUBSET SUBSET S
      OBVIOUS
    <2> HIDE DEF T
    <2>2. QED
      BY <1>1, <2>1, SmallestSet
  <1>3. IsFiniteSet(A)
    BY FS_Subset
  <1>4. A # {}
    BY SumEmpty
  <1>5. Choice(A) \in A /\ A \ {Choice(A)} \notin T
    BY <1>2, <1>4, ChoiceIn
  <1>6. QED
    BY <1>3, <1>4, <1>5, SumStep

LEMMA SumType ==
  ASSUME NEW f, NEW S, IsFiniteSet(S), \A x \in S : f[x] \in Nat
  PROVE  SumFunctionOnSet(f, S) \in Nat
  <1> DEFINE T == {A \in SUBSET S : SumFunctionOnSet(f, A) \notin Nat}
  <1>1. SUFFICES ASSUME T # {} PROVE FALSE
    OBVIOUS
  <1>2. PICK A \in T : \A B \in T : B \subseteq A => B = A
    <2>1. T \in SUBSET SUBSET S
      OBVIOUS
    <2> HIDE DEF T
    <2>2. QED
      BY <1>1, <2>1, SmallestSet
  <1>3. IsFiniteSet(A)
    BY FS_Subset
  <1>4. A # {}
    BY SumEmpty
  <1>5. Choice(A) \in A /\ A \ {Choice(A)} \notin T
    BY <1>2, <1>4, ChoiceIn
  <1>6. QED
    BY <1>3, <1>4, <1>5, SumStep

\* Any element may be added last.
LEMMA SumRemove ==
  ASSUME NEW f, NEW S, IsFiniteSet(S), \A x \in S : f[x] \in Nat, NEW x \in S
  PROVE  SumFunctionOnSet(f, S) = f[x] + SumFunctionOnSet(f, S \ {x})
  <1> DEFINE Sum(A) == SumFunctionOnSet(f, A)
             T == {A \in SUBSET S : \E y \in A : Sum(A) # f[y] + Sum(A \ {y})}
  <1>1. SUFFICES ASSUME T # {} PROVE FALSE
    OBVIOUS
  <1>2. PICK A \in T : \A B \in T : B \subseteq A => B = A
    <2>1. T \in SUBSET SUBSET S
      OBVIOUS
    <2> HIDE DEF T
    <2>2. QED
      BY <1>1, <2>1, SmallestSet
  <1>3. PICK y \in A : Sum(A) # f[y] + Sum(A \ {y})
    OBVIOUS
  <1> DEFINE c == Choice(A)
             C == A \ {c}
             Y == A \ {y}
             B == A \ {c, y}
  <1>4. c \in A /\ Sum(A) = f[c] + Sum(C)
    <2>1. IsFiniteSet(A) /\ A # {}
      BY FS_Subset
    <2>2. QED
      BY <2>1, ChoiceIn, SumStep
  <1>5. c # y
    BY <1>3, <1>4
  <1>6. y \in C /\ c \in Y /\ C \ {y} = B /\ Y \ {c} = B
    BY <1>4, <1>5
  <1>7. /\ C \in SUBSET S /\ \A z \in C : Sum(C) = f[z] + Sum(C \ {z})
        /\ Y \in SUBSET S /\ \A z \in Y : Sum(Y) = f[z] + Sum(Y \ {z})
    <2>1. C \in SUBSET S /\ C \subseteq A /\ C # A /\ Y \in SUBSET S /\ Y \subseteq A /\ Y # A
      BY <1>4
    <2>2. C \notin T /\ Y \notin T
      <3> HIDE DEF T, C, Y
      <3>1. QED
        BY <1>2, <2>1
    <2> HIDE DEF Sum, C, Y
    <2>3. QED
      BY <2>1, <2>2
  <1>8. Sum(C) = f[y] + Sum(B) /\ Sum(Y) = f[c] + Sum(B)
    <2> HIDE DEF Sum, B, C, Y
    <2>1. QED
      BY <1>6, <1>7
  <1>9. f[c] \in Nat /\ f[y] \in Nat /\ Sum(B) \in Nat
    <2>1. IsFiniteSet(B) /\ \A z \in B : f[z] \in Nat
      BY FS_Subset
    <2>2. Sum(B) \in Nat
      BY <2>1, SumType
    <2>3. QED
      BY <1>4, <2>2
  <1> HIDE DEF Sum
  <1>10. QED
    BY <1>3, <1>4, <1>8, <1>9

LEMMA SumAdd ==
  ASSUME NEW f, NEW S, IsFiniteSet(S), NEW x, x \notin S, \A y \in S \cup {x} : f[y] \in Nat
  PROVE  SumFunctionOnSet(f, S \cup {x}) = f[x] + SumFunctionOnSet(f, S)
  <1>1. IsFiniteSet(S \cup {x}) /\ (S \cup {x}) \ {x} = S
    BY FS_AddElement
  <1>2. QED
    BY <1>1, SumRemove

-----------------------------------------------------------------------------
(***************************************************************************)
(* Stock.  The orders that reserve units of a product are always finitely  *)
(* many, whatever Request is, and the equation holds product by product:   *)
(* an order that is placed adds a term and takes it from the stock, one    *)
(* that is canceled gives it back, an edit moves the stock and the supply  *)
(* by the same number.                                                     *)
(***************************************************************************)

quantities == [o \in Request |-> Form[o].quantity]

\* The sum, of a set and of the one after the step.
LEMMA ReservedIs ==
  ASSUME NEW p \in Product
  PROVE  /\ Reserved(p) = SumFunctionOnSet(quantities, Reserving(p))
         /\ Reserved(p)' = SumFunctionOnSet(quantities, Reserving(p)')
  BY DEF Reserved, quantities

\* The inductive invariant of the stock.
StockKept(p) ==
  /\ IsFiniteSet(Reserving(p))
  /\ product[p].stock + Reserved(p) = supplied[p]

StockInv == \A p \in Product : StockKept(p)

LEMMA QuantitiesType ==
  /\ \A o \in Request : quantities[o] = Form[o].quantity /\ quantities[o] \in Nat
  /\ \A p \in Product : Reserving(p) \subseteq Request /\ Reserving(p)' \subseteq Request
  BY Parties DEF quantities, Reserving

LEMMA ReservedType ==
  ASSUME TradeTypeOK, NEW p \in Product, IsFiniteSet(Reserving(p))
  PROVE  Reserved(p) \in Nat /\ product[p].stock \in Nat /\ supplied[p] \in Int
  <1>1. \A o \in Reserving(p) : quantities[o] \in Nat
    BY QuantitiesType
  <1>2. Reserved(p) \in Nat
    BY <1>1, ReservedIs, SumType
  <1>3. QED
    BY <1>2 DEF TradeTypeOK, ProductRow

\* A product whose orders, stock and supply are left alone.
LEMMA StockUntouched ==
  ASSUME NEW p \in Product, StockKept(p), Reserving(p)' = Reserving(p),
         product'[p].stock = product[p].stock, supplied'[p] = supplied[p]
  PROVE  StockKept(p)'
  BY ReservedIs DEF StockKept

\* An order is placed.
LEMMA StockReserved ==
  ASSUME TradeTypeOK, NEW p \in Product, StockKept(p), NEW o \in Request,
         o \notin Reserving(p), Reserving(p)' = Reserving(p) \cup {o},
         product'[p].stock = product[p].stock - Form[o].quantity,
         supplied'[p] = supplied[p]
  PROVE  StockKept(p)'
  <1>1. IsFiniteSet(Reserving(p)) /\ Reserved(p) \in Nat
        /\ product[p].stock \in Nat /\ supplied[p] \in Int
    BY ReservedType DEF StockKept
  <1>2. IsFiniteSet(Reserving(p)')
    BY <1>1, FS_AddElement
  <1>3. \A q \in Reserving(p) \cup {o} : quantities[q] \in Nat
    BY QuantitiesType
  <1>4. Reserved(p)' = Form[o].quantity + Reserved(p)
    <2>1. SumFunctionOnSet(quantities, Reserving(p) \cup {o})
            = quantities[o] + SumFunctionOnSet(quantities, Reserving(p))
      BY <1>1, <1>3, SumAdd
    <2>2. QED
      BY <2>1, ReservedIs, QuantitiesType
  <1>5. Form[o].quantity \in Nat
    BY Parties
  <1>6. QED
    BY <1>1, <1>2, <1>4, <1>5 DEF StockKept

\* An order is canceled.
LEMMA StockRestored ==
  ASSUME TradeTypeOK, NEW p \in Product, StockKept(p), NEW o \in Reserving(p),
         Reserving(p)' = Reserving(p) \ {o},
         product'[p].stock = product[p].stock + Form[o].quantity,
         supplied'[p] = supplied[p]
  PROVE  StockKept(p)'
  <1>1. IsFiniteSet(Reserving(p)) /\ Reserved(p) \in Nat
        /\ product[p].stock \in Nat /\ supplied[p] \in Int
    BY ReservedType DEF StockKept
  <1>2. IsFiniteSet(Reserving(p)')
    BY <1>1, FS_RemoveElement
  <1>3. \A q \in Reserving(p) : quantities[q] \in Nat
    BY QuantitiesType
  <1>4. Reserved(p) = Form[o].quantity + Reserved(p)'
    <2>1. SumFunctionOnSet(quantities, Reserving(p))
            = quantities[o] + SumFunctionOnSet(quantities, Reserving(p) \ {o})
      BY <1>1, <1>3, SumRemove
    <2>2. QED
      BY <2>1, ReservedIs, QuantitiesType
  <1>5. Form[o].quantity \in Nat
    BY Parties, QuantitiesType
  <1>6. Reserved(p)' \in Nat
    <2>1. \A q \in Reserving(p)' : quantities[q] \in Nat
      BY QuantitiesType
    <2>2. QED
      BY <1>2, <2>1, ReservedIs, SumType
  <1>7. QED
    BY <1>1, <1>2, <1>4, <1>5, <1>6 DEF StockKept

\* transitionOrder ends a reservation only when it cancels.
LEMMA TransitReserves ==
  ASSUME TradeTypeOK, NEW o \in Request, NEW to, NEW actor, NEW role,
         Transits(o, to, actor, role), NEW p \in Product
  PROVE  /\ to # "CANCELED" => Reserving(p)' = Reserving(p)
         /\ to = "CANCELED" => Reserving(p)' = Reserving(p) \ {o}
         /\ Form[o].product = p => o \in Reserving(p)
         /\ Form[o].product # p => o \notin Reserving(p)
  <1>1. /\ order \in [Request -> OrderRow] /\ order[o] \in OrderRow
        /\ order[o].status \notin {"NONE", "CANCELED"}
        /\ to # "NONE"
    BY DEF TradeTypeOK, Transits, orderTransitions
  <1>2. /\ order'[o].status = to
        /\ \A q \in Request \ {o} : order'[q] = order[q]
    BY <1>1 DEF Transits, OrderRow
  <1>3. QED
    BY <1>1, <1>2 DEF Reserving

LEMMA PlaceCommitStock ==
  ASSUME TInv, StockInv, NEW r \in Request, PlaceCommit(r)
  PROVE  StockInv'
  <1> SUFFICES ASSUME NEW p \in Product
               PROVE  StockKept(p)'
    BY DEF StockInv
  <1>1. TradeTypeOK /\ StockKept(p)
    BY DEF TInv, StockInv
  <1>2. /\ order \in [Request -> OrderRow] /\ order[r].status = "NONE"
        /\ product \in [Product -> ProductRow]
        /\ Form[r].product \in Product
    BY Parties DEF TInv, TradeTypeOK, OrdersInv, OwnOrder, Exists, PlaceCommit
  <1>3. /\ order'[r].status = "PENDING_PAYMENT"
        /\ \A q \in Request \ {r} : order'[q] = order[q]
        /\ supplied' = supplied
    BY <1>2 DEF PlaceCommit
  <1>4. CASE Form[r].product = p
    <2>1. r \notin Reserving(p) /\ Reserving(p)' = Reserving(p) \cup {r}
      BY <1>2, <1>3, <1>4 DEF Reserving
    <2>2. product'[p].stock = product[p].stock - Form[r].quantity
      BY <1>2, <1>4 DEF PlaceCommit, ProductRow
    <2>3. QED
      BY <1>1, <1>3, <2>1, <2>2, StockReserved
  <1>5. CASE Form[r].product # p
    <2>1. Reserving(p)' = Reserving(p)
      BY <1>2, <1>3, <1>5 DEF Reserving
    <2>2. product'[p].stock = product[p].stock
      BY <1>2, <1>5 DEF PlaceCommit, ProductRow
    <2>3. QED
      BY <1>1, <1>3, <2>1, <2>2, StockUntouched
  <1>6. QED
    BY <1>4, <1>5

LEMMA CancelCommitStock ==
  ASSUME TInv, StockInv, NEW c \in canceling, CancelCommit(c)
  PROVE  StockInv'
  <1> SUFFICES ASSUME NEW p \in Product
               PROVE  StockKept(p)'
    BY DEF StockInv
  <1> DEFINE o == c.order
  <1>1. TradeTypeOK /\ StockKept(p) /\ o \in Request
    BY DEF TInv, StockInv, TradeTypeOK, Cancels
  <1>2. /\ Transits(o, "CANCELED", c.actor, c.role)
        /\ product' = [product EXCEPT ![Form[o].product].stock = @ + Form[o].quantity]
        /\ supplied' = supplied
    BY DEF CancelCommit
  <1> HIDE DEF o
  <1>3. /\ Reserving(p)' = Reserving(p) \ {o}
        /\ Form[o].product = p => o \in Reserving(p)
        /\ Form[o].product # p => o \notin Reserving(p)
    BY <1>1, <1>2, TransitReserves
  <1>4. product \in [Product -> ProductRow] /\ Form[o].product \in Product
    BY <1>1, Parties DEF TradeTypeOK
  <1>5. CASE Form[o].product = p
    <2>1. product'[p].stock = product[p].stock + Form[o].quantity
      BY <1>2, <1>4, <1>5 DEF ProductRow
    <2>2. QED
      BY <1>1, <1>2, <1>3, <1>5, <2>1, StockRestored
  <1>6. CASE Form[o].product # p
    <2>1. product'[p].stock = product[p].stock
      BY <1>2, <1>4, <1>6 DEF ProductRow
    <2>2. Reserving(p)' = Reserving(p)
      BY <1>3, <1>6
    <2>3. QED
      BY <1>1, <1>2, <2>1, <2>2, StockUntouched
  <1>7. QED
    BY <1>5, <1>6

LEMMA EditCommitStock ==
  ASSUME TInv, StockInv, NEW q \in Product, NEW stock \in Stocks, NEW price \in Prices,
         EditCommit(q, stock, price)
  PROVE  StockInv'
  <1> SUFFICES ASSUME NEW p \in Product
               PROVE  StockKept(p)'
    BY DEF StockInv
  <1>1. /\ StockKept(p) /\ stock \in Nat
        /\ product \in [Product -> ProductRow] /\ supplied \in [Product -> Int]
    BY TradeConstantsOK DEF TInv, StockInv, TradeTypeOK
  <1>2. Reserving(p)' = Reserving(p) /\ Reserved(p)' = Reserved(p)
    BY ReservedIs DEF EditCommit, Reserving
  <1>3. Reserved(p) \in Nat /\ product[p].stock \in Nat /\ supplied[p] \in Int
    BY <1>1, ReservedType DEF TInv, StockKept
  <1>4. CASE p = q
    <2>1. product'[p].stock = stock /\ supplied'[p] = supplied[p] + stock - product[p].stock
      BY <1>1, <1>4 DEF EditCommit, ProductRow
    <2>2. QED
      BY <1>1, <1>2, <1>3, <2>1 DEF StockKept
  <1>5. CASE p # q
    <2>1. product'[p].stock = product[p].stock /\ supplied'[p] = supplied[p]
      BY <1>1, <1>5 DEF EditCommit, ProductRow
    <2>2. QED
      BY <1>1, <1>2, <2>1, StockUntouched
  <1>6. QED
    BY <1>4, <1>5

LEMMA StockStep == TInv /\ StockInv /\ [Next]_tradeVars => StockInv'
  <1> SUFFICES ASSUME TInv, StockInv, [Next]_tradeVars
               PROVE  StockInv'
    OBVIOUS
  <1>1. ASSUME \A p \in Product : /\ Reserving(p)' = Reserving(p)
                                  /\ product'[p].stock = product[p].stock
                                  /\ supplied'[p] = supplied[p]
        PROVE  StockInv'
    BY <1>1, StockUntouched DEF StockInv
  <1>2. ASSUME UNCHANGED <<product, order, supplied>>
        PROVE  StockInv'
    BY <1>1, <1>2 DEF Reserving
  <1>3. ASSUME NEW r \in Request, PlaceLookup(r) \/ PlaceRefused(r) \/ PlaceFails(r) \/ PlaceDuplicate(r)
        PROVE  StockInv'
    BY <1>2, <1>3 DEF PlaceLookup, PlaceRefused, PlaceFails, PlaceDuplicate
  <1>4. ASSUME NEW o \in Request, Pay(o) \/ Ship(o) \/ Confirm(o)
        PROVE  StockInv'
    <2>1. \E to, actor, role : to # "CANCELED" /\ Transits(o, to, actor, role)
      <3>1. "PAID" # "CANCELED" /\ "SHIPPED" # "CANCELED" /\ "COMPLETED" # "CANCELED"
        OBVIOUS
      <3>2. CASE Pay(o)
        BY <3>1, <3>2 DEF Pay
      <3>3. CASE Ship(o)
        BY <3>1, <3>3 DEF Ship
      <3>4. CASE Confirm(o)
        BY <3>1, <3>4 DEF Confirm
      <3>5. QED
        BY <1>4, <3>2, <3>3, <3>4
    <2>2. UNCHANGED <<product, supplied>>
      BY <1>4 DEF Pay, Ship, Confirm
    <2>3. \A p \in Product : Reserving(p)' = Reserving(p)
      BY <2>1, TransitReserves DEF TInv
    <2>4. QED
      BY <1>1, <2>2, <2>3
  <1>5. ASSUME NEW o \in Request, NEW u \in User, CancelLoad(o, u)
        PROVE  StockInv'
    BY <1>2, <1>5 DEF CancelLoad
  <1>6. ASSUME NEW c \in canceling, CancelRefused(c)
        PROVE  StockInv'
    BY <1>2, <1>6 DEF CancelRefused
  <1>7. ASSUME NEW p \in Product, EditLoad(p)
        PROVE  StockInv'
    BY <1>2, <1>7 DEF EditLoad
  <1>8. ASSUME NEW q \in Product, ShelveProduct(q)
        PROVE  StockInv'
    <2>1. product \in [Product -> ProductRow]
      BY DEF TInv, TradeTypeOK
    <2>2. \A p \in Product : product'[p].stock = product[p].stock
      BY <1>8, <2>1 DEF ShelveProduct, ProductRow
    <2>3. UNCHANGED <<order, supplied>>
      BY <1>8 DEF ShelveProduct
    <2>4. QED
      BY <1>1, <2>2, <2>3 DEF Reserving
  <1>9. CASE UNCHANGED tradeVars
    BY <1>2, <1>9 DEF tradeVars
  <1>10. QED
    BY <1>3, <1>4, <1>5, <1>6, <1>7, <1>8, <1>9, PlaceCommitStock, CancelCommitStock,
       EditCommitStock DEF Next

LEMMA StockStart == Init => StockInv
  <1> SUFFICES ASSUME Init, NEW p \in Product
               PROVE  StockKept(p)
    BY DEF StockInv
  <1>1. Reserving(p) = {}
    BY DEF Init, Reserving
  <1>2. Reserved(p) = 0 /\ IsFiniteSet(Reserving(p))
    BY <1>1, ReservedIs, SumEmpty, FS_EmptySet
  <1>3. product[p].stock \in Nat /\ supplied[p] = product[p].stock
    BY TradeConstantsOK DEF Init
  <1>4. QED
    BY <1>2, <1>3 DEF StockKept

\* What is in stock and what is reserved is what the seller put up, through
\* every order, cancellation and edit (orders.go, catalog.go).
THEOREM StockConserved == Spec => []StockAccounted
  <1>1. StockInv => StockAccounted
    BY DEF StockInv, StockKept, StockAccounted
  <1>2. QED
    BY <1>1, StockStart, StockStep, TradeInvariance, PTL DEF Spec

-----------------------------------------------------------------------------
(***************************************************************************)
(* Money.  The accounts that are open and the orders that are paid and not *)
(* completed are finitely many.  A write to one account changes what all   *)
(* hold, less what they were opened with, by the amount it was meant to,   *)
(* whether or not it opens the account; and transitionOrder changes what   *)
(* is on its way by the same amount the other way.                         *)
(***************************************************************************)

purses == [u \in User |-> account[u].cash]
InHand == SumFunctionOnSet(purses, Opened)
OnTheWay == SumFunctionOnSet(worths, Between)
Issued == Cardinality(Opened) * StartingCash

\* The inductive invariant of the money.
MoneyInv ==
  /\ IsFiniteSet(Opened)
  /\ IsFiniteSet(Between)
  /\ InHand + OnTheWay = Issued

LEMMA MoneyTypes ==
  ASSUME TradeTypeOK
  PROVE  /\ Opened \subseteq User /\ Between \subseteq Request
         /\ \A u \in User : purses[u] = account[u].cash /\ purses[u] \in Nat
         /\ \A o \in Request : worths[o] = order[o].amount /\ worths[o] \in Nat
         /\ IsFiniteSet(Opened) => InHand \in Nat /\ Issued \in Nat
         /\ IsFiniteSet(Between) => OnTheWay \in Nat
  <1>1. Opened \subseteq User /\ Between \subseteq Request
    BY DEF Opened, Between
  <1>2. \A u \in User : purses[u] = account[u].cash /\ purses[u] \in Nat
    BY DEF TradeTypeOK, Account, purses
  <1>3. \A o \in Request : worths[o] = order[o].amount /\ worths[o] \in Nat
    BY DEF TradeTypeOK, OrderRow, worths
  <1>4. ASSUME IsFiniteSet(Opened) PROVE InHand \in Nat /\ Issued \in Nat
    <2>1. \A u \in Opened : purses[u] \in Nat
      BY <1>1, <1>2
    <2>2. Cardinality(Opened) \in Nat /\ StartingCash \in Nat
      BY <1>4, FS_CardinalityType, TradeConstantsOK
    <2>3. \A a, b \in Nat : a * b \in Nat
      OBVIOUS
    <2>4. QED
      BY <1>4, <2>1, <2>2, <2>3, SumType DEF InHand, Issued
  <1>5. ASSUME IsFiniteSet(Between) PROVE OnTheWay \in Nat
    <2>1. \A o \in Between : worths[o] \in Nat
      BY <1>1, <1>3
    <2>2. QED
      BY <1>5, <2>1, SumType DEF OnTheWay
  <1>6. QED
    BY <1>1, <1>2, <1>3, <1>4, <1>5

\* What a write to one account changes: what that account holds, counting one
\* that is opened by it as holding the starting cash before.
LEMMA AccountWrite ==
  ASSUME TradeTypeOK, IsFiniteSet(Opened), NEW u \in User, NEW a \in Account,
         a.open = TRUE, account' = [account EXCEPT ![u] = a]
  PROVE  /\ IsFiniteSet(Opened)' /\ InHand' \in Nat /\ Issued' \in Nat
         /\ InHand' + Issued + AccountOf(u).cash = InHand + Issued' + a.cash
  <1>1. /\ account \in [User -> Account]
        /\ account' \in [User -> Account] /\ account'[u] = a
        /\ \A v \in User \ {u} : account'[v] = account[v]
    BY DEF TradeTypeOK
  <1> DEFINE O == Opened
             P == Opened'
             f == purses
             g == purses'
             rest == SumFunctionOnSet(f, O \ {u})
             k == StartingCash
  <1>2. /\ P = O \cup {u} /\ u \in P /\ P \ {u} = O \ {u}
    BY <1>1 DEF Opened
  <1>3. /\ \A v \in User : f[v] = account[v].cash /\ f[v] \in Nat
        /\ \A v \in User : g[v] = account'[v].cash /\ g[v] \in Nat
    BY <1>1 DEF purses, Account
  <1>4. /\ O \subseteq User /\ P \subseteq User
    BY DEF Opened
  <1>5. IsFiniteSet(P) /\ IsFiniteSet(O) /\ IsFiniteSet(O \ {u})
    BY <1>2, FS_AddElement, FS_RemoveElement
  <1>6. InHand = SumFunctionOnSet(f, O) /\ InHand' = SumFunctionOnSet(g, P)
    BY DEF InHand
  <1>7. Issued = Cardinality(O) * k /\ Issued' = Cardinality(P) * k
    BY DEF Issued
  <1>8. Cardinality(O) \in Nat /\ Cardinality(P) \in Nat /\ k \in Nat
    BY <1>5, FS_CardinalityType, TradeConstantsOK
  <1>9. /\ u \in O => AccountOf(u).cash = f[u]
        /\ u \notin O => AccountOf(u).cash = k
        /\ a.cash = g[u] /\ a.cash \in Nat
    BY <1>1, <1>3 DEF AccountOf, NewAccount, Opened
  <1>10. \A v \in O \ {u} : f[v] = g[v] /\ f[v] \in Nat
    BY <1>1, <1>3, <1>4
  <1> HIDE DEF O, P, f, g, k
  <1>11. SumFunctionOnSet(g, O \ {u}) = rest /\ rest \in Nat
    BY <1>5, <1>10, SumSame, SumType
  <1>12. SumFunctionOnSet(g, P) = g[u] + rest
    BY <1>2, <1>3, <1>4, <1>5, <1>11, SumRemove
  <1> HIDE DEF rest
  <1>13. CASE u \in O
    <2>1. SumFunctionOnSet(f, O) = f[u] + rest
      BY <1>3, <1>4, <1>5, <1>13, SumRemove DEF rest
    <2>2. P = O
      BY <1>2, <1>13
    <2>3. Cardinality(O) * k \in Nat
      BY <1>8
    <2>4. f[u] \in Nat
      BY <1>3
    <2>5. IsFiniteSet(Opened)'
      BY <1>5 DEF P
    <2>6. QED
      BY <1>6, <1>7, <1>9, <1>11, <1>12, <1>13, <2>1, <2>2, <2>3, <2>4, <2>5
  <1>14. CASE u \notin O
    <2>1. SumFunctionOnSet(f, O) = rest
      <3>1. O \ {u} = O
        BY <1>14
      <3>2. QED
        BY <3>1 DEF rest
    <2>2. Cardinality(P) = Cardinality(O) + 1
      BY <1>2, <1>5, <1>14, FS_AddElement
    <2>3. Cardinality(P) * k = Cardinality(O) * k + k
      <3>1. \A n, m \in Nat : (n + 1) * m = n * m + m
        OBVIOUS
      <3>2. QED
        BY <1>8, <2>2, <3>1
    <2>4. Cardinality(O) * k \in Nat
      <3>1. \A n, m \in Nat : n * m \in Nat
        OBVIOUS
      <3>2. QED
        BY <1>8, <3>1
    <2>5. IsFiniteSet(Opened)'
      BY <1>5 DEF P
    <2>6. QED
      BY <1>6, <1>7, <1>8, <1>9, <1>11, <1>12, <1>14, <2>1, <2>3, <2>4, <2>5
  <1>15. QED
    BY <1>13, <1>14

\* The same for debitBuyer and creditUser.
LEMMA MoneyWrite ==
  ASSUME TradeTypeOK, IsFiniteSet(Opened), NEW u \in User, NEW amount \in Nat
  PROVE  /\ Debits(u, amount)
              => /\ IsFiniteSet(Opened)' /\ InHand' \in Nat /\ Issued' \in Nat
                 /\ InHand' + Issued + amount = InHand + Issued'
         /\ Credits(u, amount)
              => /\ IsFiniteSet(Opened)' /\ InHand' \in Nat /\ Issued' \in Nat
                 /\ InHand' + Issued = InHand + Issued' + amount
  <1>1. AccountOf(u) \in Account /\ AccountOf(u).open = TRUE /\ AccountOf(u).cash \in Nat
    BY AccountOfType DEF Account
  <1>2. InHand \in Nat /\ Issued \in Nat
    BY MoneyTypes
  <1>3. ASSUME Debits(u, amount)
        PROVE  /\ IsFiniteSet(Opened)' /\ InHand' \in Nat /\ Issued' \in Nat
               /\ InHand' + Issued + amount = InHand + Issued'
    <2> DEFINE a == [AccountOf(u) EXCEPT !.cash = @ - amount]
    <2>1. a \in Account /\ a.open = TRUE /\ a.cash = AccountOf(u).cash - amount
      BY <1>1, <1>3 DEF Account, Debits
    <2>2. account' = [account EXCEPT ![u] = a]
      BY <1>3 DEF Debits
    <2> HIDE DEF a
    <2>3. /\ IsFiniteSet(Opened)' /\ InHand' \in Nat /\ Issued' \in Nat
          /\ InHand' + Issued + AccountOf(u).cash = InHand + Issued' + a.cash
      BY <2>1, <2>2, AccountWrite
    <2>4. QED
      BY <1>1, <1>2, <2>1, <2>3
  <1>4. ASSUME Credits(u, amount)
        PROVE  /\ IsFiniteSet(Opened)' /\ InHand' \in Nat /\ Issued' \in Nat
               /\ InHand' + Issued = InHand + Issued' + amount
    <2> DEFINE a == [AccountOf(u) EXCEPT !.cash = @ + amount]
    <2>1. a \in Account /\ a.open = TRUE /\ a.cash = AccountOf(u).cash + amount
      BY <1>1 DEF Account
    <2>2. account' = [account EXCEPT ![u] = a]
      BY <1>4 DEF Credits
    <2> HIDE DEF a
    <2>3. /\ IsFiniteSet(Opened)' /\ InHand' \in Nat /\ Issued' \in Nat
          /\ InHand' + Issued + AccountOf(u).cash = InHand + Issued' + a.cash
      BY <2>1, <2>2, AccountWrite
    <2>4. QED
      BY <1>1, <1>2, <2>1, <2>3
  <1>5. QED
    BY <1>3, <1>4

\* What transitionOrder does to what is on its way.
LEMMA TransitOnTheWay ==
  ASSUME TInv, NEW o \in Request, NEW to, NEW actor, NEW role,
         Transits(o, to, actor, role), IsFiniteSet(Between)
  PROVE  /\ IsFiniteSet(Between)' /\ OnTheWay' \in Nat
         /\ to = "PAID" => OnTheWay' = OnTheWay + order[o].amount
         /\ to = "SHIPPED" => OnTheWay' = OnTheWay
         /\ to = "COMPLETED" => OnTheWay = OnTheWay' + order[o].amount
         /\ to = "CANCELED" /\ order[o].status = "PAID"
              => OnTheWay = OnTheWay' + order[o].amount
         /\ to = "CANCELED" /\ order[o].status # "PAID" => OnTheWay' = OnTheWay
  <1>1. /\ order \in [Request -> OrderRow] /\ order[o] \in OrderRow
        /\ <<order[o].status, to>> \in orderTransitions
        /\ worths' = worths
    BY TransitStages DEF TInv, TradeTypeOK, Transits
  <1>2. /\ order'[o].status = to
        /\ \A q \in Request \ {o} : order'[q] = order[q]
    BY <1>1 DEF Transits, OrderRow
  <1> DEFINE B == Between
             C == Between'
             f == worths
  <1>3. /\ \A q \in Request : f[q] \in Nat
        /\ f[o] = order[o].amount
        /\ B \subseteq Request
    BY MoneyTypes DEF TInv
  <1>4. OnTheWay = SumFunctionOnSet(f, B) /\ OnTheWay' = SumFunctionOnSet(f, C)
    BY <1>1 DEF OnTheWay
  <1>5. /\ to = "PAID" => o \notin B /\ C = B \cup {o}
        /\ to = "SHIPPED" => C = B
        /\ to = "COMPLETED" => o \in B /\ C = B \ {o}
        /\ to = "CANCELED" /\ order[o].status = "PAID" => o \in B /\ C = B \ {o}
        /\ to = "CANCELED" /\ order[o].status # "PAID" => C = B
        /\ to \in {"PAID", "SHIPPED", "COMPLETED", "CANCELED"}
    <2>1. /\ to = "PAID" => order[o].status = "PENDING_PAYMENT"
          /\ to = "SHIPPED" => order[o].status = "PAID"
          /\ to = "COMPLETED" => order[o].status = "SHIPPED"
          /\ to = "CANCELED" => order[o].status \in {"PENDING_PAYMENT", "PAID"}
          /\ to \in {"PAID", "SHIPPED", "COMPLETED", "CANCELED"}
      BY <1>1 DEF orderTransitions
    <2>2. QED
      BY <1>2, <2>1 DEF Between
  <1> HIDE DEF B, C, f
  <1>6. IsFiniteSet(B)
    BY DEF B
  <1>7. SumFunctionOnSet(f, B) \in Nat
    BY <1>3, <1>6, SumType
  <1>8. ASSUME o \notin B, C = B \cup {o}
        PROVE  IsFiniteSet(C) /\ SumFunctionOnSet(f, C) = f[o] + SumFunctionOnSet(f, B)
    BY <1>3, <1>6, <1>8, FS_AddElement, SumAdd
  <1>9. ASSUME o \in B, C = B \ {o}
        PROVE  /\ IsFiniteSet(C) /\ SumFunctionOnSet(f, B) = f[o] + SumFunctionOnSet(f, C)
               /\ SumFunctionOnSet(f, C) \in Nat
    <2>1. IsFiniteSet(C) /\ \A q \in C : f[q] \in Nat
      BY <1>3, <1>6, <1>9, FS_RemoveElement
    <2>2. QED
      BY <1>3, <1>6, <1>9, <2>1, SumRemove, SumType
  <1>10. IsFiniteSet(C) <=> IsFiniteSet(Between)'
    BY DEF C
  <1>11. f[o] \in Nat
    BY <1>3
  <1>12. CASE to = "PAID"
    BY <1>3, <1>4, <1>5, <1>7, <1>8, <1>10, <1>11, <1>12
  <1>13. CASE to = "SHIPPED"
    BY <1>4, <1>5, <1>6, <1>7, <1>10, <1>13
  <1>14. CASE to = "COMPLETED"
    BY <1>3, <1>4, <1>5, <1>9, <1>10, <1>11, <1>14
  <1>15. CASE to = "CANCELED" /\ order[o].status = "PAID"
    BY <1>3, <1>4, <1>5, <1>9, <1>10, <1>11, <1>15
  <1>16. CASE to = "CANCELED" /\ order[o].status # "PAID"
    BY <1>4, <1>5, <1>6, <1>7, <1>10, <1>16
  <1>17. QED
    BY <1>5, <1>12, <1>13, <1>14, <1>15, <1>16

LEMMA MoneyUntouched ==
  ASSUME MoneyInv, UNCHANGED account, Between' = Between, \A o \in Between : worths'[o] = worths[o]
  PROVE  MoneyInv'
  <1>1. InHand' = InHand /\ Opened' = Opened /\ Issued' = Issued
    BY DEF InHand, Opened, purses, Issued
  <1>2. OnTheWay' = OnTheWay
    BY SumSame DEF OnTheWay, MoneyInv
  <1>3. QED
    BY <1>1, <1>2 DEF MoneyInv

LEMMA LifeMoney ==
  ASSUME TInv, MoneyInv, NEW o \in Request, Pay(o) \/ Ship(o) \/ Confirm(o)
  PROVE  MoneyInv'
  <1>1. /\ TradeTypeOK /\ IsFiniteSet(Opened) /\ IsFiniteSet(Between)
        /\ InHand + OnTheWay = Issued
        /\ order[o].amount \in Nat /\ Buyer(o) \in User /\ Seller(o) \in User
    BY Parties DEF TInv, MoneyInv, TradeTypeOK, OrderRow
  <1>2. InHand \in Nat /\ Issued \in Nat /\ OnTheWay \in Nat
    BY <1>1, MoneyTypes
  <1>3. CASE Pay(o)
    <2>1. IsFiniteSet(Between)' /\ OnTheWay' = OnTheWay + order[o].amount
      BY <1>1, <1>3, TransitOnTheWay DEF Pay
    <2>2. /\ IsFiniteSet(Opened)' /\ InHand' \in Nat /\ Issued' \in Nat
          /\ InHand' + Issued + order[o].amount = InHand + Issued'
      BY <1>1, <1>3, MoneyWrite DEF Pay
    <2>3. InHand' + OnTheWay' = Issued'
      BY <1>1, <1>2, <2>1, <2>2
    <2>4. QED
      BY <2>1, <2>2, <2>3 DEF MoneyInv
  <1>4. CASE Ship(o)
    <2>1. IsFiniteSet(Between)' /\ OnTheWay' = OnTheWay
      BY <1>1, <1>4, TransitOnTheWay DEF Ship
    <2>2. InHand' = InHand /\ Opened' = Opened /\ Issued' = Issued
      BY <1>4 DEF Ship, InHand, Opened, purses, Issued
    <2>3. QED
      BY <1>1, <2>1, <2>2 DEF MoneyInv
  <1>5. CASE Confirm(o)
    <2>1. /\ IsFiniteSet(Between)' /\ OnTheWay' \in Nat
          /\ OnTheWay = OnTheWay' + order[o].amount
      BY <1>1, <1>5, TransitOnTheWay DEF Confirm
    <2>2. /\ IsFiniteSet(Opened)' /\ InHand' \in Nat /\ Issued' \in Nat
          /\ InHand' + Issued = InHand + Issued' + order[o].amount
      BY <1>1, <1>5, MoneyWrite DEF Confirm
    <2>3. InHand' + OnTheWay' = Issued'
      BY <1>1, <1>2, <2>1, <2>2
    <2>4. QED
      BY <2>1, <2>2, <2>3 DEF MoneyInv
  <1>6. QED
    BY <1>3, <1>4, <1>5

\* What leaves one side of the equation reaches the other.
LEMMA Passed ==
  ASSUME NEW h \in Nat, NEW w \in Nat, NEW i \in Nat, NEW n \in Nat,
         NEW hh \in Nat, NEW ww \in Nat, NEW ii \in Nat,
         h + w = i, w = ww + n, hh + i = h + ii + n
  PROVE  hh + ww = ii
  OBVIOUS

LEMMA CancelMoney ==
  ASSUME TInv, MoneyInv, NEW c \in canceling, CancelCommit(c)
  PROVE  MoneyInv'
  <1> DEFINE o == c.order
  <1>1. o \in Request
    BY DEF TInv, TradeTypeOK, Cancels
  <1>2. /\ TradeTypeOK /\ IsFiniteSet(Opened) /\ IsFiniteSet(Between)
        /\ InHand + OnTheWay = Issued
        /\ order[o].amount \in Nat /\ Buyer(o) \in User
    BY <1>1, Parties DEF TInv, MoneyInv, TradeTypeOK, OrderRow
  <1>3. /\ Transits(o, "CANCELED", c.actor, c.role)
        /\ order[o].status = "PAID" => Credits(Buyer(o), order[o].amount)
        /\ order[o].status # "PAID" => UNCHANGED account
    BY DEF CancelCommit
  <1> HIDE DEF o
  <1>4. InHand \in Nat /\ Issued \in Nat /\ OnTheWay \in Nat
    BY <1>2, MoneyTypes
  <1>5. CASE order[o].status = "PAID"
    <2>1. /\ IsFiniteSet(Between)' /\ OnTheWay' \in Nat
          /\ OnTheWay = OnTheWay' + order[o].amount
      BY <1>1, <1>2, <1>3, <1>5, TransitOnTheWay
    <2>2. /\ IsFiniteSet(Opened)' /\ InHand' \in Nat /\ Issued' \in Nat
          /\ InHand' + Issued = InHand + Issued' + order[o].amount
      BY <1>2, <1>3, <1>5, MoneyWrite
    <2>3. InHand' + OnTheWay' = Issued'
      <3> DEFINE n == order[o].amount
      <3>1. /\ n \in Nat /\ OnTheWay = OnTheWay' + n
            /\ InHand' + Issued = InHand + Issued' + n
        BY <1>2, <2>1, <2>2
      <3>2. InHand + OnTheWay = Issued /\ OnTheWay' \in Nat /\ InHand' \in Nat /\ Issued' \in Nat
        BY <1>2, <2>1, <2>2
      <3> HIDE DEF n
      <3> DEFINE hh == InHand'
                 ww == OnTheWay'
                 ii == Issued'
      <3>3. /\ InHand \in Nat /\ OnTheWay \in Nat /\ Issued \in Nat /\ n \in Nat
            /\ hh \in Nat /\ ww \in Nat /\ ii \in Nat
            /\ InHand + OnTheWay = Issued /\ OnTheWay = ww + n
            /\ hh + Issued = InHand + ii + n
        BY <1>4, <3>1, <3>2
      <3> HIDE DEF hh, ww, ii
      <3>4. hh + ww = ii
        BY <3>3, Passed
      <3>5. QED
        BY <3>4 DEF hh, ww, ii
    <2>4. QED
      BY <2>1, <2>2, <2>3 DEF MoneyInv
  <1>6. CASE order[o].status # "PAID"
    <2>1. IsFiniteSet(Between)' /\ OnTheWay' = OnTheWay
      BY <1>1, <1>2, <1>3, <1>6, TransitOnTheWay
    <2>2. InHand' = InHand /\ Opened' = Opened /\ Issued' = Issued
      BY <1>3, <1>6 DEF InHand, Opened, purses, Issued
    <2>3. QED
      BY <1>2, <2>1, <2>2 DEF MoneyInv
  <1>7. QED
    BY <1>5, <1>6

LEMMA MoneyStep == TInv /\ MoneyInv /\ [Next]_tradeVars => MoneyInv'
  <1> SUFFICES ASSUME TInv, MoneyInv, [Next]_tradeVars
               PROVE  MoneyInv'
    OBVIOUS
  <1>1. ASSUME UNCHANGED <<order, account>>
        PROVE  MoneyInv'
    <2>1. Between' = Between /\ worths' = worths
      BY <1>1 DEF Between, worths
    <2>2. QED
      BY <1>1, <2>1, MoneyUntouched
  <1>2. ASSUME NEW r \in Request, PlaceLookup(r) \/ PlaceRefused(r) \/ PlaceFails(r) \/ PlaceDuplicate(r)
        PROVE  MoneyInv'
    BY <1>1, <1>2 DEF PlaceLookup, PlaceRefused, PlaceFails, PlaceDuplicate
  <1>3. ASSUME NEW r \in Request, PlaceCommit(r)
        PROVE  MoneyInv'
    <2>1. order \in [Request -> OrderRow] /\ order[r].status = "NONE"
      BY <1>3 DEF TInv, OrdersInv, OwnOrder, Exists, PlaceCommit
    <2>2. /\ order'[r].status = "PENDING_PAYMENT"
          /\ \A q \in Request \ {r} : order'[q] = order[q]
          /\ UNCHANGED account
      BY <1>3, <2>1 DEF PlaceCommit
    <2>3. Between' = Between /\ r \notin Between /\ Between \subseteq Request
      BY <2>1, <2>2 DEF Between
    <2>4. \A o \in Between : worths'[o] = worths[o]
      BY <2>2, <2>3 DEF worths
    <2>5. QED
      BY <2>2, <2>3, <2>4, MoneyUntouched
  <1>4. ASSUME NEW o \in Request, NEW u \in User, CancelLoad(o, u)
        PROVE  MoneyInv'
    BY <1>1, <1>4 DEF CancelLoad
  <1>5. ASSUME NEW c \in canceling, CancelRefused(c)
        PROVE  MoneyInv'
    BY <1>1, <1>5 DEF CancelRefused
  <1>6. ASSUME NEW p \in Product, EditLoad(p) \/ ShelveProduct(p)
        PROVE  MoneyInv'
    BY <1>1, <1>6 DEF EditLoad, ShelveProduct
  <1>7. ASSUME NEW p \in Product, NEW stock \in Stocks, NEW price \in Prices,
               EditCommit(p, stock, price)
        PROVE  MoneyInv'
    BY <1>1, <1>7 DEF EditCommit
  <1>8. CASE UNCHANGED tradeVars
    BY <1>1, <1>8 DEF tradeVars
  <1>9. CASE \E r \in Request :
                \/ PlaceLookup(r) \/ PlaceRefused(r) \/ PlaceFails(r) \/ PlaceDuplicate(r) \/ PlaceCommit(r)
                \/ Pay(r) \/ Ship(r) \/ Confirm(r)
                \/ \E u \in User : CancelLoad(r, u)
    BY <1>2, <1>3, <1>4, <1>9, LifeMoney
  <1>10. CASE \E c \in canceling : CancelRefused(c) \/ CancelCommit(c)
    BY <1>5, <1>10, CancelMoney
  <1>11. CASE \E p \in Product :
                \/ EditLoad(p) \/ ShelveProduct(p)
                \/ \E stock \in Stocks, price \in Prices : EditCommit(p, stock, price)
    BY <1>6, <1>7, <1>11
  <1>12. QED
    BY <1>8, <1>9, <1>10, <1>11 DEF Next

LEMMA MoneyStart == Init => MoneyInv
  <1> SUFFICES ASSUME Init
               PROVE  MoneyInv
    OBVIOUS
  <1>1. Opened = {} /\ Between = {}
    BY DEF Init, Opened, Between
  <1>2. IsFiniteSet({}) /\ Cardinality({}) = 0 /\ 0 * StartingCash = 0
    BY FS_EmptySet, TradeConstantsOK
  <1>3. QED
    BY <1>1, <1>2, SumEmpty DEF MoneyInv, InHand, OnTheWay, Issued

\* Payments, completions and refunds move money and neither make nor lose any
\* (order_status.go, debitBuyer and creditUser).
THEOREM MoneyNeverLost == Spec => []MoneyConserved
  <1>1. MoneyInv => MoneyConserved
    BY DEF MoneyInv, InHand, OnTheWay, Issued, purses, worths, MoneyConserved
  <1>2. QED
    BY <1>1, MoneyStart, MoneyStep, TradeInvariance, PTL DEF Spec

-----------------------------------------------------------------------------
(* Refinement of IdempotentRequests *)

fates == [r \in Request |-> FateOf(r)]
keys == [r \in Request |-> <<Form[r].buyer, Form[r].key>>]
placed == {o \in Request : Exists(o)}

\* The instance, with what it is about given a name.
LEMMA RequestsAre ==
  /\ Requests!Init <=> /\ placed = {}
                       /\ fates = [r \in Request |-> "waiting"]
                       /\ given = [r \in Request |-> r]
  /\ UNCHANGED <<placed, fates, given>> => UNCHANGED Requests!requestVars
  /\ \A r \in Request : Requests!MadeFor(r) = {o \in placed : keys[o] = keys[r]}
  /\ \A r \in Request : Requests!Make(r) <=>
       /\ Requests!MadeFor(r) = {}
       /\ placed' = placed \cup {r}
       /\ \E how \in {"served", "refused"} :
            fates' = [fates EXCEPT ![r] = how] /\ given' = [given EXCEPT ![r] = r]
  /\ \A r \in Request : Requests!Return(r) <=>
       /\ \E o \in Requests!MadeFor(r) :
            /\ Form[o] = Form[r]
            /\ fates' = [fates EXCEPT ![r] = "served"]
            /\ given' = [given EXCEPT ![r] = o]
       /\ placed' = placed
  /\ \A r \in Request : Requests!Conflict(r) <=>
       /\ \E o \in Requests!MadeFor(r) : Form[o] # Form[r]
       /\ fates' = [fates EXCEPT ![r] = "conflict"]
       /\ given' = [given EXCEPT ![r] = r]
       /\ placed' = placed
  /\ Requests!Next <=>
       \E r \in Request :
         /\ fates[r] = "waiting" /\ fates'[r] # "waiting"
         /\ Requests!Make(r) \/ Requests!Return(r) \/ Requests!Conflict(r) \/ Requests!Refuse(r)
  BY DEF Requests!Init, Requests!requestVars, Requests!MadeFor, Requests!Make, Requests!Return,
     Requests!Conflict, Requests!Answers, Requests!Next, fates, keys, placed

\* One request refused is the smallest of Refuse's cases.
LEMMA RefusedIsRefuse ==
  ASSUME NEW r \in Request, fates[r] = "waiting",
         fates' = [fates EXCEPT ![r] = "refused"], given' = given, placed' = placed
  PROVE  Requests!Refuse(r)
  <1>1. {r} \in SUBSET Requests!Waiting
    BY DEF Requests!Waiting, fates
  <1>2. fates' = [d \in Request |-> IF d \in {r} THEN "refused" ELSE fates[d]]
    BY DEF fates
  <1>3. QED
    BY <1>1, <1>2 DEF Requests!Refuse, fates, placed

\* What an answer means to the request.
FateAs(how) ==
  CASE how = "ordered"              -> "served"
    [] how = "conflict"             -> "conflict"
    [] how \in {"refused", "failed"} -> "refused"

\* An answer to a request under way is a change of one fate.
LEMMA AnswerFates ==
  ASSUME TInv, NEW r \in Request, placing[r] \in {"new", "lookedUp"},
         NEW how \in {"ordered", "conflict", "refused", "failed"}, NEW o \in Request,
         Answers(r, how, o)
  PROVE  /\ fates[r] = "waiting"
         /\ fates' = [fates EXCEPT ![r] = FateAs(how)]
         /\ fates'[r] # "waiting"
         /\ given' = [given EXCEPT ![r] = o]
  <1>1. placing \in [Request -> Phases]
    BY DEF TInv, OrdersInv
  <1>2. \A q \in Request : placing'[q] = IF q = r THEN how ELSE placing[q]
    BY <1>1 DEF Answers
  <1> DEFINE answer == FateAs(how)
  <1>3. FateOf(r)' = answer /\ FateOf(r) = "waiting"
    BY <1>2 DEF FateOf, FateAs
  <1>4. \A q \in Request : q # r => FateOf(q)' = FateOf(q)
    BY <1>2 DEF FateOf
  <1>5. fates' = [fates EXCEPT ![r] = answer]
    <2> HIDE DEF answer
    <2>1. fates' = [q \in Request |-> FateOf(q)'] /\ fates = [q \in Request |-> FateOf(q)]
      BY DEF fates
    <2>2. QED
      BY <2>1, <1>3, <1>4
  <1>6. fates[r] = "waiting" /\ fates'[r] = answer
    BY <1>3 DEF fates
  <1>7. answer # "waiting"
    BY DEF FateAs
  <1>8. QED
    BY <1>5, <1>6, <1>7 DEF Answers

\* A key that has an order already is answered with it or with a conflict.
LEMMA ReplayRefines ==
  ASSUME TInv, NEW r \in Request, placing[r] \in {"new", "lookedUp"},
         NEW o \in Request, Replays(r, o), order' = order
  PROVE  Requests!Next
  <1>1. o \in Requests!MadeFor(r)
    <2>1. o \in placed /\ SameKey(r, o)
      BY DEF Replays, Earlier, placed
    <2>2. keys[o] = keys[r]
      BY <2>1 DEF keys, SameKey
    <2>3. QED
      BY <2>1, <2>2, RequestsAre
  <1>2. placed' = placed
    BY DEF placed, Exists
  <1>3. CASE Form[r] = Form[o] /\ Answers(r, "ordered", o)
    <2>1. /\ fates[r] = "waiting" /\ fates'[r] # "waiting"
          /\ fates' = [fates EXCEPT ![r] = "served"] /\ given' = [given EXCEPT ![r] = o]
      BY <1>3, AnswerFates DEF FateAs
    <2>2. Requests!Return(r)
      BY <1>1, <1>2, <1>3, <2>1, RequestsAre
    <2>3. QED
      BY <2>1, <2>2, RequestsAre
  <1>4. CASE Form[r] # Form[o] /\ Answers(r, "conflict", r)
    <2>1. /\ fates[r] = "waiting" /\ fates'[r] # "waiting"
          /\ fates' = [fates EXCEPT ![r] = "conflict"] /\ given' = [given EXCEPT ![r] = r]
      BY <1>4, AnswerFates DEF FateAs
    <2>2. Requests!Conflict(r)
      BY <1>1, <1>2, <1>4, <2>1, RequestsAre
    <2>3. QED
      BY <2>1, <2>2, RequestsAre
  <1>5. QED
    BY <1>3, <1>4 DEF Replays

\* The request that inserts an order makes it; the unique key was free.
LEMMA CommitRefines ==
  ASSUME TInv, NEW r \in Request, PlaceCommit(r)
  PROVE  Requests!Next
  <1>0. PICK how \in {"ordered", "failed"} : Answers(r, how, r)
    BY DEF PlaceCommit
  <1>1. /\ fates[r] = "waiting" /\ fates'[r] # "waiting"
        /\ fates' = [fates EXCEPT ![r] = FateAs(how)] /\ given' = [given EXCEPT ![r] = r]
    <2>1. placing[r] \in {"new", "lookedUp"} /\ how \in {"ordered", "conflict", "refused", "failed"}
      BY DEF PlaceCommit
    <2>2. QED
      BY <1>0, <2>1, AnswerFates
  <1>a. FateAs(how) \in {"served", "refused"}
    BY <1>0 DEF FateAs
  <1>2. Requests!MadeFor(r) = {}
    BY RequestsAre DEF PlaceCommit, Earlier, SameKey, keys, placed
  <1>3. placed' = placed \cup {r}
    BY DEF PlaceCommit, TInv, OrdersInv, placed, Exists
  <1>4. Requests!Make(r)
    BY <1>1, <1>a, <1>2, <1>3, RequestsAre
  <1>5. QED
    BY <1>1, <1>4, RequestsAre

\* Whatever else happens to orders, none is made or lost, and nobody is answered.
LEMMA OthersAnswerNone ==
  ASSUME TInv, UNCHANGED <<placing, given>>,
         \/ UNCHANGED order
         \/ \E o \in Request : \E to, actor, role : Transits(o, to, actor, role)
  PROVE  UNCHANGED Requests!requestVars
  <1>1. \A o \in Request : Exists(o)' <=> Exists(o)
    <2>1. CASE UNCHANGED order
      BY <2>1 DEF Exists
    <2>2. ASSUME NEW o \in Request, NEW to, NEW actor, NEW role, Transits(o, to, actor, role)
          PROVE  \A q \in Request : Exists(q)' <=> Exists(q)
      <3>1. Exists(o) /\ to # "NONE"
        BY <2>2 DEF Transits, orderTransitions
      <3>2. \A q \in Request : order'[q].status = IF q = o THEN to ELSE order[q].status
        BY <2>2 DEF Transits, TInv, OrdersInv, OrderRow
      <3>3. QED
        BY <3>1, <3>2 DEF Exists
    <2>3. QED
      BY <2>1, <2>2
  <1>2. placed' = placed
    BY <1>1 DEF placed
  <1>3. fates' = fates
    BY DEF fates, FateOf
  <1>4. QED
    BY <1>2, <1>3, RequestsAre

\* A request that no order answers still names itself.
GivenOwn == \A r \in Request : placing[r] # "ordered" => given[r] = r

LEMMA GivenStep == TInv /\ GivenOwn /\ [Next]_tradeVars => GivenOwn'
  <1> SUFFICES ASSUME TInv, GivenOwn, [Next]_tradeVars PROVE GivenOwn'
    OBVIOUS
  <1>1. ASSUME UNCHANGED <<placing, given>> PROVE GivenOwn'
    BY <1>1 DEF GivenOwn
  <1>2. ASSUME NEW r \in Request, NEW how, NEW o \in Request, Answers(r, how, o),
               how = "ordered" \/ o = r
        PROVE  GivenOwn'
    BY <1>2 DEF GivenOwn, Answers, TInv, OrdersInv
  <1>3. ASSUME NEW r \in Request, NEW o \in Request, Replays(r, o) PROVE GivenOwn'
    BY <1>2, <1>3 DEF Replays
  <1>4. ASSUME NEW r \in Request,
               PlaceLookup(r) \/ PlaceRefused(r) \/ PlaceFails(r) \/ PlaceDuplicate(r) \/ PlaceCommit(r)
        PROVE  GivenOwn'
    BY <1>2, <1>3, <1>4 DEF PlaceLookup, PlaceRefused, PlaceFails, PlaceDuplicate, PlaceCommit
  <1>5. ASSUME NEW o \in Request, Pay(o) \/ Ship(o) \/ Confirm(o) PROVE GivenOwn'
    BY <1>1, <1>5 DEF Pay, Ship, Confirm
  <1>6. ASSUME NEW o \in Request, NEW u \in User, CancelLoad(o, u) PROVE GivenOwn'
    BY <1>1, <1>6 DEF CancelLoad
  <1>7. ASSUME NEW c \in canceling, CancelRefused(c) \/ CancelCommit(c) PROVE GivenOwn'
    BY <1>1, <1>7 DEF CancelRefused, CancelCommit
  <1>8. ASSUME NEW p \in Product,
               \/ EditLoad(p) \/ ShelveProduct(p)
               \/ \E stock \in Stocks, price \in Prices : EditCommit(p, stock, price)
        PROVE  GivenOwn'
    BY <1>1, <1>8 DEF EditLoad, ShelveProduct, EditCommit
  <1>9. CASE UNCHANGED tradeVars
    BY <1>1, <1>9 DEF tradeVars
  <1>10. QED
    BY <1>4, <1>5, <1>6, <1>7, <1>8, <1>9 DEF Next

\* Every step of the orders is one of the idempotent requests, or none.
LEMMA NextKeepsOrderKeys ==
  TInv /\ GivenOwn /\ [Next]_tradeVars => [Requests!Next]_(Requests!requestVars)
  <1> SUFFICES ASSUME TInv, GivenOwn, [Next]_tradeVars
               PROVE  Requests!Next \/ UNCHANGED Requests!requestVars
    OBVIOUS
  <1>1. ASSUME NEW r \in Request, PlaceLookup(r)
        PROVE  Requests!Next \/ UNCHANGED Requests!requestVars
    <2>1. CASE \E o \in Request : Replays(r, o)
      BY <1>1, <2>1, ReplayRefines DEF PlaceLookup
    <2>2. CASE Answers(r, "lookedUp", r)
      <3>0. placing[r] = "new" /\ placing \in [Request -> Phases]
        BY <1>1 DEF PlaceLookup, TInv, OrdersInv
      <3>1. fates' = fates
        <4>1. \A q \in Request : placing'[q] = IF q = r THEN "lookedUp" ELSE placing[q]
          BY <2>2, <3>0 DEF Answers
        <4>2. \A q \in Request : FateOf(q)' = FateOf(q)
          BY <4>1, <3>0 DEF FateOf
        <4>3. QED
          BY <4>2 DEF fates
      <3>2. given' = [given EXCEPT ![r] = r] /\ order' = order
        BY <1>1, <2>2 DEF Answers, PlaceLookup
      <3>3. given[r] = r
        BY <3>0 DEF GivenOwn
      <3>4. given' = given
        BY <3>2, <3>3 DEF TInv, OrdersInv
      <3>5. placed' = placed
        BY <3>2 DEF placed, Exists
      <3>6. QED
        BY <3>1, <3>4, <3>5, RequestsAre
    <2>3. QED
      BY <1>1, <2>1, <2>2 DEF PlaceLookup
  <1>2. ASSUME NEW r \in Request, PlaceRefused(r) \/ PlaceFails(r) PROVE Requests!Next
    <2>1. /\ fates[r] = "waiting" /\ fates'[r] # "waiting"
          /\ fates' = [fates EXCEPT ![r] = "refused"] /\ given' = [given EXCEPT ![r] = r]
      BY <1>2, AnswerFates DEF PlaceRefused, PlaceFails, FateAs
    <2>2. placed' = placed
      BY <1>2 DEF PlaceRefused, PlaceFails, placed, Exists
    <2>3. given' = given
      BY <1>2, <2>1 DEF PlaceRefused, PlaceFails, GivenOwn, TInv, OrdersInv
    <2>4. Requests!Refuse(r)
      BY <2>1, <2>2, <2>3, RefusedIsRefuse
    <2>5. QED
      BY <2>1, <2>4, RequestsAre
  <1>3. ASSUME NEW r \in Request, PlaceDuplicate(r) PROVE Requests!Next
    BY <1>3, ReplayRefines DEF PlaceDuplicate
  <1>4. ASSUME NEW r \in Request, PlaceCommit(r) PROVE Requests!Next
    BY <1>4, CommitRefines
  <1>5. ASSUME NEW o \in Request, Pay(o) \/ Ship(o) \/ Confirm(o)
        PROVE  UNCHANGED Requests!requestVars
    BY <1>5, OthersAnswerNone DEF Pay, Ship, Confirm
  <1>6. ASSUME NEW o \in Request, NEW u \in User, CancelLoad(o, u)
        PROVE  UNCHANGED Requests!requestVars
    BY <1>6, OthersAnswerNone DEF CancelLoad
  <1>7. ASSUME NEW c \in canceling, CancelRefused(c) \/ CancelCommit(c)
        PROVE  UNCHANGED Requests!requestVars
    <2>1. c.order \in Request
      BY DEF TInv, TradeTypeOK, Cancels
    <2>2. QED
      BY <1>7, <2>1, OthersAnswerNone DEF CancelRefused, CancelCommit
  <1>8. ASSUME NEW p \in Product,
               \/ EditLoad(p) \/ ShelveProduct(p)
               \/ \E stock \in Stocks, price \in Prices : EditCommit(p, stock, price)
        PROVE  UNCHANGED Requests!requestVars
    BY <1>8, OthersAnswerNone DEF EditLoad, ShelveProduct, EditCommit
  <1>9. CASE UNCHANGED tradeVars
    BY <1>9, OthersAnswerNone DEF tradeVars
  <1>10. QED
    BY <1>1, <1>2, <1>3, <1>4, <1>5, <1>6, <1>7, <1>8, <1>9 DEF Next

\* Orders implement IdempotentRequests: whatever happens to them, to their product
\* and to copies of the requests, a buyer's key makes one order, and every answer
\* that names an order or a conflict is true and final.
THEOREM OrdersKeepKeys == Spec => OrderKeysKept
  <1>1. Init => Requests!Init
    <2> SUFFICES ASSUME Init PROVE Requests!Init
      OBVIOUS
    <2>1. placed = {} /\ given = [r \in Request |-> r]
      BY DEF Init, placed, Exists
    <2>2. fates = [r \in Request |-> "waiting"]
      BY DEF Init, fates, FateOf
    <2>3. QED
      BY <2>1, <2>2, RequestsAre
  <1>2. Init => GivenOwn
    BY DEF Init, GivenOwn
  <1>3. QED
    BY <1>1, <1>2, GivenStep, NextKeepsOrderKeys, TradeInvariance, PTL
       DEF Spec, OrderKeysKept, Requests!Spec

-----------------------------------------------------------------------------
(* Repetitions *)

\* What the code keeps of UNFINISHED_PHASES.md:330, which ReplayReturnsOrder states:
\* a repetition that finds its order there never goes past the look-up, and never
\* meets a conflict; it is answered with the order unless a statement fails.  One
\* that had looked before the order was there may also end because the address is
\* gone, or because the product cannot be ordered any more.
Misses(r) ==
  \/ placing'[r] = "failed"
  \/ placing[r] = "lookedUp" /\ placing'[r] = "refused" /\ ~Orderable(r)

ReplayReturnsOrderUnlessMissed ==
  [][\A r, o \in Request :
       (/\ o \in Earlier(r) /\ Form[r] = Form[o]
        /\ placing'[r] # placing[r])
         => \/ placing'[r] = "ordered" /\ given'[r] = o
            \/ Misses(r)]_tradeVars

\* The key names that one order.
LEMMA ReplaysOrder ==
  ASSUME TInv, NEW r \in Request, NEW o \in Earlier(r), Form[r] = Form[o],
         NEW q \in Request, Replays(r, q)
  PROVE  placing'[r] = "ordered" /\ given'[r] = o
  <1>1. /\ placing \in [Request -> Phases] /\ given \in [Request -> Request]
        /\ OneOrderPerKey
    BY DEF TInv, OrdersInv
  <1>2. q = o
    BY <1>1 DEF Replays, Earlier, SameKey, OneOrderPerKey
  <1>3. QED
    BY <1>1, <1>2 DEF Replays, Answers

LEMMA ReplayStep ==
  ASSUME TInv, [Next]_tradeVars, NEW r \in Request, NEW o \in Earlier(r), Form[r] = Form[o],
         placing'[r] # placing[r]
  PROVE  \/ placing'[r] = "ordered" /\ given'[r] = o
         \/ Misses(r)
  <1> DEFINE Goal == \/ placing'[r] = "ordered" /\ given'[r] = o
                     \/ Misses(r)
  <1>1. placing \in [Request -> Phases]
    BY DEF TInv, OrdersInv
  <1>2. ASSUME NEW q \in Request, NEW how, NEW p, Answers(q, how, p) PROVE q = r
    BY <1>1, <1>2 DEF Answers
  <1>3. ASSUME NEW q \in Request, NEW p \in Request, Replays(q, p) PROVE Goal
    BY <1>2, <1>3, ReplaysOrder DEF Replays
  <1>4. ASSUME NEW q \in Request, PlaceLookup(q) PROVE Goal
    BY <1>2, <1>3, <1>4 DEF PlaceLookup
  <1>5. ASSUME NEW q \in Request, PlaceDuplicate(q) PROVE Goal
    BY <1>3, <1>5 DEF PlaceDuplicate
  <1>6. ASSUME NEW q \in Request, PlaceRefused(q) \/ PlaceFails(q) PROVE Goal
    <2>1. CASE PlaceRefused(q)
      BY <1>1, <1>2, <2>1 DEF PlaceRefused, Answers, Misses
    <2>2. CASE PlaceFails(q)
      BY <1>1, <1>2, <2>2 DEF PlaceFails, Answers, Misses
    <2>3. QED
      BY <1>6, <2>1, <2>2
  <1>7. ASSUME NEW q \in Request, PlaceCommit(q) PROVE Goal
    BY <1>2, <1>7 DEF PlaceCommit
  <1>8. ASSUME NEW q \in Request, Pay(q) \/ Ship(q) \/ Confirm(q) PROVE FALSE
    BY <1>8 DEF Pay, Ship, Confirm
  <1>9. ASSUME NEW q \in Request, NEW u \in User, CancelLoad(q, u) PROVE FALSE
    BY <1>9 DEF CancelLoad
  <1>10. ASSUME NEW c \in canceling, CancelRefused(c) \/ CancelCommit(c) PROVE FALSE
    BY <1>10 DEF CancelRefused, CancelCommit
  <1>11. ASSUME NEW p \in Product,
                \/ EditLoad(p) \/ ShelveProduct(p)
                \/ \E stock \in Stocks, price \in Prices : EditCommit(p, stock, price)
         PROVE  FALSE
    BY <1>11 DEF EditLoad, ShelveProduct, EditCommit
  <1>12. CASE UNCHANGED tradeVars
    BY <1>12 DEF tradeVars
  <1>13. QED
    BY <1>4, <1>5, <1>6, <1>7, <1>8, <1>9, <1>10, <1>11, <1>12 DEF Next

\* A repetition misses its order only by a failure, a missing address, or because
\* it had looked for the order too early and the product cannot be ordered any more.
THEOREM ReplaysFindOrders == Spec => ReplayReturnsOrderUnlessMissed
  <1>1. TInv /\ [Next]_tradeVars
          => [\A r, o \in Request :
                (/\ o \in Earlier(r) /\ Form[r] = Form[o]
                 /\ placing'[r] # placing[r])
                  => \/ placing'[r] = "ordered" /\ given'[r] = o
                     \/ Misses(r)]_tradeVars
    BY ReplayStep
  <1>2. QED
    BY <1>1, TradeInvariance, PTL DEF Spec, ReplayReturnsOrderUnlessMissed
=============================================================================
