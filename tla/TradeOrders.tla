---------------------------- MODULE TradeOrders ----------------------------
(***************************************************************************)
(* Simulated orders (internal/account/orders.go, order_status.go): placing *)
(* an order reserves stock, paying it debits the buyer's virtual account,  *)
(* canceling restores the stock and refunds, confirming credits the        *)
(* seller.                                                                 *)
(*                                                                         *)
(* placeOrder locks the product's row and transitionOrder the order's row  *)
(* and then the account's, each SELECT ... FOR UPDATE in one transaction,  *)
(* so each is one action.  Two handlers read something before their        *)
(* transaction and use it afterwards:                                      *)
(*                                                                         *)
(*   - placeOrder looks for an order with the same idempotency key;        *)
(*   - cancelOrder loads the order and decides in which role the actor     *)
(*     cancels it.                                                         *)
(*                                                                         *)
(* A request may be repeated: several elements of Request may carry the    *)
(* same key.  A request whose process dies simply takes no further step.   *)
(* Of the address it names only its absence matters, as that of a          *)
(* statement that fails: both end the request with nothing done            *)
(* (PlaceFails).  A call about an order that is refused or fails changes   *)
(* nothing and is a stuttering step; if only its answer is lost, it is its *)
(* effect.  Notifications and activity records, written after the          *)
(* transaction with their errors ignored, are left out.                    *)
(***************************************************************************)
EXTENDS Integers, Sequences, FiniteSets, Functions

CONSTANTS
  User, Product, Key,
  SellerOf,        \* the seller of each product
  Request,         \* requests to place an order; an order is named after its own
  Form,            \* what each request asks for
  StartingCash,    \* SandboxStartingCashCents
  Stocks, Prices,  \* stocks and prices a seller may set
  MaxEdits         \* bound: edits of products explored

Forms == [buyer : User, key : Key, product : Product, quantity : Nat \ {0}]

ASSUME TradeConstantsOK ==
  /\ SellerOf \in [Product -> User]
  /\ Form \in [Request -> Forms]
  /\ StartingCash \in Nat
  /\ Stocks \subseteq Nat /\ Prices \subseteq Nat \ {0}
  /\ MaxEdits \in Nat

VARIABLES
  product,    \* table products: stock, price and whether it is published
  order,      \* table trade_orders
  trail,      \* table trade_order_events: the events of each order
  account,    \* table sandbox_accounts
  placing,    \* how far each request is
  given,      \* the order a request was answered with
  canceling,  \* cancelOrder calls that have loaded the order
  supplied,   \* history: the units of each product its seller has put up
  editing,    \* products whose seller is editing them
  edits       \* edits and changes of the shelf so far

tradeVars == <<product, order, trail, account, placing, given, canceling,
               supplied, editing, edits>>

-----------------------------------------------------------------------------
(* Rows *)

OrderStatuses == {"PENDING_PAYMENT", "PAID", "SHIPPED", "COMPLETED", "CANCELED"}

orderTransitions ==
  {<<"PENDING_PAYMENT", "PAID">>, <<"PENDING_PAYMENT", "CANCELED">>,
   <<"PAID", "SHIPPED">>, <<"PAID", "CANCELED">>, <<"SHIPPED", "COMPLETED">>}

ProductRow == [stock : Nat, price : Nat, published : BOOLEAN]

OrderRow ==
  [status : OrderStatuses \cup {"NONE"},
   amount : Nat,
   paid   : BOOLEAN]            \* paid_at is set

\* Generation and reset count change only in the sandbox, always together.
Account == [open : BOOLEAN, cash : Nat, generation : Nat]

\* A missing account is created, with the starting cash, by the transaction
\* that needs it.
NewAccount == [open |-> TRUE, cash |-> StartingCash, generation |-> 1]
AccountOf(u) == IF account[u].open THEN account[u] ELSE NewAccount

Buyer(o) == Form[o].buyer
Seller(o) == SellerOf[Form[o].product]

Exists(o) == order[o].status # "NONE"

\* The unique index on buyer and idempotency key, and the request hash.
SameKey(r, o) == Form[r].buyer = Form[o].buyer /\ Form[r].key = Form[o].key
Earlier(r) == {o \in Request : Exists(o) /\ SameKey(r, o)}

Answers(r, how, o) ==
  /\ placing' = [placing EXCEPT ![r] = how]
  /\ given' = [given EXCEPT ![r] = o]

\* The answer to a request whose key has an order already.
Replays(r, o) ==
  /\ o \in Earlier(r)
  /\ \/ Form[r] = Form[o] /\ Answers(r, "ordered", o)
     \/ Form[r] # Form[o] /\ Answers(r, "conflict", r)

\* appendOrderEvent
Records(o, from, to, actor, role) ==
  trail' = [trail EXCEPT
              ![o] = Append(@, [from |-> from, to |-> to, actor |-> actor, role |-> role])]

Transits_Unchecked(o, to, actor, role) ==
  /\ Exists(o)
  /\ order' = [order EXCEPT ![o].status = to, ![o].paid = @ \/ to = "PAID"]
  /\ Records(o, order[o].status, to, actor, role)

\* transitionOrder, apart from what it does to money and stock.
Transits(o, to, actor, role) ==
  /\ Exists(o)
  /\ <<order[o].status, to>> \in orderTransitions
  /\ order' = [order EXCEPT ![o].status = to, ![o].paid = @ \/ to = "PAID"]
  /\ Records(o, order[o].status, to, actor, role)

\* debitBuyer and creditUser.
Debits(u, amount) ==
  /\ AccountOf(u).cash >= amount
  /\ account' = [account EXCEPT ![u] = [AccountOf(u) EXCEPT !.cash = @ - amount]]

Credits_New(u, amount) ==
  account' = [account EXCEPT ![u] = [NewAccount EXCEPT !.cash = @ + amount]]

Credits(u, amount) ==
  account' = [account EXCEPT ![u] = [AccountOf(u) EXCEPT !.cash = @ + amount]]

-----------------------------------------------------------------------------
(* Placing an order *)

Init ==
  /\ product \in [Product -> [stock : Stocks, price : Prices, published : BOOLEAN]]
  /\ order = [o \in Request |-> [status |-> "NONE", amount |-> 0, paid |-> FALSE]]
  /\ trail = [o \in Request |-> <<>>]
  /\ account = [u \in User |-> [open |-> FALSE, cash |-> 0, generation |-> 0]]
  /\ placing = [r \in Request |-> "new"]
  /\ given = [r \in Request |-> r]
  /\ canceling = {}
  /\ supplied = [p \in Product |-> product[p].stock]
  /\ editing = {}
  /\ edits = 0

\* The look-up before the transaction.
PlaceLookup(r) ==
  /\ placing[r] = "new"
  /\ \/ \E o \in Request : Replays(r, o)
     \/ Earlier(r) = {} /\ Answers(r, "lookedUp", r)
  /\ UNCHANGED <<product, order, trail, account, canceling, supplied, editing, edits>>

Orderable_AnyStock(r) ==
  LET p == Form[r].product IN
  /\ product[p].published
  /\ SellerOf[p] # Form[r].buyer
  /\ product[p].stock > 0

\* The checks under the product's lock, before the order is inserted.
Orderable(r) ==
  LET p == Form[r].product IN
  /\ product[p].published
  /\ SellerOf[p] # Form[r].buyer
  /\ product[p].stock >= Form[r].quantity

PlaceRefused(r) ==
  /\ placing[r] = "lookedUp"
  /\ ~Orderable(r)
  /\ Answers(r, "refused", r)
  /\ UNCHANGED <<product, order, trail, account, canceling, supplied, editing, edits>>

\* A statement fails, or the buyer has no such address (any more), and what there
\* is of the transaction is rolled back.  So it is with the load that follows a
\* duplicate key; that request is told of a conflict, which says nothing.
PlaceFails(r) ==
  /\ placing[r] \in {"new", "lookedUp"}
  /\ Answers(r, "failed", r)
  /\ UNCHANGED <<product, order, trail, account, canceling, supplied, editing, edits>>

\* The insert finds the key taken: the transaction rolls back and the order is
\* loaded.
PlaceDuplicate(r) ==
  /\ placing[r] = "lookedUp"
  /\ Orderable(r)
  /\ \E o \in Request : Replays(r, o)
  /\ UNCHANGED <<product, order, trail, account, canceling, supplied, editing, edits>>

PlaceCommit_NoUniqueKey(r) ==
  LET p == Form[r].product IN
  /\ placing[r] = "lookedUp"
  /\ Orderable(r)
  /\ product' = [product EXCEPT ![p].stock = @ - Form[r].quantity]
  /\ order' = [order EXCEPT ![r] = [status |-> "PENDING_PAYMENT",
                                    amount |-> product[p].price * Form[r].quantity,
                                    paid   |-> FALSE]]
  /\ Records(r, "", "PENDING_PAYMENT", Buyer(r), "BUYER")
  /\ \E how \in {"ordered", "failed"} : Answers(r, how, r)
  /\ UNCHANGED <<account, canceling, supplied, editing, edits>>

\* The order is inserted.  If the answer to the commit is lost, the request fails
\* although its order is there.
PlaceCommit(r) ==
  LET p == Form[r].product IN
  /\ placing[r] = "lookedUp"
  /\ Orderable(r)
  /\ Earlier(r) = {}
  /\ product' = [product EXCEPT ![p].stock = @ - Form[r].quantity]
  /\ order' = [order EXCEPT ![r] = [status |-> "PENDING_PAYMENT",
                                    amount |-> product[p].price * Form[r].quantity,
                                    paid   |-> FALSE]]
  /\ Records(r, "", "PENDING_PAYMENT", Buyer(r), "BUYER")
  /\ \E how \in {"ordered", "failed"} : Answers(r, how, r)
  /\ UNCHANGED <<account, canceling, supplied, editing, edits>>

-----------------------------------------------------------------------------
(* The life of an order *)

Pay(o) ==
  /\ Transits(o, "PAID", Buyer(o), "BUYER")
  /\ Debits(Buyer(o), order[o].amount)
  /\ UNCHANGED <<product, placing, given, canceling, supplied, editing, edits>>

Ship(o) ==
  /\ Transits(o, "SHIPPED", Seller(o), "SELLER")
  /\ UNCHANGED <<product, account, placing, given, canceling, supplied, editing, edits>>

Confirm(o) ==
  /\ Transits(o, "COMPLETED", Buyer(o), "BUYER")
  /\ Credits(Seller(o), order[o].amount)
  /\ UNCHANGED <<product, placing, given, canceling, supplied, editing, edits>>

\* cancelOrder: the role, from a read before the transaction.
CancelRole(o, u) ==
  IF Seller(o) = u /\ order[o].status = "PAID" THEN "SELLER" ELSE "BUYER"

CancelLoad(o, u) ==
  /\ Exists(o)
  /\ u \in {Buyer(o), Seller(o)}
  /\ canceling' = canceling \cup {[order |-> o, actor |-> u, role |-> CancelRole(o, u)]}
  /\ UNCHANGED <<product, order, trail, account, placing, given, supplied, editing, edits>>

\* authorizeOrderAction for CANCELED: the status and the actor, not the role.
CancelAuthorized(o, u) ==
  \/ order[o].status = "PENDING_PAYMENT" /\ u = Buyer(o)
  \/ order[o].status = "PAID" /\ u = Seller(o)

CancelRefused(c) ==
  /\ c \in canceling
  /\ ~CancelAuthorized(c.order, c.actor)
  /\ canceling' = canceling \ {c}
  /\ UNCHANGED <<product, order, trail, account, placing, given, supplied, editing, edits>>

CancelCommit_AlwaysRefunds(c) ==
  LET o == c.order IN
  /\ c \in canceling
  /\ CancelAuthorized(o, c.actor)
  /\ Transits(o, "CANCELED", c.actor, c.role)
  /\ Credits(Buyer(o), order[o].amount)
  /\ product' = [product EXCEPT ![Form[o].product].stock = @ + Form[o].quantity]
  /\ canceling' = canceling \ {c}
  /\ UNCHANGED <<placing, given, supplied, editing, edits>>

CancelCommit_NoRestock(c) ==
  LET o == c.order IN
  /\ c \in canceling
  /\ CancelAuthorized(o, c.actor)
  /\ Transits(o, "CANCELED", c.actor, c.role)
  /\ IF order[o].status = "PAID"
       THEN Credits(Buyer(o), order[o].amount)
       ELSE UNCHANGED account
  /\ canceling' = canceling \ {c}
  /\ UNCHANGED <<product, placing, given, supplied, editing, edits>>

CancelCommit(c) ==
  LET o == c.order IN
  /\ c \in canceling
  /\ CancelAuthorized(o, c.actor)
  /\ Transits(o, "CANCELED", c.actor, c.role)
  /\ IF order[o].status = "PAID"
       THEN Credits(Buyer(o), order[o].amount)
       ELSE UNCHANGED account
  /\ product' = [product EXCEPT ![Form[o].product].stock = @ + Form[o].quantity]
  /\ canceling' = canceling \ {c}
  /\ UNCHANGED <<placing, given, supplied, editing, edits>>

-----------------------------------------------------------------------------
(* The seller: catalog.update checks that the product is not off the shelf, *)
(* and then sets its price and stock to what the seller's form says;        *)
(* offShelf and publish change whether it can be ordered.                   *)

EditLoad(p) ==
  /\ edits < MaxEdits
  /\ edits' = edits + 1
  /\ product[p].published
  /\ editing' = editing \cup {p}
  /\ UNCHANGED <<product, order, trail, account, placing, given, canceling, supplied>>

EditCommit(p, stock, price) ==
  /\ p \in editing
  /\ editing' = editing \ {p}
  /\ product' = [product EXCEPT ![p].stock = stock, ![p].price = price]
  /\ supplied' = [supplied EXCEPT ![p] = @ + stock - product[p].stock]
  /\ UNCHANGED <<order, trail, account, placing, given, canceling, edits>>

ShelveProduct(p) ==
  /\ edits < MaxEdits
  /\ edits' = edits + 1
  /\ product' = [product EXCEPT ![p].published = ~@]
  /\ UNCHANGED <<order, trail, account, placing, given, canceling, supplied, editing>>

Next ==
  \/ \E r \in Request :
       \/ PlaceLookup(r) \/ PlaceRefused(r) \/ PlaceFails(r)
       \/ PlaceDuplicate(r) \/ PlaceCommit(r)
       \/ Pay(r) \/ Ship(r) \/ Confirm(r)
       \/ \E u \in User : CancelLoad(r, u)
  \/ \E c \in canceling : CancelRefused(c) \/ CancelCommit(c)
  \/ \E p \in Product :
       \/ EditLoad(p) \/ ShelveProduct(p)
       \/ \E stock \in Stocks, price \in Prices : EditCommit(p, stock, price)

Spec == Init /\ [][Next]_tradeVars

-----------------------------------------------------------------------------
(* Properties *)

Phases == {"new", "lookedUp", "ordered", "conflict", "refused", "failed"}
Cancels == [order : Request, actor : User, role : {"BUYER", "SELLER"}]
Events == [from : OrderStatuses \cup {""}, to : OrderStatuses,
           actor : User, role : {"BUYER", "SELLER"}]

TradeTypeOK ==
  /\ product \in [Product -> ProductRow]
  /\ order \in [Request -> OrderRow]
  /\ trail \in [Request -> Seq(Events)]
  /\ account \in [User -> Account]
  /\ placing \in [Request -> Phases]
  /\ given \in [Request -> Request]
  /\ canceling \in SUBSET Cancels
  /\ supplied \in [Product -> Int]
  /\ editing \in SUBSET Product
  /\ edits \in Nat

\* However often a request is sent and whenever its copies arrive, its key has
\* one order, and every copy that was answered with an order was answered with
\* that one, for the content it asked for.
OneOrderPerKey ==
  /\ \A o, q \in Request : Exists(o) /\ Exists(q) /\ SameKey(o, q) => o = q
  /\ \A r \in Request :
       placing[r] = "ordered" => Exists(given[r]) /\ Form[given[r]] = Form[r]

\* The units of a product reserved by orders that were not canceled.
Reserving(p) ==
  {o \in Request : /\ Form[o].product = p
                   /\ order[o].status \notin {"NONE", "CANCELED"}}

Reserved(p) == SumFunctionOnSet([o \in Request |-> Form[o].quantity], Reserving(p))

\* The units of a product in stock and those reserved by orders that were not
\* canceled are exactly the ones the seller has put up: nothing is sold twice,
\* and nothing is lost by a cancellation or by a request that was rolled back.
StockAccounted == \A p \in Product : product[p].stock + Reserved(p) = supplied[p]

Opened == {u \in User : account[u].open}
Between == {o \in Request : order[o].status \in {"PAID", "SHIPPED"}}

\* Money moves between buyers, sellers and orders in between, and is neither
\* made nor lost: what the accounts hold and what is paid and not yet passed
\* on is what the accounts were opened with.
MoneyConserved ==
  SumFunctionOnSet([u \in User |-> account[u].cash], Opened)
    + SumFunctionOnSet([o \in Request |-> order[o].amount], Between)
  = Cardinality(Opened) * StartingCash

\* The events of an order tell its whole story: they start with its creation,
\* each continues where the one before it ended, the last is the order's
\* status, and it says it was paid exactly when one of them is the payment.
Tells(t, row) ==
  /\ row.status # "NONE" <=> t # <<>>
  /\ t # <<>> => t[1].from = "" /\ t[Len(t)].to = row.status
  /\ \A i \in 2..Len(t) : /\ t[i].from = t[i-1].to
                          /\ <<t[i].from, t[i].to>> \in orderTransitions
  /\ row.paid <=> \E i \in 1..Len(t) : t[i].to = "PAID"

TrailComplete == \A o \in Request : Tells(trail[o], order[o])

StageOf(row) ==
  CASE row.status = "NONE"                  -> "none"
    [] row.status = "PENDING_PAYMENT"       -> "agreed"
    [] row.status = "PAID"                  -> "held"
    [] row.status = "SHIPPED"               -> "onItsWay"
    [] row.status = "COMPLETED"             -> "released"
    [] row.status = "CANCELED" /\ row.paid  -> "refunded"
    [] row.status = "CANCELED" /\ ~row.paid -> "dropped"

stages == [o \in Request |-> StageOf(order[o])]
worths == [o \in Request |-> order[o].amount]
balances == [u \in User |-> AccountOf(u).cash]

TheEscrow == INSTANCE Escrow
  WITH Party <- User, Deal <- Request, Opening <- StartingCash,
       Payer <- [o \in Request |-> Buyer(o)],
       Payee <- [o \in Request |-> Seller(o)],
       stage <- stages, worth <- worths, balance <- balances

\* Orders move money the way Escrow promises, and nothing else does.
EscrowKept == TheEscrow!Spec

FateOf(r) ==
  CASE placing[r] \in {"new", "lookedUp"} -> "waiting"
    [] placing[r] = "ordered"             -> "served"
    [] placing[r] = "conflict"            -> "conflict"
    [] placing[r] \in {"refused", "failed"} -> "refused"

Requests == INSTANCE IdempotentRequests
  WITH Call <- Request,
       KeyOf <- [r \in Request |-> <<Form[r].buyer, Form[r].key>>],
       BodyOf <- Form,
       made <- {o \in Request : Exists(o)},
       fate <- [r \in Request |-> FateOf(r)], got <- given

\* However often a request is sent and whenever its copies arrive, a buyer's key
\* makes one order, for good, and who is answered with an order or a conflict is
\* told the truth about it.
OrderKeysKept == Requests!Spec

\* UNFINISHED_PHASES.md:330: a request whose buyer, key and content match an
\* order is answered with that order.  (Read in the code's favor: not if a statement
\* fails or the buyer's address is gone.)
ReplayReturnsOrder ==
  [][\A r, o \in Request :
       (/\ o \in Earlier(r) /\ Form[r] = Form[o]
        /\ placing'[r] \notin {placing[r], "failed"})
         => placing'[r] = "ordered" /\ given'[r] = o]_tradeVars
=============================================================================
