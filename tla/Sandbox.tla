------------------------------ MODULE Sandbox ------------------------------
(***************************************************************************)
(* The trading sandbox (internal/account/sandbox.go): virtual purchases    *)
(* and sales at the current price, and the reset, on the same accounts     *)
(* that pay the orders of TradeOrders.                                     *)
(*                                                                         *)
(* Each call is one transaction that reads the account and the holding     *)
(* without a lock (tx.First, a snapshot) and then saves the whole rows     *)
(* (tx.Save) with values computed from what it read.  So a call is two     *)
(* actions, and between them others may commit: another call of the same   *)
(* user, or an order's debit or credit, which locks the account's row and  *)
(* changes it in place.                                                    *)
(*                                                                         *)
(* The average cost of a holding is left out.                              *)
(***************************************************************************)
EXTENDS TradeOrders

CONSTANTS
  Trade,        \* calls of placeSandboxOrder and resetSandbox
  TradeForm,    \* what each call asks for
  NoRow         \* no row of sandbox_holdings; rows are named after their creator

TradeForms ==
  [user : User, side : {"BUY", "SELL", "RESET"}, product : Product,
   quantity : Nat \ {0}]

ASSUME SandboxConstantsOK ==
  /\ TradeForm \in [Trade -> TradeForms]
  /\ NoRow \notin Trade

VARIABLES
  holding,    \* table sandbox_holdings: the row of each user and product
  call,       \* how far each call is; the status of its row in sandbox_orders
  seen,       \* what the transaction of each call has read
  booked,     \* history: what each account should hold
  raced       \* history: users whose account changed between a read and a save

sandboxVars == <<holding, call, seen, booked, raced>>
allVars == <<tradeVars, sandboxVars>>

UserOf(t) == TradeForm[t].user
ItemOf(t) == TradeForm[t].product
Side(t) == TradeForm[t].side
Quantity(t) == TradeForm[t].quantity

Nothing == [row |-> NoRow, quantity |-> 0]
Holding(t) == holding[UserOf(t)][ItemOf(t)]

Amount(t) == seen[t].price * Quantity(t)

\* Only accounts change in the tables of TradeOrders.
OnlyAccounts ==
  UNCHANGED <<product, order, trail, placing, given, canceling, supplied, editing,
              edits>>

Goes(t, to) == call' = [call EXCEPT ![t] = to]

\* The calls that have read and not yet committed.
InFlight(u) == {t \in Trade : UserOf(t) = u /\ call[t] = "open"}

\* A history, not a part of the system: conjoined to every step.
Watches ==
  raced' = raced \cup {u \in User : account'[u] # account[u] /\ InFlight(u)' # {}}

-----------------------------------------------------------------------------
(* Reading *)

\* The checks before the transaction.
Tradable(t) ==
  /\ product[ItemOf(t)].published
  /\ ~(Side(t) = "BUY" /\ SellerOf[ItemOf(t)] = UserOf(t))

Covered_AnyHolding(t) ==
  \/ Side(t) = "BUY"
       /\ AccountOf(UserOf(t)).cash >= product[ItemOf(t)].price * Quantity(t)
  \/ Side(t) = "SELL" /\ Holding(t) # Nothing

\* Enough money to buy, or enough units to sell.
Covered(t) ==
  \/ Side(t) = "BUY"
       /\ AccountOf(UserOf(t)).cash >= product[ItemOf(t)].price * Quantity(t)
  \/ Side(t) = "SELL" /\ Holding(t).quantity >= Quantity(t)

Sees(t) ==
  seen' = [seen EXCEPT ![t] = [account |-> account[UserOf(t)],
                               holding |-> Holding(t),
                               price   |-> product[ItemOf(t)].price]]

TradeRead(t) ==
  /\ call[t] = "new"
  /\ Side(t) # "RESET"
  /\ Tradable(t) /\ Covered(t)
  /\ Sees(t)
  /\ Goes(t, "open")
  /\ UNCHANGED <<tradeVars, holding, booked>>

\* A rejected order is recorded, and the account created if it was missing.
TradeReject(t) ==
  /\ call[t] = "new"
  /\ Side(t) # "RESET"
  /\ Tradable(t) /\ ~Covered(t)
  /\ account' = [account EXCEPT ![UserOf(t)] = AccountOf(UserOf(t))]
  /\ Goes(t, "REJECTED")
  /\ OnlyAccounts
  /\ UNCHANGED <<holding, seen, booked>>

ResetRead(t) ==
  /\ call[t] = "new"
  /\ Side(t) = "RESET"
  /\ Sees(t)
  /\ Goes(t, "open")
  /\ UNCHANGED <<tradeVars, holding, booked>>

\* ensureSandbox, when the user looks at his sandbox.
EnsureAccount(u) ==
  /\ ~account[u].open
  /\ account' = [account EXCEPT ![u] = NewAccount]
  /\ OnlyAccounts
  /\ UNCHANGED <<holding, call, seen, booked>>

-----------------------------------------------------------------------------
(* Saving *)

\* The account as the transaction has it: the row it read, or the one it
\* creates.
OwnAccount(t) == IF seen[t].account.open THEN seen[t].account ELSE NewAccount

\* The transaction creates a row that someone else has created since.
Collides(t) ==
  \/ ~seen[t].account.open /\ account[UserOf(t)].open
  \/ Side(t) = "BUY" /\ seen[t].holding = Nothing /\ Holding(t) # Nothing

SaveAccount(t, cash) ==
  account' = [account EXCEPT ![UserOf(t)] = [OwnAccount(t) EXCEPT !.cash = cash]]

\* Save updates the row that was read, or puts it back if it is gone; if the
\* user has another row for the product by now, that one takes the values.
SaveHolding(t, quantity) ==
  holding' = [holding EXCEPT ![UserOf(t)][ItemOf(t)] =
    [row |-> IF Holding(t) # Nothing THEN Holding(t).row
             ELSE IF seen[t].holding # Nothing THEN seen[t].holding.row ELSE t,
     quantity |-> quantity]]

\* Delete removes the row that was read, and no other.
DeleteHolding(t) ==
  holding' = [holding EXCEPT ![UserOf(t)][ItemOf(t)] =
    IF @.row = seen[t].holding.row THEN Nothing ELSE @]

Books(u, amount) == booked' = [booked EXCEPT ![u] = amount]

BuyCommit_CashKept(t) ==
  /\ call[t] = "open" /\ Side(t) = "BUY"
  /\ ~Collides(t)
  /\ SaveHolding(t, seen[t].holding.quantity + Quantity(t))
  /\ SaveAccount(t, OwnAccount(t).cash)
  /\ Books(UserOf(t), booked[UserOf(t)] - Amount(t))
  /\ Goes(t, "FILLED")
  /\ OnlyAccounts /\ UNCHANGED seen

BuyCommit(t) ==
  /\ call[t] = "open" /\ Side(t) = "BUY"
  /\ ~Collides(t)
  /\ SaveHolding(t, seen[t].holding.quantity + Quantity(t))
  /\ SaveAccount(t, OwnAccount(t).cash - Amount(t))
  /\ Books(UserOf(t), booked[UserOf(t)] - Amount(t))
  /\ Goes(t, "FILLED")
  /\ OnlyAccounts /\ UNCHANGED seen

SellCommit_AddsUnits(t) ==
  /\ call[t] = "open" /\ Side(t) = "SELL"
  /\ ~Collides(t)
  /\ SaveHolding(t, seen[t].holding.quantity + Quantity(t))
  /\ SaveAccount(t, OwnAccount(t).cash + Amount(t))
  /\ Books(UserOf(t), booked[UserOf(t)] + Amount(t))
  /\ Goes(t, "FILLED")
  /\ OnlyAccounts /\ UNCHANGED seen

SellCommit_KeepsRow(t) ==
  /\ call[t] = "open" /\ Side(t) = "SELL"
  /\ ~Collides(t)
  /\ SaveHolding(t, seen[t].holding.quantity - Quantity(t))
  /\ SaveAccount(t, OwnAccount(t).cash + Amount(t))
  /\ Books(UserOf(t), booked[UserOf(t)] + Amount(t))
  /\ Goes(t, "FILLED")
  /\ OnlyAccounts /\ UNCHANGED seen

SellCommit(t) ==
  /\ call[t] = "open" /\ Side(t) = "SELL"
  /\ ~Collides(t)
  /\ IF seen[t].holding.quantity = Quantity(t)
       THEN DeleteHolding(t)
       ELSE SaveHolding(t, seen[t].holding.quantity - Quantity(t))
  /\ SaveAccount(t, OwnAccount(t).cash + Amount(t))
  /\ Books(UserOf(t), booked[UserOf(t)] + Amount(t))
  /\ Goes(t, "FILLED")
  /\ OnlyAccounts /\ UNCHANGED seen

\* resetSandbox deletes whatever the user holds by now; the account it saves
\* is the one it read, in its next generation.  A missing account is created
\* and nothing else done.
ResetCommit(t) ==
  LET u == UserOf(t) IN
  /\ call[t] = "open" /\ Side(t) = "RESET"
  /\ ~Collides(t)
  /\ account' = [account EXCEPT ![u] =
       IF seen[t].account.open
         THEN [NewAccount EXCEPT !.generation = seen[t].account.generation + 1]
         ELSE NewAccount]
  /\ holding' = IF seen[t].account.open
                  THEN [holding EXCEPT ![u] = [p \in Product |-> Nothing]]
                  ELSE holding
  /\ Books(u, StartingCash)
  /\ Goes(t, "RESET")
  /\ OnlyAccounts /\ UNCHANGED seen

\* The insert fails: everything is rolled back.
CallFails(t) ==
  /\ call[t] = "open"
  /\ Collides(t)
  /\ Goes(t, "failed")
  /\ UNCHANGED <<tradeVars, holding, seen, booked>>

\* A step of the orders; what it does to an account is booked.
OrderStep ==
  /\ Next
  /\ booked' = [u \in User |->
                  booked[u] + AccountOf(u)'.cash - AccountOf(u).cash]
  /\ UNCHANGED <<holding, call, seen>>

SandboxStep(t) ==
  \/ TradeRead(t) \/ TradeReject(t) \/ ResetRead(t)
  \/ BuyCommit(t) \/ SellCommit(t) \/ ResetCommit(t) \/ CallFails(t)

SandboxInit ==
  /\ Init
  /\ holding = [u \in User |-> [p \in Product |-> Nothing]]
  /\ call = [t \in Trade |-> "new"]
  /\ seen = [t \in Trade |-> [account |-> account[UserOf(t)], holding |-> Nothing,
                              price |-> 0]]
  /\ booked = [u \in User |-> StartingCash]
  /\ raced = {}

SandboxNext ==
  /\ \/ OrderStep
     \/ \E t \in Trade : SandboxStep(t)
     \/ \E u \in User : EnsureAccount(u)
  /\ Watches

SandboxSpec == SandboxInit /\ [][SandboxNext]_allVars

-----------------------------------------------------------------------------
(* Properties *)

Rows == [row : Trade \cup {NoRow}, quantity : Nat]
Calls == {"new", "open", "FILLED", "REJECTED", "RESET", "failed"}
Views == [account : Account, holding : Rows, price : Nat]

\* Money and units are never negative, although both are checked against values
\* that may be stale when they are written.
SandboxTypeOK ==
  /\ account \in [User -> Account]
  /\ holding \in [User -> [Product -> Rows]]
  /\ call \in [Trade -> Calls]
  /\ seen \in [Trade -> Views]
  /\ raced \in SUBSET User

Purchases(u, p) ==
  {t \in Trade : /\ UserOf(t) = u /\ ItemOf(t) = p
                 /\ Side(t) = "BUY" /\ call[t] = "FILLED"}

Bought(u, p) == SumFunctionOnSet([t \in Trade |-> Quantity(t)], Purchases(u, p))

\* Nobody holds more units than he has ever bought, even when sales and
\* purchases overwrite each other or bring back a row that was deleted.
HoldingsBought ==
  \A u \in User, p \in Product : holding[u][p].quantity <= Bought(u, p)

\* A row of holdings is never empty: a sale of everything removes it, and no
\* stale sale leaves a row without units.
NoEmptyHolding ==
  \A u \in User, p \in Product :
    holding[u][p].quantity = 0 <=> holding[u][p].row = NoRow

\* As long as nothing changed a user's account between a call's read and its
\* save, the account holds exactly what the user's orders, trades and resets
\* amount to: lost updates are the only way it can go wrong.
CashBookedUnlessRaced ==
  \A u \in User : u \notin raced => AccountOf(u).cash = booked[u]

\* UNFINISHED_PHASES.md:354: an order that is paid takes its amount from the
\* buyer's account and one that is completed gives it to the seller's,
\* whatever else uses the account.
CashBooked == \A u \in User : AccountOf(u).cash = booked[u]
=============================================================================
