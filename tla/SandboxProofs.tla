---------------------------- MODULE SandboxProofs ----------------------------
(***************************************************************************)
(* Theorems about the trading sandbox next to the orders, for any users,   *)
(* products, requests, calls, prices and bounds.                           *)
(***************************************************************************)
EXTENDS Sandbox, TradeOrdersProofs

(***************************************************************************)
(* The inductive invariant.  What a call saves it computes from what it    *)
(* read, so the invariant says what it may have read: enough of it         *)
(* (ReadCovers), from a row that was not empty (ReadConsistent), and, as   *)
(* long as nobody changed the account since, the account as it is          *)
(* (ReadCurrent).                                                          *)
(***************************************************************************)
Filled(h) == h.quantity = 0 <=> h.row = NoRow

ReadConsistent == \A t \in Trade : Filled(seen[t].holding)

ReadCovers ==
  \A t \in Trade :
    call[t] = "open" =>
      /\ Side(t) = "BUY" => OwnAccount(t).cash >= Amount(t)
      /\ Side(t) = "SELL" => seen[t].holding.quantity >= Quantity(t)

ReadCurrent ==
  \A t \in Trade :
    call[t] = "open" /\ UserOf(t) \notin raced => seen[t].account = account[UserOf(t)]

Booked == booked \in [User -> Int] /\ CashBookedUnlessRaced

\* What is said of each table and of the calls under way.
CallsInv ==
  /\ call \in [Trade -> Calls]
  /\ seen \in [Trade -> Views]
  /\ ReadConsistent
  /\ ReadCovers

HoldingsInv ==
  /\ holding \in [User -> [Product -> Rows]]
  /\ NoEmptyHolding

AccountsInv ==
  /\ raced \in SUBSET User
  /\ ReadCurrent
  /\ Booked

SandboxInv == TInv /\ CallsInv /\ HoldingsInv /\ AccountsInv

-----------------------------------------------------------------------------
(* What the calls are built from *)

LEMMA Terms ==
  ASSUME NEW t \in Trade
  PROVE  /\ UserOf(t) \in User /\ ItemOf(t) \in Product
         /\ Side(t) \in {"BUY", "SELL", "RESET"}
         /\ Quantity(t) \in Nat /\ Quantity(t) > 0
         /\ t # NoRow
  BY SandboxConstantsOK DEF TradeForms, UserOf, ItemOf, Side, Quantity

LEMMA OpenedAccount ==
  NewAccount \in Account /\ NewAccount.open = TRUE /\ NewAccount.cash = StartingCash
  BY TradeConstantsOK DEF NewAccount, Account

\* A product of two naturals is one; the only fact about products needed.
LEMMA Worth ==
  ASSUME NEW m \in Nat, NEW n \in Nat
  PROVE  m * n \in Nat
  OBVIOUS

\* The orders' part of the invariant does not depend on accounts.
LEMMA AccountsApart ==
  ASSUME TInv, OnlyAccounts, account' \in [User -> Account]
  PROVE  TInv'
  <1>1. OrdersInv'
    BY OrdersUntouched DEF TInv, OnlyAccounts
  <1>2. TradeTypeOK'
    BY DEF TInv, OnlyAccounts, TradeTypeOK
  <1>3. QED
    BY <1>1, <1>2 DEF TInv

\* What the account of an open call's transaction is.
LEMMA OwnAccountType ==
  ASSUME CallsInv, NEW t \in Trade
  PROVE  /\ OwnAccount(t) \in Account
         /\ OwnAccount(t).open = TRUE
         /\ seen[t].account \in Account
         /\ seen[t].holding \in Rows
         /\ Amount(t) \in Nat
  <1>1. seen[t] \in Views
    BY DEF CallsInv
  <1>2. seen[t].account \in Account /\ seen[t].holding \in Rows /\ seen[t].price \in Nat
    BY <1>1 DEF Views
  <1>3. Amount(t) \in Nat
    BY <1>2, Terms, Worth DEF Amount
  <1>4. OwnAccount(t) \in Account /\ OwnAccount(t).open = TRUE
    BY <1>2, OpenedAccount DEF OwnAccount, Account
  <1>5. QED
    BY <1>2, <1>3, <1>4

\* A saved account replaces one row.
LEMMA SaveEffect ==
  ASSUME TradeTypeOK, CallsInv, NEW t \in Trade, NEW cash \in Nat, SaveAccount(t, cash)
  PROVE  /\ account' \in [User -> Account]
         /\ AccountOf(UserOf(t))'.cash = cash
         /\ \A u \in User \ {UserOf(t)} : account'[u] = account[u]
  <1> DEFINE a == [OwnAccount(t) EXCEPT !.cash = cash]
  <1>1. a \in Account /\ a.open = TRUE /\ a.cash = cash
    BY OwnAccountType DEF Account
  <1>2. account' = [account EXCEPT ![UserOf(t)] = a]
    BY DEF SaveAccount
  <1>3. account \in [User -> Account] /\ UserOf(t) \in User
    BY Terms DEF TradeTypeOK
  <1> HIDE DEF a
  <1>4. QED
    BY <1>1, <1>2, <1>3 DEF AccountOf

-----------------------------------------------------------------------------
(* Accounts *)

\* Whatever a step does to accounts, a call whose user is not in raced still has
\* the account as it is: this is what raced is for.
LEMMA CurrentStays ==
  ASSUME AccountsInv, Watches, account \in [User -> Account],
         NEW t \in Trade, call[t] = "open", call'[t] = "open", seen'[t] = seen[t],
         UserOf(t) \notin raced'
  PROVE  seen'[t].account = account'[UserOf(t)]
  <1>1. UserOf(t) \in User
    BY Terms
  <1>2. UserOf(t) \notin raced
    BY DEF Watches
  <1>3. t \in InFlight(UserOf(t))'
    BY DEF InFlight
  <1>4. account'[UserOf(t)] = account[UserOf(t)]
    BY <1>1, <1>3 DEF Watches
  <1>5. QED
    BY <1>2, <1>4 DEF AccountsInv, ReadCurrent

\* A step that books for one user what it does to his account, or nothing for
\* nobody, keeps the books.
LEMMA BooksKept ==
  ASSUME AccountsInv, Watches, booked' \in [User -> Int],
         \A u \in User : u \notin raced /\ AccountOf(u).cash = booked[u] =>
           AccountOf(u)'.cash = booked'[u]
  PROVE  Booked'
  BY DEF AccountsInv, Booked, CashBookedUnlessRaced, Watches

\* The same, of a step that leaves the other calls as they are.
LEMMA AccountsKept ==
  ASSUME AccountsInv, Watches, account \in [User -> Account], CallsInv,
         \A t \in Trade : call'[t] = "open" =>
           \/ call[t] = "open" /\ seen'[t] = seen[t]
           \/ seen'[t].account = account'[UserOf(t)],
         booked' \in [User -> Int],
         \A u \in User : u \notin raced /\ AccountOf(u).cash = booked[u] =>
           AccountOf(u)'.cash = booked'[u]
  PROVE  AccountsInv'
  <1>1. raced' \in SUBSET User
    BY DEF AccountsInv, Watches
  <1>2. ReadCurrent'
    <2>1. SUFFICES ASSUME NEW t \in Trade, call'[t] = "open", UserOf(t) \notin raced'
                   PROVE  seen'[t].account = account'[UserOf(t)]
      BY DEF ReadCurrent, UserOf
    <2>2. QED
      BY <2>1, CurrentStays
  <1>3. Booked'
    BY BooksKept
  <1>4. QED
    BY <1>1, <1>2, <1>3 DEF AccountsInv

-----------------------------------------------------------------------------
(* Reading *)

\* A call whose checks pass reads rows that cover it.
LEMMA ReadKeeps ==
  ASSUME SandboxInv, Watches, NEW t \in Trade, call[t] = "new", Sees(t), Goes(t, "open"),
         Side(t) # "RESET" => Covered(t),
         UNCHANGED <<tradeVars, holding, booked>>
  PROVE  SandboxInv'
  <1> DEFINE u == UserOf(t)
             p == ItemOf(t)
             view == [account |-> account[u], holding |-> holding[u][p],
                      price |-> product[p].price]
  <1>1. /\ account \in [User -> Account] /\ product \in [Product -> ProductRow]
        /\ seen \in [Trade -> Views] /\ call \in [Trade -> Calls]
        /\ holding \in [User -> [Product -> Rows]]
    BY DEF SandboxInv, TInv, TradeTypeOK, CallsInv, HoldingsInv
  <1>2. /\ u \in User /\ p \in Product
        /\ account[u] \in Account /\ holding[u][p] \in Rows /\ product[p].price \in Nat
    BY <1>1, Terms DEF ProductRow
  <1>3. view \in Views
    BY <1>2 DEF Views
  <1>4. seen' = [seen EXCEPT ![t] = view] /\ call' = [call EXCEPT ![t] = "open"]
    BY DEF Sees, Holding, Goes
  <1>5. /\ seen'[t] = view /\ \A s \in Trade \ {t} : seen'[s] = seen[s] /\ call'[s] = call[s]
        /\ seen' \in [Trade -> Views] /\ call' \in [Trade -> Calls]
    BY <1>1, <1>3, <1>4 DEF Calls
  <1>6. ReadConsistent'
    <2>1. Filled(holding[u][p])
      BY <1>2 DEF SandboxInv, HoldingsInv, NoEmptyHolding, Filled
    <2>2. QED
      BY <1>5, <2>1 DEF SandboxInv, CallsInv, ReadConsistent, Filled
  <1>7. ReadCovers'
    <2>1. ASSUME Side(t) = "BUY" PROVE OwnAccount(t)'.cash >= Amount(t)'
      <3>1. OwnAccount(t)' = AccountOf(u)
        BY <1>5 DEF OwnAccount, AccountOf
      <3>2. Amount(t)' = product[p].price * Quantity(t)
        BY <1>5 DEF Amount, Quantity
      <3>3. AccountOf(u).cash >= product[p].price * Quantity(t)
        BY <2>1 DEF Covered
      <3>4. QED
        BY <3>1, <3>2, <3>3
    <2>2. ASSUME Side(t) = "SELL" PROVE seen'[t].holding.quantity >= Quantity(t)
      BY <1>5, <2>2 DEF Covered, Holding
    <2>3. \A s \in Trade \ {t} : OwnAccount(s)' = OwnAccount(s) /\ Amount(s)' = Amount(s)
      BY <1>5 DEF OwnAccount, Amount, Quantity
    <2>4. QED
      BY <1>5, <2>1, <2>2, <2>3
      DEF SandboxInv, CallsInv, ReadCovers, Side, Quantity
  <1>8. AccountsInv'
    <2>1. \A s \in Trade : call'[s] = "open" =>
            \/ call[s] = "open" /\ seen'[s] = seen[s]
            \/ seen'[s].account = account'[UserOf(s)]
      BY <1>5 DEF tradeVars
    <2>2. \A v \in User : AccountOf(v)' = AccountOf(v)
      BY DEF AccountOf, tradeVars
    <2>3. QED
      BY <1>1, <2>1, <2>2, AccountsKept DEF SandboxInv, AccountsInv, Booked
  <1>9. TInv'
    BY NextInvariant DEF SandboxInv
  <1>10. HoldingsInv'
    BY DEF SandboxInv, HoldingsInv, NoEmptyHolding
  <1>11. QED
    BY <1>5, <1>6, <1>7, <1>8, <1>9, <1>10 DEF SandboxInv, CallsInv

\* The calls that did not read keep what they know when no other does.
LEMMA CallsKept ==
  ASSUME CallsInv, NEW t \in Trade, NEW to \in Calls \ {"open"}, Goes(t, to), seen' = seen
  PROVE  /\ CallsInv'
         /\ \A s \in Trade : call'[s] = "open" => call[s] = "open" /\ seen'[s] = seen[s]
  <1>1. /\ call' \in [Trade -> Calls] /\ call'[t] = to
        /\ \A s \in Trade \ {t} : call'[s] = call[s]
    BY DEF CallsInv, Goes
  <1>2. ReadConsistent'
    BY DEF CallsInv, ReadConsistent, Filled
  <1>3. ReadCovers'
    <2>1. \A s \in Trade : OwnAccount(s)' = OwnAccount(s) /\ Amount(s)' = Amount(s)
      BY DEF OwnAccount, Amount, Quantity
    <2>2. QED
      BY <1>1, <2>1 DEF CallsInv, ReadCovers, Side, Quantity
  <1>4. QED
    BY <1>1, <1>2, <1>3 DEF CallsInv

-----------------------------------------------------------------------------
(* Saving *)

\* Writing one row that is not half empty.
LEMMA RowWrite ==
  ASSUME HoldingsInv, NEW u \in User, NEW p \in Product, NEW row \in Rows, Filled(row),
         holding' = [holding EXCEPT ![u][p] = row]
  PROVE  HoldingsInv'
  <1>1. holding \in [User -> [Product -> Rows]]
    BY DEF HoldingsInv
  <1>2. [holding[u] EXCEPT ![p] = row] \in [Product -> Rows]
    BY <1>1
  <1>3. holding' = [holding EXCEPT ![u] = [holding[u] EXCEPT ![p] = row]]
    BY <1>1
  <1>4. holding' \in [User -> [Product -> Rows]]
    BY <1>1, <1>2, <1>3
  <1>5. ASSUME NEW v \in User, NEW q \in Product
        PROVE  holding'[v][q] = row \/ holding'[v][q] = holding[v][q]
    BY <1>1, <1>2, <1>3
  <1>6. NoEmptyHolding'
    BY <1>5 DEF HoldingsInv, NoEmptyHolding, Filled
  <1>7. QED
    BY <1>4, <1>6 DEF HoldingsInv

\* A row is saved with units and under a name, whichever row that is.
LEMMA SaveKeepsRows ==
  ASSUME HoldingsInv, CallsInv, NEW t \in Trade, NEW n \in Nat \ {0}, SaveHolding(t, n)
  PROVE  HoldingsInv'
  <1> DEFINE u == UserOf(t)
             p == ItemOf(t)
             name == IF Holding(t) # Nothing THEN Holding(t).row
                     ELSE IF seen[t].holding # Nothing THEN seen[t].holding.row ELSE t
             row == [row |-> name, quantity |-> n]
  <1>1. /\ u \in User /\ p \in Product /\ t # NoRow
        /\ holding \in [User -> [Product -> Rows]]
    BY Terms DEF HoldingsInv
  <1>2. \A h \in Rows : Filled(h) /\ h # Nothing => h.row \in Trade /\ h.row # NoRow
    BY SandboxConstantsOK DEF Rows, Filled, Nothing
  <1>3. /\ Holding(t) \in Rows /\ Filled(Holding(t))
        /\ seen[t].holding \in Rows /\ Filled(seen[t].holding)
    BY <1>1, OwnAccountType DEF Holding, HoldingsInv, NoEmptyHolding, Filled, CallsInv,
       ReadConsistent
  <1>4. name \in Trade /\ name # NoRow
    BY <1>1, <1>2, <1>3
  <1>5. row \in Rows /\ row.quantity # 0 /\ row.row # NoRow
    BY <1>4 DEF Rows
  <1>6. holding' = [holding EXCEPT ![u][p] = row]
    BY DEF SaveHolding
  <1> HIDE DEF row
  <1>7. QED
    BY <1>1, <1>5, <1>6, RowWrite DEF Filled

LEMMA EmptyRow == Nothing \in Rows /\ Filled(Nothing)
  BY DEF Nothing, Rows, Filled

LEMMA DeleteKeepsRows ==
  ASSUME HoldingsInv, NEW t \in Trade, DeleteHolding(t)
  PROVE  HoldingsInv'
  <1> DEFINE u == UserOf(t)
             p == ItemOf(t)
  <1>1. u \in User /\ p \in Product /\ holding \in [User -> [Product -> Rows]]
    BY Terms DEF HoldingsInv
  <1>2. \/ holding' = holding
        \/ holding' = [holding EXCEPT ![u][p] = Nothing]
    <2>1. CASE holding[u][p].row = seen[t].holding.row
      BY <2>1 DEF DeleteHolding
    <2>2. CASE holding[u][p].row # seen[t].holding.row
      BY <1>1, <2>2 DEF DeleteHolding
    <2>3. QED
      BY <2>1, <2>2
  <1>3. CASE holding' = holding
    BY <1>3 DEF HoldingsInv, NoEmptyHolding
  <1>4. CASE holding' = [holding EXCEPT ![u][p] = Nothing]
    BY <1>1, <1>4, EmptyRow, RowWrite
  <1>5. QED
    BY <1>2, <1>3, <1>4

\* A trade that nobody raced saves the balance the books show; one that somebody
\* raced puts its user into raced.
LEMMA CommitKeeps ==
  ASSUME SandboxInv, Watches, NEW t \in Trade, call[t] = "open", ~Collides(t),
         NEW cash \in Nat, SaveAccount(t, cash),
         Books(UserOf(t), booked[UserOf(t)] + (cash - OwnAccount(t).cash)),
         HoldingsInv', Goes(t, "FILLED"), OnlyAccounts, UNCHANGED seen
  PROVE  SandboxInv'
  <1> DEFINE u == UserOf(t)
  <1>1. /\ TradeTypeOK /\ CallsInv /\ AccountsInv
        /\ account \in [User -> Account] /\ booked \in [User -> Int] /\ u \in User
    BY Terms DEF SandboxInv, TInv, TradeTypeOK, AccountsInv, Booked
  <1>2. /\ account' \in [User -> Account] /\ AccountOf(u)'.cash = cash
        /\ \A v \in User \ {u} : account'[v] = account[v]
    BY <1>1, SaveEffect
  <1>3. TInv'
    BY <1>2, AccountsApart DEF SandboxInv
  <1>4. /\ CallsInv'
        /\ \A s \in Trade : call'[s] = "open" => call[s] = "open" /\ seen'[s] = seen[s]
    <2>1. "FILLED" \in Calls \ {"open"}
      BY DEF Calls
    <2>2. QED
      BY <1>1, <2>1, CallsKept
  <1>5. OwnAccount(t).cash \in Int
    <2>1. OwnAccount(t) \in Account
      BY <1>1, OwnAccountType
    <2>2. QED
      BY <2>1 DEF Account
  <1>6. /\ booked' \in [User -> Int]
        /\ booked'[u] = booked[u] + (cash - OwnAccount(t).cash)
        /\ \A v \in User \ {u} : booked'[v] = booked[v]
    BY <1>1, <1>5 DEF Books
  <1>7. u \notin raced => OwnAccount(t) = AccountOf(u)
    BY <1>1 DEF AccountsInv, ReadCurrent, OwnAccount, AccountOf
  <1>8. ASSUME NEW v \in User, v \notin raced, AccountOf(v).cash = booked[v]
        PROVE  AccountOf(v)'.cash = booked'[v]
    <2>1. CASE v = u
      BY <1>1, <1>2, <1>5, <1>6, <1>7, <1>8, <2>1
    <2>2. CASE v # u
      BY <1>2, <1>6, <1>8, <2>2 DEF AccountOf
    <2>3. QED
      BY <2>1, <2>2
  <1>9. AccountsInv'
    BY <1>1, <1>4, <1>6, <1>8, AccountsKept
  <1>10. QED
    BY <1>3, <1>4, <1>9 DEF SandboxInv

LEMMA BuyKeeps ==
  ASSUME SandboxInv, Watches, NEW t \in Trade, BuyCommit(t)
  PROVE  SandboxInv'
  <1> DEFINE cash == OwnAccount(t).cash - Amount(t)
  <1>1. /\ OwnAccount(t).cash \in Nat /\ Amount(t) \in Nat /\ seen[t].holding.quantity \in Nat
        /\ Quantity(t) \in Nat /\ Quantity(t) > 0 /\ booked[UserOf(t)] \in Int
    BY OwnAccountType, Terms DEF SandboxInv, Account, Rows, AccountsInv, Booked
  <1>2. OwnAccount(t).cash >= Amount(t)
    BY DEF BuyCommit, SandboxInv, CallsInv, ReadCovers
  <1>3. cash \in Nat /\ cash - OwnAccount(t).cash = -Amount(t)
    BY <1>1, <1>2
  <1>4. booked[UserOf(t)] + (cash - OwnAccount(t).cash) = booked[UserOf(t)] - Amount(t)
    BY <1>1, <1>3
  <1>5. HoldingsInv'
    <2>1. seen[t].holding.quantity + Quantity(t) \in Nat \ {0}
      BY <1>1
    <2>2. QED
      BY <2>1, SaveKeepsRows DEF BuyCommit, SandboxInv
  <1>6. SaveAccount(t, cash)
    BY DEF BuyCommit
  <1> HIDE DEF cash
  <1>7. QED
    BY <1>3, <1>4, <1>5, <1>6, CommitKeeps DEF BuyCommit

LEMMA SellKeeps ==
  ASSUME SandboxInv, Watches, NEW t \in Trade, SellCommit(t)
  PROVE  SandboxInv'
  <1> DEFINE cash == OwnAccount(t).cash + Amount(t)
  <1>1. /\ OwnAccount(t).cash \in Nat /\ Amount(t) \in Nat /\ seen[t].holding.quantity \in Nat
        /\ Quantity(t) \in Nat /\ booked[UserOf(t)] \in Int
    BY OwnAccountType, Terms DEF SandboxInv, Account, Rows, AccountsInv, Booked
  <1>2. seen[t].holding.quantity >= Quantity(t)
    BY DEF SellCommit, SandboxInv, CallsInv, ReadCovers
  <1>3. cash \in Nat
    BY <1>1
  <1>4. booked[UserOf(t)] + (cash - OwnAccount(t).cash) = booked[UserOf(t)] + Amount(t)
    BY <1>1
  <1>5. HoldingsInv'
    <2>1. CASE seen[t].holding.quantity = Quantity(t)
      BY <2>1, DeleteKeepsRows DEF SellCommit, SandboxInv
    <2>2. CASE seen[t].holding.quantity # Quantity(t)
      <3>1. seen[t].holding.quantity - Quantity(t) \in Nat \ {0}
        BY <1>1, <1>2, <2>2
      <3>2. QED
        BY <2>2, <3>1, SaveKeepsRows DEF SellCommit, SandboxInv
    <2>3. QED
      BY <2>1, <2>2
  <1>6. SaveAccount(t, cash)
    BY DEF SellCommit
  <1> HIDE DEF cash
  <1>7. QED
    BY <1>3, <1>4, <1>5, <1>6, CommitKeeps DEF SellCommit

\* A reset books the starting cash, and that is what the account has then.
LEMMA ResetKeeps ==
  ASSUME SandboxInv, Watches, NEW t \in Trade, ResetCommit(t)
  PROVE  SandboxInv'
  <1> DEFINE u == UserOf(t)
             a == IF seen[t].account.open
                    THEN [NewAccount EXCEPT !.generation = seen[t].account.generation + 1]
                    ELSE NewAccount
  <1>1. /\ CallsInv /\ AccountsInv /\ HoldingsInv /\ StartingCash \in Int
        /\ account \in [User -> Account] /\ booked \in [User -> Int] /\ u \in User
    BY Terms, TradeConstantsOK
    DEF SandboxInv, TInv, TradeTypeOK, AccountsInv, Booked
  <1>2. a \in Account /\ a.open = TRUE /\ a.cash = StartingCash
    <2>1. seen[t].account \in Account
      BY <1>1, OwnAccountType
    <2>2. seen[t].account.generation + 1 \in Nat
      BY <2>1 DEF Account
    <2>3. QED
      BY <2>2, OpenedAccount DEF Account
  <1>3. account' = [account EXCEPT ![u] = a]
    BY DEF ResetCommit
  <1> HIDE DEF a
  <1>4. /\ account' \in [User -> Account] /\ AccountOf(u)'.cash = StartingCash
        /\ \A v \in User \ {u} : account'[v] = account[v]
    BY <1>1, <1>2, <1>3 DEF AccountOf
  <1>5. TInv'
    BY <1>4, AccountsApart DEF SandboxInv, ResetCommit
  <1>6. HoldingsInv'
    <2>1. CASE holding' = holding
      BY <1>1, <2>1 DEF HoldingsInv, NoEmptyHolding
    <2>2. CASE holding' = [holding EXCEPT ![u] = [p \in Product |-> Nothing]]
      BY <1>1, <2>2, EmptyRow DEF HoldingsInv, NoEmptyHolding, Filled
    <2>3. QED
      BY <2>1, <2>2 DEF ResetCommit
  <1>7. /\ CallsInv'
        /\ \A s \in Trade : call'[s] = "open" => call[s] = "open" /\ seen'[s] = seen[s]
    <2>1. "RESET" \in Calls \ {"open"}
      BY DEF Calls
    <2>2. QED
      BY <1>1, <2>1, CallsKept DEF ResetCommit
  <1>8. booked' = [booked EXCEPT ![u] = StartingCash]
    BY DEF ResetCommit, Books
  <1>9. ASSUME NEW v \in User, v \notin raced, AccountOf(v).cash = booked[v]
        PROVE  AccountOf(v)'.cash = booked'[v]
    BY <1>1, <1>4, <1>8, <1>9 DEF AccountOf
  <1>10. AccountsInv'
    BY <1>1, <1>7, <1>8, <1>9, AccountsKept
  <1>11. QED
    BY <1>5, <1>6, <1>7, <1>10 DEF SandboxInv

-----------------------------------------------------------------------------
(* The rest *)

\* An account that is created has the cash it was taken to have.
LEMMA OpeningKeeps ==
  ASSUME SandboxInv, Watches, NEW u \in User, account' = [account EXCEPT ![u] = AccountOf(u)],
         CallsInv',
         \A s \in Trade : call'[s] = "open" => call[s] = "open" /\ seen'[s] = seen[s],
         OnlyAccounts, UNCHANGED <<holding, booked>>
  PROVE  SandboxInv'
  <1>1. /\ TradeTypeOK /\ CallsInv /\ AccountsInv /\ HoldingsInv
        /\ account \in [User -> Account] /\ booked \in [User -> Int]
    BY DEF SandboxInv, TInv, TradeTypeOK, AccountsInv, Booked
  <1>2. AccountOf(u) \in Account /\ AccountOf(u).open = TRUE
    BY <1>1, AccountOfType
  <1>3. account' \in [User -> Account] /\ \A v \in User : AccountOf(v)' = AccountOf(v)
    BY <1>1, <1>2 DEF AccountOf
  <1>4. TInv'
    BY <1>3, AccountsApart DEF SandboxInv
  <1>5. AccountsInv'
    BY <1>1, <1>3, AccountsKept
  <1>6. HoldingsInv'
    BY <1>1 DEF HoldingsInv, NoEmptyHolding
  <1>7. QED
    BY <1>4, <1>5, <1>6 DEF SandboxInv

LEMMA OrdersKeep ==
  ASSUME SandboxInv, Watches, OrderStep
  PROVE  SandboxInv'
  <1>1. TInv'
    BY NextInvariant DEF SandboxInv, OrderStep
  <1>2. CallsInv'
    <2>1. \A s \in Trade : OwnAccount(s)' = OwnAccount(s) /\ Amount(s)' = Amount(s)
      BY DEF OwnAccount, Amount, Quantity, OrderStep
    <2>2. ReadCovers'
      BY <2>1 DEF SandboxInv, CallsInv, ReadCovers, Side, Quantity, OrderStep
    <2>3. QED
      BY <2>2 DEF SandboxInv, CallsInv, ReadConsistent, Filled, OrderStep
  <1>3. HoldingsInv'
    BY DEF SandboxInv, HoldingsInv, NoEmptyHolding, OrderStep
  <1>4. \A u \in User : AccountOf(u).cash \in Int /\ AccountOf(u)'.cash \in Int
    <2>1. account \in [User -> Account] /\ account' \in [User -> Account]
      BY <1>1 DEF SandboxInv, TInv, TradeTypeOK
    <2>2. \A a \in Account : a.cash \in Int
      BY DEF Account
    <2>3. QED
      BY <2>1, <2>2, OpenedAccount DEF AccountOf
  <1>5. /\ booked \in [User -> Int] /\ account \in [User -> Account] /\ CallsInv /\ AccountsInv
        /\ booked' = [u \in User |-> booked[u] + AccountOf(u)'.cash - AccountOf(u).cash]
    BY DEF SandboxInv, TInv, TradeTypeOK, AccountsInv, Booked, OrderStep
  <1>6. booked' \in [User -> Int]
    BY <1>4, <1>5
  <1>7. ASSUME NEW u \in User, AccountOf(u).cash = booked[u]
        PROVE  AccountOf(u)'.cash = booked'[u]
    BY <1>4, <1>5, <1>7
  <1>8. \A t \in Trade : call'[t] = "open" => call[t] = "open" /\ seen'[t] = seen[t]
    BY DEF OrderStep
  <1>9. AccountsInv'
    BY <1>5, <1>6, <1>7, <1>8, AccountsKept
  <1>10. QED
    BY <1>1, <1>2, <1>3, <1>9 DEF SandboxInv

LEMMA SandboxNextKeeps == SandboxInv /\ [SandboxNext]_allVars => SandboxInv'
  <1> SUFFICES ASSUME SandboxInv, [SandboxNext]_allVars
               PROVE  SandboxInv'
    OBVIOUS
  <1>1. ASSUME NEW t \in Trade, TradeRead(t) \/ ResetRead(t), Watches
        PROVE  SandboxInv'
    BY <1>1, ReadKeeps DEF TradeRead, ResetRead
  <1>2. ASSUME NEW t \in Trade, TradeReject(t), Watches
        PROVE  SandboxInv'
    <2>1. "REJECTED" \in Calls \ {"open"}
      BY DEF Calls
    <2>2. /\ CallsInv'
          /\ \A s \in Trade : call'[s] = "open" => call[s] = "open" /\ seen'[s] = seen[s]
      BY <1>2, <2>1, CallsKept DEF SandboxInv, TradeReject
    <2>3. QED
      BY <1>2, <2>2, OpeningKeeps, Terms DEF TradeReject
  <1>3. ASSUME NEW t \in Trade, BuyCommit(t) \/ SellCommit(t) \/ ResetCommit(t), Watches
        PROVE  SandboxInv'
    BY <1>3, BuyKeeps, SellKeeps, ResetKeeps
  <1>4. ASSUME UNCHANGED <<tradeVars, holding, booked, raced>>, CallsInv',
               \A s \in Trade : call'[s] = "open" => call[s] = "open" /\ seen'[s] = seen[s]
        PROVE  SandboxInv'
    <2>1. TInv'
      BY <1>4, NextInvariant DEF SandboxInv
    <2>2. HoldingsInv'
      BY <1>4 DEF SandboxInv, HoldingsInv, NoEmptyHolding
    <2>3. AccountsInv'
      BY <1>4 DEF SandboxInv, AccountsInv, ReadCurrent, UserOf, Booked, CashBookedUnlessRaced,
         AccountOf, tradeVars
    <2>4. QED
      BY <1>4, <2>1, <2>2, <2>3 DEF SandboxInv
  <1>5. ASSUME NEW t \in Trade, CallFails(t), Watches
        PROVE  SandboxInv'
    <2>1. "failed" \in Calls \ {"open"}
      BY DEF Calls
    <2>2. /\ CallsInv'
          /\ \A s \in Trade : call'[s] = "open" => call[s] = "open" /\ seen'[s] = seen[s]
      BY <1>5, <2>1, CallsKept DEF SandboxInv, CallFails
    <2>3. raced' = raced
      BY <1>5 DEF Watches, CallFails, tradeVars
    <2>4. QED
      BY <1>4, <1>5, <2>2, <2>3 DEF CallFails
  <1>6. ASSUME NEW u \in User, EnsureAccount(u), Watches
        PROVE  SandboxInv'
    <2>1. account' = [account EXCEPT ![u] = AccountOf(u)]
      BY <1>6 DEF EnsureAccount, AccountOf
    <2>2. CallsInv' /\ \A s \in Trade : call'[s] = call[s] /\ seen'[s] = seen[s]
      BY <1>6 DEF EnsureAccount, SandboxInv, CallsInv, ReadConsistent, Filled, ReadCovers,
         OwnAccount, Amount, Side, Quantity
    <2>3. QED
      BY <1>6, <2>1, <2>2, OpeningKeeps DEF EnsureAccount
  <1>7. CASE UNCHANGED allVars
    <2>1. CallsInv'
      BY <1>7 DEF allVars, sandboxVars, SandboxInv, CallsInv, ReadConsistent, Filled,
         ReadCovers, OwnAccount, Amount, Side, Quantity
    <2>2. QED
      BY <1>4, <1>7, <2>1 DEF allVars, sandboxVars
  <1>8. QED
    BY <1>1, <1>2, <1>3, <1>5, <1>6, <1>7, OrdersKeep DEF SandboxNext, SandboxStep

LEMMA SandboxStarts == SandboxInit => SandboxInv
  <1> SUFFICES ASSUME SandboxInit
               PROVE  SandboxInv
    OBVIOUS
  <1>1. TInv
    BY InitInvariant DEF SandboxInit
  <1>2. \A u \in User : account[u] \in Account /\ AccountOf(u).cash = StartingCash
    BY <1>1 DEF SandboxInit, Init, AccountOf, NewAccount, TInv, TradeTypeOK
  <1>3. HoldingsInv
    BY EmptyRow DEF SandboxInit, HoldingsInv, NoEmptyHolding, Filled
  <1>4. CallsInv
    <2>1. \A t \in Trade : seen[t] = [account |-> account[UserOf(t)], holding |-> Nothing,
                                      price |-> 0]
      BY DEF SandboxInit
    <2>2. \A t \in Trade : seen[t] \in Views
      <3>1. 0 \in Nat /\ \A t \in Trade : account[UserOf(t)] \in Account
        BY <1>2, Terms
      <3>2. \A a \in Account, h \in Rows, n \in Nat :
              [account |-> a, holding |-> h, price |-> n] \in Views
        BY DEF Views
      <3>3. Nothing \in Rows
        BY EmptyRow
      <3>4. QED
        BY <2>1, <3>1, <3>2, <3>3
    <2>3. seen \in [Trade -> Views] /\ call \in [Trade -> Calls]
      BY <2>2 DEF SandboxInit, Calls
    <2>4. QED
      BY <2>1, <2>3, EmptyRow DEF SandboxInit, CallsInv, ReadConsistent, ReadCovers
  <1>5. AccountsInv
    BY <1>2, TradeConstantsOK
    DEF SandboxInit, AccountsInv, ReadCurrent, Booked, CashBookedUnlessRaced
  <1>6. QED
    BY <1>1, <1>3, <1>4, <1>5 DEF SandboxInv

\* Orders, holdings, accounts and calls keep their invariant together, whatever
\* overwrites what (sandbox.go, placeSandboxOrder and resetSandbox).
THEOREM SandboxInvariance == SandboxSpec => []SandboxInv
  BY SandboxStarts, SandboxNextKeeps, PTL DEF SandboxSpec

\* No balance and no holding is ever negative, although both are computed from
\* rows read without a lock.
THEOREM SandboxTypeCorrect == SandboxSpec => []SandboxTypeOK
  <1>1. SandboxInv => SandboxTypeOK
    BY DEF SandboxInv, TInv, TradeTypeOK, CallsInv, HoldingsInv, AccountsInv, SandboxTypeOK
  <1>2. QED
    BY <1>1, SandboxInvariance, PTL

\* No sale, however stale, leaves a row of holdings without units, and no row
\* with units lacks its name.
THEOREM HoldingsFilled == SandboxSpec => []NoEmptyHolding
  BY SandboxInvariance, PTL DEF SandboxInv, HoldingsInv

\* An account differs from what was booked on it only if it changed between a
\* call's read and its save.
THEOREM LostUpdatesOnly == SandboxSpec => []CashBookedUnlessRaced
  BY SandboxInvariance, PTL DEF SandboxInv, AccountsInv, Booked

\* What the sandbox does to accounts never reaches orders: their keys and trails
\* stay right.
THEOREM OrdersBesideSandbox == SandboxSpec => [](OneOrderPerKey /\ TrailComplete)
  BY SandboxInvariance, PTL DEF SandboxInv, TInv, OrdersInv

-----------------------------------------------------------------------------
(***************************************************************************)
(* What is held was bought.  A save may bring back what its call read, so  *)
(* that has to have been bought as well; and what was bought only grows.   *)
(***************************************************************************)
ordered == [t \in Trade |-> Quantity(t)]

SeenBought ==
  \A t \in Trade :
    call[t] = "open" => seen[t].holding.quantity <= Bought(UserOf(t), ItemOf(t))

BoughtInv ==
  /\ \A u \in User, p \in Product : IsFiniteSet(Purchases(u, p))
  /\ HoldingsBought
  /\ SeenBought

LEMMA BoughtIs ==
  ASSUME NEW u \in User, NEW p \in Product
  PROVE  /\ Bought(u, p) = SumFunctionOnSet(ordered, Purchases(u, p))
         /\ Bought(u, p)' = SumFunctionOnSet(ordered, Purchases(u, p)')
         /\ \A t \in Trade : ordered[t] = Quantity(t) /\ ordered[t] \in Nat
         /\ Purchases(u, p) \subseteq Trade
  BY Terms DEF Bought, ordered, Quantity, Purchases

LEMMA BoughtType ==
  ASSUME NEW u \in User, NEW p \in Product, IsFiniteSet(Purchases(u, p))
  PROVE  Bought(u, p) \in Nat
  <1>1. \A t \in Purchases(u, p) : ordered[t] \in Nat
    BY BoughtIs
  <1>2. QED
    BY <1>1, BoughtIs, SumType

\* Steps in which nothing is bought, and what they may write.
LEMMA NothingBought ==
  ASSUME BoughtInv,
         \A t \in Trade : Side(t) = "BUY" => (call'[t] = "FILLED" <=> call[t] = "FILLED"),
         \A u \in User, p \in Product : holding'[u][p].quantity <= Bought(u, p),
         \A t \in Trade : call'[t] = "open"
           => seen'[t].holding.quantity <= Bought(UserOf(t), ItemOf(t))
  PROVE  BoughtInv'
  <1>1. \A u \in User, p \in Product : Purchases(u, p)' = Purchases(u, p)
    BY DEF Purchases, UserOf, ItemOf, Side
  <1>2. \A u \in User, p \in Product : Bought(u, p)' = Bought(u, p)
    BY <1>1, BoughtIs
  <1>3. \A t \in Trade : Bought(UserOf(t), ItemOf(t))' = Bought(UserOf(t), ItemOf(t))
    BY <1>2, Terms DEF UserOf, ItemOf
  <1>4. HoldingsBought'
    BY <1>2 DEF HoldingsBought
  <1>5. SeenBought'
    BY <1>3 DEF SeenBought
  <1>6. \A u \in User, p \in Product : IsFiniteSet(Purchases(u, p))'
    BY <1>1 DEF BoughtInv
  <1>7. QED
    BY <1>4, <1>5, <1>6 DEF BoughtInv

\* The same for steps that write no holding and read nothing.
LEMMA HoldingsUntouched ==
  ASSUME BoughtInv,
         \A t \in Trade : Side(t) = "BUY" => (call'[t] = "FILLED" <=> call[t] = "FILLED"),
         \A t \in Trade : call'[t] = "open" => call[t] = "open" /\ seen'[t] = seen[t],
         UNCHANGED holding
  PROVE  BoughtInv'
  <1>1. \A u \in User, p \in Product : holding'[u][p].quantity <= Bought(u, p)
    BY DEF BoughtInv, HoldingsBought
  <1>2. \A t \in Trade : call'[t] = "open"
          => seen'[t].holding.quantity <= Bought(UserOf(t), ItemOf(t))
    BY DEF BoughtInv, SeenBought
  <1>3. QED
    BY <1>1, <1>2, NothingBought

LEMMA ReadBought ==
  ASSUME SandboxInv, BoughtInv, NEW t \in Trade, TradeRead(t) \/ ResetRead(t)
  PROVE  BoughtInv'
  <1>1. /\ call' = [call EXCEPT ![t] = "open"] /\ call[t] = "new"
        /\ UNCHANGED holding
        /\ seen' = [seen EXCEPT ![t] = [account |-> account[UserOf(t)],
                                        holding |-> Holding(t),
                                        price   |-> product[ItemOf(t)].price]]
    BY DEF TradeRead, ResetRead, Goes, Sees
  <1>2. call \in [Trade -> Calls] /\ seen \in [Trade -> Views]
    BY DEF SandboxInv, CallsInv
  <1>3. \A s \in Trade : call'[s] = "FILLED" <=> call[s] = "FILLED"
    BY <1>1, <1>2
  <1>4. \A u \in User, p \in Product : holding'[u][p].quantity <= Bought(u, p)
    BY <1>1 DEF BoughtInv, HoldingsBought
  <1>5. ASSUME NEW s \in Trade, call'[s] = "open"
        PROVE  seen'[s].holding.quantity <= Bought(UserOf(s), ItemOf(s))
    <2>1. CASE s = t
      <3>1. seen'[s].holding = holding[UserOf(s)][ItemOf(s)]
        BY <1>1, <1>2, <2>1 DEF Holding
      <3>2. QED
        BY <3>1, Terms DEF BoughtInv, HoldingsBought
    <2>2. CASE s # t
      BY <1>1, <1>2, <1>5, <2>2 DEF BoughtInv, SeenBought
    <2>3. QED
      BY <2>1, <2>2
  <1>6. QED
    BY <1>3, <1>4, <1>5, NothingBought

\* What a write to one holding leaves in the table.
LEMMA HoldingWritten ==
  ASSUME HoldingsInv, NEW t \in Trade, NEW row,
         holding' = [holding EXCEPT ![UserOf(t)][ItemOf(t)] = row]
  PROVE  /\ holding'[UserOf(t)][ItemOf(t)] = row
         /\ \A u \in User, p \in Product :
              u # UserOf(t) \/ p # ItemOf(t) => holding'[u][p] = holding[u][p]
  BY Terms DEF HoldingsInv

\* A purchase adds at most its own units to what its call read.
LEMMA BuyBought ==
  ASSUME SandboxInv, BoughtInv, NEW t \in Trade, BuyCommit(t)
  PROVE  BoughtInv'
  <1> DEFINE n == seen[t].holding.quantity
             v == UserOf(t)
             q == ItemOf(t)
  <1>1. /\ HoldingsInv /\ call \in [Trade -> Calls]
        /\ n \in Nat /\ Quantity(t) \in Nat /\ v \in User /\ q \in Product
    BY Terms DEF SandboxInv, CallsInv, Views, Rows
  <1>2. /\ call[t] = "open" /\ Side(t) = "BUY" /\ UNCHANGED seen
        /\ call' = [call EXCEPT ![t] = "FILLED"]
        /\ n <= Bought(v, q)
    BY DEF BuyCommit, Goes, BoughtInv, SeenBought
  <1>3. /\ holding'[v][q].quantity = n + Quantity(t)
        /\ \A u \in User, p \in Product : u # v \/ p # q => holding'[u][p] = holding[u][p]
    <2> DEFINE row == [row |-> IF Holding(t) # Nothing THEN Holding(t).row
                               ELSE IF seen[t].holding # Nothing THEN seen[t].holding.row
                               ELSE t,
                       quantity |-> n + Quantity(t)]
    <2>1. holding' = [holding EXCEPT ![v][q] = row]
      BY DEF BuyCommit, SaveHolding
    <2>2. row.quantity = n + Quantity(t)
      OBVIOUS
    <2> HIDE DEF row
    <2>3. QED
      BY <1>1, <2>1, <2>2, HoldingWritten
  <1> HIDE DEF n, v, q
  <1>4. /\ t \notin Purchases(v, q) /\ Purchases(v, q)' = Purchases(v, q) \cup {t}
        /\ \A u \in User, p \in Product : u # v \/ p # q => Purchases(u, p)' = Purchases(u, p)
    BY <1>1, <1>2 DEF Purchases, UserOf, ItemOf, Side, v, q
  <1>5. /\ IsFiniteSet(Purchases(v, q)') /\ Bought(v, q) \in Nat
        /\ Bought(v, q)' = Bought(v, q) + Quantity(t)
    <2>1. IsFiniteSet(Purchases(v, q)) /\ Bought(v, q) \in Nat
      BY <1>1, BoughtType DEF BoughtInv
    <2>2. \A s \in Purchases(v, q) \cup {t} : ordered[s] \in Nat
      BY <1>1, BoughtIs
    <2>3. SumFunctionOnSet(ordered, Purchases(v, q) \cup {t})
            = ordered[t] + SumFunctionOnSet(ordered, Purchases(v, q))
      BY <1>4, <2>1, <2>2, SumAdd
    <2>4. Bought(v, q)' = Quantity(t) + Bought(v, q)
      BY <1>1, <1>4, <2>3, BoughtIs
    <2>5. QED
      BY <1>1, <1>4, <2>1, <2>4, FS_AddElement
  <1>6. \A u \in User, p \in Product :
          /\ IsFiniteSet(Purchases(u, p)')
          /\ u # v \/ p # q => Bought(u, p)' = Bought(u, p)
    <2>1. \A u \in User, p \in Product : u # v \/ p # q => Bought(u, p)' = Bought(u, p)
      BY <1>4, BoughtIs
    <2>2. QED
      BY <1>4, <1>5, <2>1 DEF BoughtInv
  <1>7. HoldingsBought'
    <2> SUFFICES ASSUME NEW u \in User, NEW p \in Product
                 PROVE  holding'[u][p].quantity <= Bought(u, p)'
      BY DEF HoldingsBought
    <2>1. CASE u = v /\ p = q
      BY <1>1, <1>2, <1>3, <1>5, <2>1
    <2>2. CASE u # v \/ p # q
      BY <1>3, <1>6, <2>2 DEF BoughtInv, HoldingsBought
    <2>3. QED
      BY <2>1, <2>2
  <1>8. SeenBought'
    <2> SUFFICES ASSUME NEW s \in Trade, call'[s] = "open"
                 PROVE  seen'[s].holding.quantity <= Bought(UserOf(s), ItemOf(s))'
      BY DEF SeenBought
    <2>1. /\ call[s] = "open" /\ seen'[s] = seen[s]
          /\ UserOf(s) \in User /\ ItemOf(s) \in Product
          /\ seen[s].holding.quantity \in Nat
      BY <1>1, <1>2, Terms DEF SandboxInv, CallsInv, Views, Rows
    <2>2. seen[s].holding.quantity <= Bought(UserOf(s), ItemOf(s))
      BY <2>1 DEF BoughtInv, SeenBought
    <2>3. Bought(UserOf(s), ItemOf(s))' = SumFunctionOnSet(ordered, Purchases(UserOf(s), ItemOf(s))')
      BY <2>1, BoughtIs DEF UserOf, ItemOf
    <2>4. CASE UserOf(s) = v /\ ItemOf(s) = q
      BY <1>1, <1>5, <2>1, <2>2, <2>4 DEF UserOf, ItemOf
    <2>5. CASE UserOf(s) # v \/ ItemOf(s) # q
      BY <1>6, <2>1, <2>2, <2>5 DEF UserOf, ItemOf
    <2>6. QED
      BY <2>4, <2>5
  <1>9. QED
    BY <1>6, <1>7, <1>8 DEF BoughtInv

\* A sale leaves less than its call read.
LEMMA SellBought ==
  ASSUME SandboxInv, BoughtInv, NEW t \in Trade, SellCommit(t)
  PROVE  BoughtInv'
  <1> DEFINE n == seen[t].holding.quantity
             v == UserOf(t)
             q == ItemOf(t)
  <1>1. /\ HoldingsInv /\ call \in [Trade -> Calls]
        /\ n \in Nat /\ Quantity(t) \in Nat /\ v \in User /\ q \in Product
        /\ IsFiniteSet(Purchases(v, q))
    BY Terms DEF SandboxInv, CallsInv, Views, Rows, BoughtInv
  <1>2. /\ call[t] = "open" /\ Side(t) = "SELL" /\ UNCHANGED seen
        /\ call' = [call EXCEPT ![t] = "FILLED"]
        /\ n <= Bought(v, q) /\ n >= Quantity(t)
    BY DEF SellCommit, Goes, BoughtInv, SeenBought, SandboxInv, CallsInv, ReadCovers
  <1>3. Bought(v, q) \in Nat
    BY <1>1, BoughtType
  <1>4. \E row : /\ holding' = [holding EXCEPT ![v][q] = row]
                 /\ row.quantity <= Bought(v, q)
    <2>1. CASE DeleteHolding(t)
      <3>1. holding' = [holding EXCEPT ![v][q] =
                          IF holding[v][q].row = seen[t].holding.row THEN Nothing
                                                                     ELSE holding[v][q]]
        BY <1>1, <2>1 DEF DeleteHolding, HoldingsInv
      <3>2. holding[v][q].quantity <= Bought(v, q)
        BY <1>1 DEF BoughtInv, HoldingsBought
      <3>3. Nothing.quantity <= Bought(v, q)
        BY <1>3 DEF Nothing
      <3>4. QED
        BY <3>1, <3>2, <3>3
    <2>2. CASE SaveHolding(t, n - Quantity(t))
      <3> DEFINE row == [row |-> IF Holding(t) # Nothing THEN Holding(t).row
                                 ELSE IF seen[t].holding # Nothing THEN seen[t].holding.row
                                 ELSE t,
                         quantity |-> n - Quantity(t)]
      <3>1. holding' = [holding EXCEPT ![v][q] = row]
        BY <2>2 DEF SaveHolding
      <3>2. row.quantity = n - Quantity(t)
        OBVIOUS
      <3> HIDE DEF row, n
      <3>3. n - Quantity(t) <= Bought(v, q)
        BY <1>1, <1>2, <1>3
      <3>4. QED
        BY <3>1, <3>2, <3>3
    <2>3. QED
      BY <2>1, <2>2 DEF SellCommit
  <1>5. \A u \in User, p \in Product : holding'[u][p].quantity <= Bought(u, p)
    <2>1. PICK row : /\ holding' = [holding EXCEPT ![v][q] = row]
                     /\ row.quantity <= Bought(v, q)
      BY <1>4
    <2>2. /\ holding'[v][q] = row
          /\ \A u \in User, p \in Product : u # v \/ p # q => holding'[u][p] = holding[u][p]
      BY <1>1, <2>1, HoldingWritten
    <2>3. QED
      BY <2>1, <2>2 DEF BoughtInv, HoldingsBought
  <1>6. \A s \in Trade : /\ Side(s) = "BUY" => (call'[s] = "FILLED" <=> call[s] = "FILLED")
                         /\ call'[s] = "open" => call[s] = "open" /\ seen'[s] = seen[s]
    BY <1>1, <1>2
  <1>7. QED
    BY <1>5, <1>6, NothingBought DEF BoughtInv, SeenBought

LEMMA ResetBought ==
  ASSUME SandboxInv, BoughtInv, NEW t \in Trade, ResetCommit(t)
  PROVE  BoughtInv'
  <1>1. /\ HoldingsInv /\ call \in [Trade -> Calls] /\ UserOf(t) \in User
    BY Terms DEF SandboxInv, CallsInv
  <1>2. /\ call[t] = "open" /\ UNCHANGED seen
        /\ call' = [call EXCEPT ![t] = "RESET"]
    BY DEF ResetCommit, Goes
  <1>3. \A u \in User, p \in Product : holding'[u][p].quantity <= Bought(u, p)
    <2>1. \A u \in User, p \in Product : holding'[u][p] \in {holding[u][p], Nothing}
      BY <1>1 DEF ResetCommit, HoldingsInv
    <2>2. \A u \in User, p \in Product : Nothing.quantity <= Bought(u, p)
      BY BoughtType DEF BoughtInv, Nothing
    <2>3. QED
      BY <2>1, <2>2 DEF BoughtInv, HoldingsBought
  <1>4. \A s \in Trade : /\ Side(s) = "BUY" => (call'[s] = "FILLED" <=> call[s] = "FILLED")
                         /\ call'[s] = "open" => call[s] = "open" /\ seen'[s] = seen[s]
    BY <1>1, <1>2
  <1>5. QED
    BY <1>3, <1>4, NothingBought DEF BoughtInv, SeenBought

LEMMA NextBought == SandboxInv /\ BoughtInv /\ [SandboxNext]_allVars => BoughtInv'
  <1> SUFFICES ASSUME SandboxInv, BoughtInv, [SandboxNext]_allVars
               PROVE  BoughtInv'
    OBVIOUS
  <1>1. call \in [Trade -> Calls]
    BY DEF SandboxInv, CallsInv
  <1>2. ASSUME UNCHANGED <<holding, call, seen>>
        PROVE  BoughtInv'
    BY <1>2, HoldingsUntouched
  <1>3. ASSUME NEW t \in Trade, TradeReject(t) \/ CallFails(t)
        PROVE  BoughtInv'
    <2>1. /\ UNCHANGED <<holding, seen>> /\ call[t] # "FILLED"
          /\ \E to \in {"REJECTED", "failed"} : call' = [call EXCEPT ![t] = to]
      BY <1>3 DEF TradeReject, CallFails, Goes
    <2>2. \A s \in Trade : /\ call'[s] = "FILLED" <=> call[s] = "FILLED"
                           /\ call'[s] = "open" => call[s] = "open" /\ seen'[s] = seen[s]
      BY <1>1, <2>1
    <2>3. QED
      BY <2>1, <2>2, HoldingsUntouched
  <1>4. ASSUME NEW t \in Trade, SandboxStep(t)
        PROVE  BoughtInv'
    BY <1>3, <1>4, ReadBought, BuyBought, SellBought, ResetBought DEF SandboxStep
  <1>5. CASE OrderStep \/ UNCHANGED allVars \/ \E u \in User : EnsureAccount(u)
    BY <1>2, <1>5 DEF OrderStep, allVars, sandboxVars, EnsureAccount
  <1>6. QED
    BY <1>4, <1>5 DEF SandboxNext

LEMMA StartBought == SandboxInit => BoughtInv
  <1> SUFFICES ASSUME SandboxInit
               PROVE  BoughtInv
    OBVIOUS
  <1>1. ASSUME NEW u \in User, NEW p \in Product
        PROVE  /\ IsFiniteSet(Purchases(u, p)) /\ Bought(u, p) = 0
               /\ holding[u][p].quantity = 0
    <2>1. Purchases(u, p) = {}
      BY DEF SandboxInit, Purchases
    <2>2. QED
      BY <2>1, BoughtIs, SumEmpty, FS_EmptySet DEF SandboxInit, Nothing
  <1>2. SeenBought
    BY DEF SandboxInit, SeenBought
  <1>3. QED
    BY <1>1, <1>2 DEF BoughtInv, HoldingsBought

\* Nobody holds more than he has bought, although purchases and sales overwrite
\* each other's rows and bring back deleted ones (sandbox.go,
\* placeSandboxOrder).
THEOREM NothingHeldUnbought == SandboxSpec => []HoldingsBought
  BY StartBought, NextBought, SandboxInvariance, PTL DEF SandboxSpec, BoughtInv

\* The orders' steps keep the account of the stock, as in TradeOrders; no other step
\* touches products, orders or supplies.
LEMMA SandboxKeepsStock == SandboxInv /\ StockInv /\ [SandboxNext]_allVars => StockInv'
  <1> SUFFICES ASSUME SandboxInv, StockInv, [SandboxNext]_allVars
               PROVE  StockInv'
    OBVIOUS
  <1>1. CASE OrderStep
    BY <1>1, StockStep DEF OrderStep, SandboxInv
  <1>2. CASE UNCHANGED <<product, order, supplied>>
    <2>1. /\ \A p \in Product : Reserving(p)' = Reserving(p)
          /\ UNCHANGED <<product, supplied>>
      BY <1>2 DEF Reserving
    <2>2. QED
      BY <2>1, StockUntouched DEF StockInv
  <1>3. ASSUME NEW t \in Trade, SandboxStep(t) PROVE UNCHANGED <<product, order, supplied>>
    BY <1>3 DEF SandboxStep, TradeRead, TradeReject, ResetRead, BuyCommit, SellCommit,
                ResetCommit, CallFails, OnlyAccounts, tradeVars
  <1>4. ASSUME NEW u \in User, EnsureAccount(u) PROVE UNCHANGED <<product, order, supplied>>
    BY <1>4 DEF EnsureAccount, OnlyAccounts
  <1>5. CASE UNCHANGED allVars
    BY <1>2, <1>5 DEF allVars, tradeVars
  <1>6. QED
    BY <1>1, <1>2, <1>3, <1>4, <1>5 DEF SandboxNext

\* Sandbox trades take no unit from the stock that orders share: stock and
\* reservations still add up to what the seller put up.
THEOREM StockBesideSandbox == SandboxSpec => []StockAccounted
  <1>1. StockInv => StockAccounted
    BY DEF StockInv, StockKept, StockAccounted
  <1>2. SandboxInit => StockInv
    BY StockStart DEF SandboxInit
  <1>3. QED
    BY <1>1, <1>2, SandboxKeepsStock, SandboxInvariance, PTL DEF SandboxSpec
=============================================================================
