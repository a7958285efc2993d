------------------------------- MODULE Escrow -------------------------------
(***************************************************************************)
(* What trading promises about money: the payment for a deal leaves the    *)
(* buyer's balance at most once, is held, and then goes to exactly one of  *)
(* two parties - back to the buyer, as long as the goods are not on their  *)
(* way, or to the seller - and no balance changes for any other reason.    *)
(*                                                                         *)
(* TradeOrders implements it (EscrowKept there).                           *)
(***************************************************************************)
EXTENDS Naturals

CONSTANTS Party, Deal, Payer, Payee, Opening

VARIABLES stage,     \* how far each deal has come
          worth,     \* what each deal costs
          balance    \* each party's money

escrowVars == <<stage, worth, balance>>

Init ==
  /\ stage = [d \in Deal |-> "none"]
  /\ worth = [d \in Deal |-> 0]
  /\ balance = [u \in Party |-> Opening]

Moves(d, from, to) ==
  /\ stage[d] = from
  /\ stage' = [stage EXCEPT ![d] = to]

Agree(d) ==
  /\ Moves(d, "none", "agreed")
  /\ worth'[d] \in Nat
  /\ worth' = [worth EXCEPT ![d] = worth'[d]]
  /\ UNCHANGED balance

Drop(d) == Moves(d, "agreed", "dropped") /\ UNCHANGED <<worth, balance>>

Hold(d) ==
  /\ Moves(d, "agreed", "held")
  /\ balance[Payer[d]] >= worth[d]
  /\ balance' = [balance EXCEPT ![Payer[d]] = @ - worth[d]]
  /\ UNCHANGED worth

Refund(d) ==
  /\ Moves(d, "held", "refunded")
  /\ balance' = [balance EXCEPT ![Payer[d]] = @ + worth[d]]
  /\ UNCHANGED worth

Dispatch(d) == Moves(d, "held", "onItsWay") /\ UNCHANGED <<worth, balance>>

Release(d) ==
  /\ Moves(d, "onItsWay", "released")
  /\ balance' = [balance EXCEPT ![Payee[d]] = @ + worth[d]]
  /\ UNCHANGED worth

Next ==
  \E d \in Deal : \/ Agree(d) \/ Drop(d) \/ Hold(d) \/ Refund(d)
                  \/ Dispatch(d) \/ Release(d)

Spec == Init /\ [][Next]_escrowVars
=============================================================================
