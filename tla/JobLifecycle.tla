---------------------------- MODULE JobLifecycle ----------------------------
(***************************************************************************)
(* What the generation service promises the owner of a job, whatever its   *)
(* workers, its timeout watcher and its retries do behind the API:         *)
(*                                                                         *)
(*   - an open job ends delivered, failed or canceled;                     *)
(*   - once a cancellation was accepted, canceled is the only end left;    *)
(*   - delivered and canceled are final;                                   *)
(*   - a failed job is reopened only by a retry, which opens the next of   *)
(*     at most MaxAttempts attempts.                                       *)
(*                                                                         *)
(* GenerationJob implements it (Lifecycle!Spec there).                     *)
(***************************************************************************)
EXTENDS Naturals

CONSTANTS Job, MaxAttempts

VARIABLES phase,    \* what the owner sees of each job
          tries     \* the attempts opened so far

lifecycleVars == <<phase, tries>>

Phases == {"none", "open", "canceling", "delivered", "failed", "canceled"}

Moves(j, from, to) ==
  /\ phase[j] \in from
  /\ phase' = [phase EXCEPT ![j] = to]

Init ==
  /\ phase = [j \in Job |-> "none"]
  /\ tries = [j \in Job |-> 0]

Submit(j) ==
  /\ Moves(j, {"none"}, "open")
  /\ tries' = [tries EXCEPT ![j] = 1]

Deliver(j)      == Moves(j, {"open"}, "delivered")             /\ UNCHANGED tries
GiveUp(j)       == Moves(j, {"open"}, "failed")                /\ UNCHANGED tries
AcceptCancel(j) == Moves(j, {"open"}, "canceling")             /\ UNCHANGED tries
Withdraw(j)     == Moves(j, {"open", "canceling"}, "canceled") /\ UNCHANGED tries

Reopen(j) ==
  /\ Moves(j, {"failed"}, "open")
  /\ tries[j] < MaxAttempts
  /\ tries' = [tries EXCEPT ![j] = @ + 1]

Next ==
  \E j \in Job : \/ Submit(j) \/ Deliver(j) \/ GiveUp(j)
                 \/ AcceptCancel(j) \/ Withdraw(j) \/ Reopen(j)

Spec == Init /\ [][Next]_lifecycleVars
=============================================================================
