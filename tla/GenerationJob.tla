--------------------------- MODULE GenerationJob ---------------------------
(***************************************************************************)
(* The life of a generation job inside the API (internal/generation:       *)
(* service.go, worker.go, status.go).  Every operation of the service is   *)
(* one MySQL transaction that locks the job's row first (lockJob, SELECT   *)
(* ... FOR UPDATE), so an operation is one action, except where the code   *)
(* does something another transaction can get in front of or a crash can   *)
(* cut in two:                                                             *)
(*                                                                         *)
(*   - Complete stores the model through the asset service, on a           *)
(*     connection of its own, before its transaction commits;              *)
(*   - retry counts the owner's active jobs without locking them, and      *)
(*     commits later;                                                      *)
(*   - FailTimedOut reads the expired jobs once and then fails them one    *)
(*     by one, each in a transaction of its own.                           *)
(*                                                                         *)
(* Operations come from the owner (Create, Cancel, Retry), from workers    *)
(* (Claim, ReportProgress, Fail, Complete) and from the timeout watcher.   *)
(* A worker's call carries the attempt of the message it works on; calls   *)
(* of any earlier attempt may still arrive, and any call may be repeated.  *)
(* Operations that are refused, or answered without a write, are           *)
(* stuttering steps.                                                       *)
(***************************************************************************)
EXTENDS Naturals, Sequences, FiniteSets, JobStatus

CONSTANTS
  Job,            \* job ids
  User,           \* users
  Owner,          \* the user who creates each job
  MaxAttempts,    \* job.MaxAttempts: 3 in the code
  MaxActive,      \* maxActiveJobsPerUser: 5 in the code
  ReportStages,   \* the stages a worker reports
  MaxFaults       \* bound: crashes, lost answers, failed compensations explored

ASSUME ConstantsOK ==
  /\ Owner \in [Job -> User]
  /\ MaxAttempts \in Nat \ {0}
  /\ MaxActive \in Nat \ {0}
  /\ ReportStages \subseteq Stages \ {"QUEUED", "COMPLETED"}
  /\ MaxFaults \in Nat

VARIABLES
  job,        \* table generation_jobs
  outbox,     \* table generation_outbox: the attempts that have a row there
  outputs,    \* table generation_outputs: the attempts whose output is recorded
  assets,     \* the model assets stored for each job, referenced or not
  storing,    \* open Complete transactions that have stored an asset: the attempt
  retrying,   \* open retry transactions that have passed the limit check
  watch,      \* the jobs FailTimedOut has read and not yet failed
  unanswered, \* history: the jobs whose Complete committed without the API
              \* learning it
  faults      \* crashes, lost answers and failed compensations so far

tables == <<job, outbox, outputs, assets>>
vars == <<job, outbox, outputs, assets, storing, retrying, watch, unanswered, faults>>

-----------------------------------------------------------------------------
(* Rows *)

Attempts == 1..MaxAttempts

\* Timestamps are kept only as the watcher tells them apart: null, or younger
\* or older than the timeout.
Row ==
  [status    : Statuses \cup {"NONE"},
   stage     : Stages,
   attempt   : 0..MaxAttempts,
   cancelReq : BOOLEAN,                       \* cancel_requested_at is set
   code      : {"none", "GENERATION_CANCELED", "GENERATION_TIMEOUT", "WORKER"},
   createdAt : {"young", "old"},
   startedAt : {"null", "young", "old"},
   finished  : BOOLEAN]                       \* finished_at is set

NoRow ==
  [status |-> "NONE", stage |-> "QUEUED", attempt |-> 0, cancelReq |-> FALSE,
   code |-> "none", createdAt |-> "young", startedAt |-> "null",
   finished |-> FALSE]

Exists(j) == job[j].status # "NONE"
Active(j) == job[j].status \in ActiveStatuses
ActiveOf(u) == {j \in Job : Owner[j] = u /\ Active(j)}

\* The row's lock is free: no open transaction holds it.
Unlocked(j) == storing[j] = 0 /\ j \notin retrying

\* Create (service.go): the new row.
CreatedRow ==
  [status |-> "QUEUED", stage |-> "QUEUED", attempt |-> 1, cancelReq |-> FALSE,
   code |-> "none", createdAt |-> "young", startedAt |-> "null",
   finished |-> FALSE]

\* markCanceled keeps the stage; from a status that cannot be canceled it is
\* an error (the transaction rolls back) or a no-op.
CanceledRow(r) ==
  IF ValidTransition(r.status, "CANCELED", FALSE)
    THEN [r EXCEPT !.status = "CANCELED", !.code = "GENERATION_CANCELED",
                   !.finished = TRUE]
    ELSE r

\* Each row operator below gives the row after the operation, which is the
\* row before it when the operation is refused or has nothing to write.
\* (Operators with a suffix after "_" are slips of the code, used to see that a
\* property notices them; the specification does not use them.)
ClaimedRow_AlsoFailed(r, a) ==
  IF r.cancelReq THEN CanceledRow(r)
  ELSE IF r.status \in {"QUEUED", "FAILED"} /\ r.attempt = a
    THEN [r EXCEPT !.status = "RUNNING", !.stage = "OPTIMIZING_PROMPT",
                   !.startedAt = "young"]
    ELSE r

ClaimedRow(r, a) ==
  IF r.cancelReq THEN CanceledRow(r)
  ELSE IF r.status = "QUEUED" /\ r.attempt = a
    THEN [r EXCEPT !.status = "RUNNING", !.stage = "OPTIMIZING_PROMPT",
                   !.startedAt = "young"]
    ELSE r

ReportedRow(r, a, stage) ==
  IF r.cancelReq /\ r.status = "RUNNING" THEN CanceledRow(r)
  ELSE IF r.status = "RUNNING" /\ r.attempt = a
    THEN [r EXCEPT !.stage = stage]
    ELSE r

FailedRow_IgnoresCancel(r, a, code) ==
  IF r.status \in ActiveStatuses /\ r.attempt = a
    THEN [r EXCEPT !.status = "FAILED", !.code = code, !.finished = TRUE]
    ELSE r

FailedRow_AnyAttempt(r, a, code) ==
  IF r.cancelReq THEN CanceledRow(r)
  ELSE IF r.status \in ActiveStatuses
    THEN [r EXCEPT !.status = "FAILED", !.code = code, !.finished = TRUE]
    ELSE r

FailedRow(r, a, code) ==
  IF r.cancelReq THEN CanceledRow(r)
  ELSE IF r.status \in ActiveStatuses /\ r.attempt = a
    THEN [r EXCEPT !.status = "FAILED", !.code = code, !.finished = TRUE]
    ELSE r

CancelRequestedRow(r) ==
  CASE r.status = "QUEUED"  -> CanceledRow(r)
    [] r.status = "RUNNING" -> [r EXCEPT !.cancelReq = TRUE]
    [] OTHER                -> r

Deliverable_AnyAttempt(r, a) == r.status = "RUNNING" /\ ~r.cancelReq

Deliverable(r, a) == r.status = "RUNNING" /\ r.attempt = a /\ ~r.cancelReq

SucceededRow(r) ==
  [r EXCEPT !.status = "SUCCEEDED", !.stage = "COMPLETED", !.code = "none",
            !.finished = TRUE]

Retryable_Unbounded(r) == r.status = "FAILED"

Retryable(r) == r.status = "FAILED" /\ r.attempt < MaxAttempts

RequeuedRow_KeepsError(r) ==
  [r EXCEPT !.status = "QUEUED", !.stage = "QUEUED", !.attempt = @ + 1]

\* The columns retry writes; cancel_requested_at and created_at are not among
\* them.
RequeuedRow(r) ==
  [r EXCEPT !.status = "QUEUED", !.stage = "QUEUED", !.attempt = @ + 1,
            !.code = "none", !.startedAt = "null", !.finished = FALSE]

Writes(j, row) == job' = [job EXCEPT ![j] = row]

-----------------------------------------------------------------------------
(* The owner *)

Init ==
  /\ job = [j \in Job |-> NoRow]
  /\ outbox = [j \in Job |-> {}]
  /\ outputs = [j \in Job |-> <<>>]
  /\ assets = [j \in Job |-> 0]
  /\ storing = [j \in Job |-> 0]
  /\ retrying = {}
  /\ watch = {}
  /\ unanswered = {}
  /\ faults = 0

\* Create locks the owner's queued and running rows (the SELECT ... FOR UPDATE
\* before the count), so it waits for the open transactions on those, and for
\* no retry: the row a retry holds is FAILED until it commits.
Create(j) ==
  /\ ~Exists(j)
  /\ \A k \in ActiveOf(Owner[j]) : Unlocked(k)
  /\ Cardinality(ActiveOf(Owner[j])) < MaxActive
  /\ Writes(j, CreatedRow)
  /\ outbox' = [outbox EXCEPT ![j] = @ \cup {1}]
  /\ UNCHANGED <<outputs, assets, storing, retrying, watch, unanswered, faults>>

Cancel(j) ==
  /\ Exists(j) /\ Unlocked(j)
  /\ Writes(j, CancelRequestedRow(job[j]))
  /\ UNCHANGED <<outbox, outputs, assets, storing, retrying, watch, unanswered, faults>>

\* retry, up to the limit check: the row is locked, the count is a plain read.
RetryCheck(j) ==
  /\ Unlocked(j)
  /\ Retryable(job[j])
  /\ Cardinality(ActiveOf(Owner[j])) < MaxActive
  /\ retrying' = retrying \cup {j}
  /\ UNCHANGED <<tables, storing, watch, unanswered, faults>>

RetryCommit_SameAttempt(j) ==
  /\ j \in retrying
  /\ Writes(j, RequeuedRow(job[j]))
  /\ outbox' = [outbox EXCEPT ![j] = @ \cup {job[j].attempt}]
  /\ retrying' = retrying \ {j}
  /\ UNCHANGED <<outputs, assets, storing, watch, unanswered, faults>>

RetryCommit(j) ==
  /\ j \in retrying
  /\ Writes(j, RequeuedRow(job[j]))
  /\ outbox' = [outbox EXCEPT ![j] = @ \cup {job[j].attempt + 1}]
  /\ retrying' = retrying \ {j}
  /\ UNCHANGED <<outputs, assets, storing, watch, unanswered, faults>>

\* A statement of the transaction, or the administrator's audit record in it,
\* fails: everything is rolled back.
RetryRollback(j) ==
  /\ j \in retrying
  /\ retrying' = retrying \ {j}
  /\ UNCHANGED <<tables, storing, watch, unanswered, faults>>

-----------------------------------------------------------------------------
(* Workers *)

Claim(j, a) ==
  /\ Exists(j) /\ Unlocked(j)
  /\ Writes(j, ClaimedRow(job[j], a))
  /\ UNCHANGED <<outbox, outputs, assets, storing, retrying, watch, unanswered, faults>>

ReportProgress(j, a, stage) ==
  /\ Exists(j) /\ Unlocked(j)
  /\ Writes(j, ReportedRow(job[j], a, stage))
  /\ UNCHANGED <<outbox, outputs, assets, storing, retrying, watch, unanswered, faults>>

Fail(j, a) ==
  /\ Exists(j) /\ Unlocked(j)
  /\ Writes(j, FailedRow(job[j], a, "WORKER"))
  /\ UNCHANGED <<outbox, outputs, assets, storing, retrying, watch, unanswered, faults>>

\* Complete on a job whose cancellation was requested: no asset is stored.
CompleteCanceled(j) ==
  /\ Exists(j) /\ Unlocked(j)
  /\ job[j].cancelReq /\ job[j].status # "SUCCEEDED"
  /\ Writes(j, CanceledRow(job[j]))
  /\ UNCHANGED <<outbox, outputs, assets, storing, retrying, watch, unanswered, faults>>

CompletePut_NoLock(j, a) ==
  /\ Deliverable(job[j], a)
  /\ assets' = [assets EXCEPT ![j] = @ + 1]
  /\ storing' = [storing EXCEPT ![j] = a]
  /\ UNCHANGED <<job, outbox, outputs, retrying, watch, unanswered, faults>>

\* Complete, up to and including assets.Put.
CompletePut(j, a) ==
  /\ Unlocked(j)
  /\ Deliverable(job[j], a)
  /\ assets' = [assets EXCEPT ![j] = @ + 1]
  /\ storing' = [storing EXCEPT ![j] = a]
  /\ UNCHANGED <<job, outbox, outputs, retrying, watch, unanswered, faults>>

\* The transaction of Complete takes effect.
Delivers(j) ==
  /\ storing[j] # 0
  /\ Writes(j, SucceededRow(job[j]))
  /\ outputs' = [outputs EXCEPT ![j] = Append(@, storing[j])]
  /\ storing' = [storing EXCEPT ![j] = 0]
  /\ UNCHANGED <<outbox, retrying, watch>>

CompleteCommit(j) ==
  /\ Delivers(j)
  /\ UNCHANGED <<assets, unanswered, faults>>

\* ... but the answer to its COMMIT is lost: Complete takes that for a rollback
\* and deletes the asset the output refers to, unless that deletion fails too.
CompleteUnanswered(j) ==
  /\ Delivers(j)
  /\ faults < MaxFaults
  /\ faults' = faults + 1
  /\ unanswered' = unanswered \cup {j}
  /\ assets' \in {assets, [assets EXCEPT ![j] = @ - 1]}

CompleteRollback_KeepsAsset(j) ==
  /\ storing[j] # 0
  /\ storing' = [storing EXCEPT ![j] = 0]
  /\ UNCHANGED <<tables, retrying, watch, unanswered, faults>>

\* A statement after Put fails: the transaction rolls back, and the stored
\* asset is deleted again.
CompleteRollback(j) ==
  /\ storing[j] # 0
  /\ storing' = [storing EXCEPT ![j] = 0]
  /\ assets' = [assets EXCEPT ![j] = @ - 1]
  /\ UNCHANGED <<job, outbox, outputs, retrying, watch, unanswered, faults>>

\* ... and that deletion fails; its error is dropped.
CompleteRollbackLeak(j) ==
  /\ storing[j] # 0
  /\ faults < MaxFaults
  /\ faults' = faults + 1
  /\ storing' = [storing EXCEPT ![j] = 0]
  /\ UNCHANGED <<tables, retrying, watch, unanswered>>

-----------------------------------------------------------------------------
(* The timeout watcher, the clock and the process *)

TimedOut_RunningOnly(r) == r.status = "RUNNING" /\ r.startedAt = "old"

TimedOut(r) ==
  \/ r.status = "QUEUED"  /\ r.createdAt = "old"
  \/ r.status = "RUNNING" /\ r.startedAt = "old"

\* FailTimedOut: the one query that finds the jobs, with their attempt ...
WatchScan ==
  /\ watch = {}
  /\ \E j \in Job : TimedOut(job[j])
  /\ watch' = {<<j, job[j].attempt>> : j \in {k \in Job : TimedOut(job[k])}}
  /\ UNCHANGED <<tables, storing, retrying, unanswered, faults>>

\* ... and the Fail of each, later, with the attempt that was read.
WatchFail(j, a) ==
  /\ <<j, a>> \in watch
  /\ Unlocked(j)
  /\ Writes(j, FailedRow(job[j], a, "GENERATION_TIMEOUT"))
  /\ watch' = watch \ {<<j, a>>}
  /\ UNCHANGED <<outbox, outputs, assets, storing, retrying, unanswered, faults>>

\* The timeout passes since created_at; since started_at, which is later.
CreatedAges(j) ==
  /\ Exists(j) /\ job[j].createdAt = "young"
  /\ Writes(j, [job[j] EXCEPT !.createdAt = "old"])
  /\ UNCHANGED <<outbox, outputs, assets, storing, retrying, watch, unanswered, faults>>

StartedAges(j) ==
  /\ job[j].startedAt = "young" /\ job[j].createdAt = "old"
  /\ Writes(j, [job[j] EXCEPT !.startedAt = "old"])
  /\ UNCHANGED <<outbox, outputs, assets, storing, retrying, watch, unanswered, faults>>

\* The API process dies and restarts: open transactions roll back, what they
\* did elsewhere stays.
Crash ==
  /\ faults < MaxFaults
  /\ faults' = faults + 1
  /\ storing' = [j \in Job |-> 0]
  /\ retrying' = {}
  /\ watch' = {}
  /\ UNCHANGED <<tables, unanswered>>

Owners(j) ==
  \/ Create(j) \/ Cancel(j)
  \/ RetryCheck(j) \/ RetryCommit(j) \/ RetryRollback(j)

Workers(j) ==
  \/ CompleteCanceled(j) \/ CompleteCommit(j) \/ CompleteUnanswered(j)
  \/ CompleteRollback(j) \/ CompleteRollbackLeak(j)
  \/ \E a \in 1..job[j].attempt :
       \/ Claim(j, a) \/ Fail(j, a) \/ CompletePut(j, a)
       \/ \E stage \in ReportStages : ReportProgress(j, a, stage)

Watcher ==
  \/ WatchScan
  \/ \E j \in Job :
       \/ CreatedAges(j) \/ StartedAges(j)
       \/ \E a \in Attempts : WatchFail(j, a)

Next ==
  \/ \E j \in Job : Owners(j) \/ Workers(j)
  \/ Watcher
  \/ Crash

Spec == Init /\ [][Next]_vars

(***************************************************************************)
(* Fairness: the clock moves, the watcher's ticker fires every ten         *)
(* seconds, an open transaction ends, and a transaction waiting for a row  *)
(* lock gets it although others keep taking it, because InnoDB grants      *)
(* waiting row locks in turn (hence SF).  Neither the owner nor a worker   *)
(* is assumed to do anything.                                              *)
(***************************************************************************)
Fairness ==
  /\ WF_vars(WatchScan)
  /\ \A j \in Job :
       /\ WF_vars(CreatedAges(j)) /\ WF_vars(StartedAges(j))
       /\ WF_vars(CompleteCommit(j) \/ CompleteRollback(j))
       /\ WF_vars(RetryCommit(j) \/ RetryRollback(j))
       /\ \A a \in Attempts : SF_vars(WatchFail(j, a))

FairSpec == Spec /\ Fairness

-----------------------------------------------------------------------------
(* Properties *)

TypeOK ==
  /\ job \in [Job -> Row]
  /\ outbox \in [Job -> SUBSET Attempts]
  /\ outputs \in [Job -> Seq(Attempts)]
  /\ assets \in [Job -> Nat]
  /\ storing \in [Job -> 0..MaxAttempts]
  /\ retrying \in SUBSET Job
  /\ watch \in SUBSET (Job \X Attempts)
  /\ unanswered \in SUBSET Job
  /\ faults \in Nat

\* An accepted cancellation leaves no other end than CANCELED: a job with
\* cancel_requested_at set is still running or is canceled.  It never fails,
\* so a retry, which keeps the column, never requeues a job that would be
\* canceled by the first worker that claims it.
CancelRequestPins ==
  \A j \in Job : job[j].cancelReq => job[j].status \in {"RUNNING", "CANCELED"}

\* A job has an output exactly when it succeeded, exactly one, and that one
\* was delivered by the attempt the job is in: neither a late Complete of an
\* attempt that timed out and was retried nor a repeated Complete adds one.
OutputIffSucceeded ==
  \A j \in Job :
    outputs[j] = IF job[j].status = "SUCCEEDED" THEN <<job[j].attempt>> ELSE <<>>

\* Every attempt ever opened, by Create or by a retry, has its row in the
\* outbox, and no attempt that was not opened has one: no attempt is opened that
\* no message will announce to the workers.
OutboxPerAttempt == \A j \in Job : outbox[j] = 1..job[j].attempt

\* Every recorded output has its asset, unless the answer to the commit that
\* recorded it was lost and Complete deleted the asset of a job that succeeded;
\* and without a crash, a lost answer or a failed compensation no other asset of
\* a job exists, except the one a Complete has just stored and not yet committed.
Referenced(j) == IF storing[j] = 0 THEN Len(outputs[j]) ELSE Len(outputs[j]) + 1

AssetsAccounted ==
  \A j \in Job :
    /\ assets[j] >= Referenced(j) \/ j \in unanswered
    /\ faults = 0 => assets[j] = Referenced(j)

\* Stage, error code and the two timestamps tell the same story as the
\* status, however often the job was retried before.
RowConsistent ==
  \A j \in Job : LET r == job[j] IN
    /\ r.status = "QUEUED" => r.stage = "QUEUED" /\ r.startedAt = "null"
    /\ r.status = "RUNNING" => r.startedAt # "null"
    /\ r.status = "SUCCEEDED" <=> r.stage = "COMPLETED"
    /\ r.finished <=> r.status \in {"SUCCEEDED", "FAILED", "CANCELED"}
    /\ r.code = "GENERATION_CANCELED" <=> r.status = "CANCELED"
    /\ r.code \in {"GENERATION_TIMEOUT", "WORKER"} <=> r.status = "FAILED"

\* The watcher, working through a list that grows stale, fails only attempts
\* that were on it: a job requeued since it was read is in a new attempt and
\* keeps it, and no job is failed for a timeout that has not even passed since it
\* was created.
TimedOutNow(j) ==
  job[j].code # "GENERATION_TIMEOUT" /\ job'[j].code = "GENERATION_TIMEOUT"

TimeoutsEndListedAttempts ==
  [][\A j \in Job : TimedOutNow(j) =>
       <<j, job[j].attempt>> \in watch /\ job[j].createdAt = "old"]_vars

PhaseOf(r) ==
  CASE r.status = "NONE"                     -> "none"
    [] r.status = "QUEUED"                   -> "open"
    [] r.status = "RUNNING" /\ ~r.cancelReq  -> "open"
    [] r.status = "RUNNING" /\ r.cancelReq   -> "canceling"
    [] r.status = "SUCCEEDED"                -> "delivered"
    [] r.status = "FAILED"                   -> "failed"
    [] r.status = "CANCELED"                 -> "canceled"

Lifecycle == INSTANCE JobLifecycle
  WITH phase <- [j \in Job |-> PhaseOf(job[j])],
       tries <- [j \in Job |-> job[j].attempt]

\* The service keeps the promise JobLifecycle states to the owner of a job.
LifecycleKept == Lifecycle!Spec

\* No job stays queued or running for ever, even if no worker ever picks it up
\* or the one that did is gone: the watcher ends every attempt.
AttemptsEnd == \A j \in Job : Active(j) ~> ~Active(j)

\* A cancellation of a running job takes effect although nobody but the
\* watcher ever calls the API again.
CancelLands == \A j \in Job : job[j].cancelReq ~> job[j].status = "CANCELED"

\* UNFINISHED_PHASES.md:383: an owner never has more than the limit of queued
\* and running jobs, counting those created and those retried.
ActiveLimit == \A u \in User : Cardinality(ActiveOf(u)) <= MaxActive
=============================================================================
