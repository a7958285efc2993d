------------------------ MODULE GenerationJobProofs ------------------------
(***************************************************************************)
(* Theorems about GenerationJob, for any set of jobs, users and bounds.    *)
(***************************************************************************)
EXTENDS GenerationJob, FiniteSetTheorems, TLAPS

(***************************************************************************)
(* The inductive invariant.  The properties TLC checks are not inductive   *)
(* on their own: an open transaction acts on what it read when it took the *)
(* row's lock, so the invariant says that what it read still holds         *)
(* (LockedRows); and the watcher's verdict on a running job is about       *)
(* started_at, which is never older than created_at (in RowInv).           *)
(***************************************************************************)
RowInv(r) ==
  /\ r \in Row
  /\ r.cancelReq => r.status \in {"RUNNING", "CANCELED"}
  /\ r.status = "QUEUED" => r.stage = "QUEUED" /\ r.startedAt = "null"
  /\ r.status = "RUNNING" => r.startedAt # "null"
  /\ r.status = "SUCCEEDED" <=> r.stage = "COMPLETED"
  /\ r.finished <=> r.status \in {"SUCCEEDED", "FAILED", "CANCELED"}
  /\ r.code = "GENERATION_CANCELED" <=> r.status = "CANCELED"
  /\ r.code \in {"GENERATION_TIMEOUT", "WORKER"} <=> r.status = "FAILED"
  /\ r.code = "GENERATION_TIMEOUT" => r.createdAt = "old"
  /\ r.startedAt = "old" => r.createdAt = "old"
  /\ r.status = "NONE" <=> r.attempt = 0
  /\ r.status = "NONE" => r = NoRow

AllRows == \A j \in Job : RowInv(job[j])

LockedRows ==
  \A j \in Job :
    /\ storing[j] # 0 => Deliverable(job[j], storing[j]) /\ j \notin retrying
    /\ j \in retrying => Retryable(job[j])

WatchedOld == \A w \in watch : job[w[1]].createdAt = "old"

\* A job whose delivery the API did not learn of was delivered, after a fault.
UnansweredDone ==
  /\ \A j \in unanswered : job[j].status = "SUCCEEDED"
  /\ unanswered # {} => faults # 0

IInv ==
  /\ TypeOK
  /\ AllRows
  /\ LockedRows
  /\ OutputIffSucceeded
  /\ OutboxPerAttempt
  /\ AssetsAccounted
  /\ WatchedOld
  /\ UnansweredDone

-----------------------------------------------------------------------------
(* Rows *)

\* What any operation that neither delivers nor creates does to a row: it keeps
\* it consistent, neither reaches nor leaves SUCCEEDED, and makes nothing young.
RowStep(r, s) ==
  /\ RowInv(s)
  /\ s.status = "SUCCEEDED" <=> r.status = "SUCCEEDED"
  /\ r.status = "SUCCEEDED" => s.attempt = r.attempt
  /\ r.createdAt = "old" => s.createdAt = "old"

\* ... and, for all of them but a retry, within the same attempt.
KeptStep(r, s) == RowStep(r, s) /\ s.attempt = r.attempt

\* markCanceled cancels what can be canceled and leaves every other row alone.
LEMMA CanceledRowStep ==
  ASSUME NEW r, RowInv(r)
  PROVE  KeptStep(r, CanceledRow(r))
  <1>1. ValidTransition(r.status, "CANCELED", FALSE)
          <=> r.status \in {"QUEUED", "RUNNING"}
    BY DEF ValidTransition, Transitions
  <1>2. CASE r.status \in {"QUEUED", "RUNNING"}
    BY <1>1, <1>2 DEF RowInv, Row, RowStep, KeptStep, CanceledRow, Statuses, Stages, NoRow
  <1>3. CASE r.status \notin {"QUEUED", "RUNNING"}
    BY <1>1, <1>3 DEF RowInv, RowStep, KeptStep, CanceledRow
  <1>4. QED
    BY <1>2, <1>3

\* Claim starts a queued attempt, or lands a cancellation.
LEMMA ClaimedRowStep ==
  ASSUME NEW r, RowInv(r), NEW a \in Attempts
  PROVE  KeptStep(r, ClaimedRow(r, a))
  <1>1. CASE r.cancelReq
    BY <1>1, CanceledRowStep DEF ClaimedRow
  <1>2. CASE ~r.cancelReq
    BY <1>2 DEF RowInv, Row, RowStep, KeptStep, ClaimedRow, Statuses, Stages, NoRow, Attempts
  <1>3. QED
    BY <1>1, <1>2

\* A progress report never makes a row look finished or queued: ReportStages
\* excludes the first and the last stage.
LEMMA ReportedRowStep ==
  ASSUME NEW r, RowInv(r), NEW a \in Attempts, NEW stage \in ReportStages
  PROVE  KeptStep(r, ReportedRow(r, a, stage))
  <1>1. CASE r.cancelReq /\ r.status = "RUNNING"
    BY <1>1, CanceledRowStep DEF ReportedRow
  <1>2. CASE ~(r.cancelReq /\ r.status = "RUNNING")
    BY <1>2, ConstantsOK
       DEF RowInv, Row, RowStep, KeptStep, ReportedRow, Statuses, Stages, NoRow, Attempts
  <1>3. QED
    BY <1>1, <1>2

\* A timeout is only ever written to a row created longer than that ago.
LEMMA FailedRowStep ==
  ASSUME NEW r, RowInv(r), NEW a \in Attempts,
         NEW code \in {"WORKER", "GENERATION_TIMEOUT"},
         code = "GENERATION_TIMEOUT" => r.createdAt = "old"
  PROVE  KeptStep(r, FailedRow(r, a, code))
  <1>1. CASE r.cancelReq
    BY <1>1, CanceledRowStep DEF FailedRow
  <1>2. CASE ~r.cancelReq
    BY <1>2 DEF RowInv, Row, RowStep, KeptStep, FailedRow, Statuses, Stages, NoRow,
                Attempts, ActiveStatuses
  <1>3. QED
    BY <1>1, <1>2

\* Cancel ends a queued job and marks a running one.
LEMMA CancelRequestedRowStep ==
  ASSUME NEW r, RowInv(r)
  PROVE  KeptStep(r, CancelRequestedRow(r))
  <1>1. CASE r.status = "QUEUED"
    BY <1>1, CanceledRowStep DEF CancelRequestedRow
  <1>2. CASE r.status = "RUNNING"
    BY <1>2 DEF RowInv, Row, RowStep, KeptStep, CancelRequestedRow, Statuses, Stages, NoRow
  <1>3. CASE r.status \notin {"QUEUED", "RUNNING"}
    BY <1>3 DEF RowInv, RowStep, KeptStep, CancelRequestedRow
  <1>4. QED
    BY <1>1, <1>2, <1>3

\* A retry resets every column that told of the attempt before; the row had no
\* cancellation request, or it would not be FAILED.
LEMMA RequeuedRowStep ==
  ASSUME NEW r, RowInv(r), Retryable(r)
  PROVE  RowStep(r, RequeuedRow(r))
  <1>1. r \in Row /\ r.attempt \in 0..MaxAttempts /\ r.attempt < MaxAttempts
    BY DEF RowInv, Row, Retryable
  <1>2. r.attempt + 1 \in 0..MaxAttempts /\ r.attempt + 1 # 0
    BY <1>1, ConstantsOK
  <1>3. RequeuedRow(r) \in Row
    BY <1>1, <1>2 DEF RequeuedRow, Row, Statuses, Stages
  <1>4. /\ RequeuedRow(r).status = "QUEUED" /\ RequeuedRow(r).stage = "QUEUED"
        /\ RequeuedRow(r).attempt = r.attempt + 1
        /\ RequeuedRow(r).cancelReq = r.cancelReq
        /\ RequeuedRow(r).code = "none"
        /\ RequeuedRow(r).createdAt = r.createdAt
        /\ RequeuedRow(r).startedAt = "null"
        /\ RequeuedRow(r).finished = FALSE
    BY <1>1 DEF RequeuedRow, Row
  <1>5. ~r.cancelReq /\ r.status = "FAILED"
    BY <1>1 DEF RowInv, Row, Retryable
  <1>6. QED
    BY <1>2, <1>3, <1>4, <1>5 DEF RowInv, RowStep

\* Create inserts a consistent row.
LEMMA CreatedRowInv ==
  RowInv(CreatedRow)
  <1>1. 1 \in 0..MaxAttempts
    BY ConstantsOK
  <1>2. CreatedRow \in Row
    BY <1>1 DEF CreatedRow, Row, Statuses, Stages
  <1>3. QED
    BY <1>2 DEF RowInv, CreatedRow

-----------------------------------------------------------------------------
(* Steps *)

\* Empty tables satisfy the invariant.
LEMMA InitIInv == Init => IInv
  <1> SUFFICES ASSUME Init PROVE IInv
    OBVIOUS
  <1>1. NoRow \in Row
    BY ConstantsOK DEF NoRow, Row, Statuses, Stages
  <1>2. RowInv(NoRow)
    BY <1>1 DEF RowInv, NoRow
  <1>3. TypeOK
    BY <1>1, ConstantsOK DEF Init, TypeOK
  <1>4. AllRows
    BY <1>2 DEF Init, AllRows
  <1>5. LockedRows /\ WatchedOld /\ UnansweredDone /\ OutputIffSucceeded /\ AssetsAccounted
    BY DEF Init, LockedRows, WatchedOld, UnansweredDone, OutputIffSucceeded, AssetsAccounted,
           Referenced, NoRow
  <1>6. OutboxPerAttempt
    BY DEF Init, OutboxPerAttempt, NoRow
  <1>7. QED
    BY <1>3, <1>4, <1>5, <1>6 DEF IInv

\* Every operation that rewrites one row keeps the invariant when what it does
\* to the row is a RowStep, and either no open transaction holds the row's lock
\* afterwards or what such a transaction has read is untouched.
LEMMA WriteKeepsIInv ==
  ASSUME IInv, NEW j \in Job, NEW row, RowStep(job[j], row), Writes(j, row),
         \/ storing[j] = 0 /\ j \notin retrying'
         \/ /\ row.status = job[j].status /\ row.attempt = job[j].attempt
            /\ row.cancelReq = job[j].cancelReq,
         outbox' = [outbox EXCEPT ![j] = 1..row.attempt],
         retrying' \subseteq retrying, watch' \subseteq watch,
         UNCHANGED <<outputs, assets, storing, unanswered, faults>>
  PROVE  IInv'
  <1>1. job \in [Job -> Row] /\ row \in Row
    BY DEF IInv, TypeOK, RowStep, RowInv
  <1>2. job'[j] = row /\ \A k \in Job : k # j => job'[k] = job[k]
    BY <1>1 DEF Writes
  <1>3. job' \in [Job -> Row]
    BY <1>1 DEF Writes
  <1>4. TypeOK'
    <2>1. row.attempt \in 0..MaxAttempts
      BY <1>1 DEF Row
    <2>2. 1..row.attempt \subseteq Attempts
      BY <2>1, ConstantsOK DEF Attempts
    <2>3. outbox' \in [Job -> SUBSET Attempts]
      BY <2>2 DEF IInv, TypeOK
    <2>4. QED
      BY <1>3, <2>3 DEF IInv, TypeOK
  <1>5. AllRows' /\ OutboxPerAttempt'
    BY <1>2 DEF IInv, AllRows, RowStep, OutboxPerAttempt, TypeOK
  <1>6. LockedRows'
    BY <1>2 DEF IInv, LockedRows, Deliverable, Retryable
  <1>7. OutputIffSucceeded'
    BY <1>2 DEF IInv, OutputIffSucceeded, RowStep
  <1>8. AssetsAccounted'
    BY DEF IInv, AssetsAccounted, Referenced
  <1>9. WatchedOld'
    <2> SUFFICES ASSUME NEW w \in watch' PROVE job'[w[1]].createdAt = "old"
      BY DEF WatchedOld
    <2>1. w[1] \in Job /\ job[w[1]].createdAt = "old"
      BY DEF IInv, TypeOK, WatchedOld
    <2>2. QED
      BY <1>2, <2>1 DEF RowStep
  <1>10. UnansweredDone'
    BY <1>2 DEF IInv, UnansweredDone, RowStep, TypeOK
  <1>11. QED
    BY <1>4, <1>5, <1>6, <1>7, <1>8, <1>9, <1>10 DEF IInv

\* The same for an operation that stays within the attempt, and so leaves the
\* outbox alone, on a row no transaction has locked.
LEMMA KeptWriteKeepsIInv ==
  ASSUME IInv, NEW j \in Job, NEW row, KeptStep(job[j], row), Writes(j, row),
         \/ Unlocked(j)
         \/ row.status = job[j].status /\ row.cancelReq = job[j].cancelReq,
         watch' \subseteq watch,
         UNCHANGED <<outbox, outputs, assets, storing, retrying, unanswered, faults>>
  PROVE  IInv'
  <1>1. outbox' = [outbox EXCEPT ![j] = 1..row.attempt]
    BY DEF IInv, TypeOK, OutboxPerAttempt, KeptStep
  <1>2. RowStep(job[j], row) /\ row.attempt = job[j].attempt
    BY DEF KeptStep
  <1>3. QED
    BY <1>1, <1>2, WriteKeepsIInv DEF Unlocked

\* CompletePut opens a transaction on a deliverable row.
LEMMA CompletePutKeepsIInv ==
  ASSUME IInv, NEW j \in Job, NEW a \in Attempts, CompletePut(j, a)
  PROVE  IInv'
  <1> USE DEF CompletePut, IInv
  <1>1. TypeOK'
    BY DEF TypeOK, Attempts
  <1>2. AllRows' /\ WatchedOld' /\ UnansweredDone' /\ OutputIffSucceeded' /\ OutboxPerAttempt'
    BY DEF AllRows, WatchedOld, UnansweredDone, OutputIffSucceeded, OutboxPerAttempt
  <1>3. LockedRows'
    BY DEF LockedRows, Unlocked, Deliverable, TypeOK
  <1>4. AssetsAccounted'
    <2>1. /\ assets' \in [Job -> Nat] /\ storing' \in [Job -> 0..MaxAttempts]
          /\ storing[j] = 0 /\ storing'[j] # 0
          /\ assets'[j] = assets[j] + 1
          /\ \A k \in Job : k # j => /\ storing'[k] = storing[k]
                                     /\ assets'[k] = assets[k]
      BY <1>1 DEF TypeOK, Unlocked, Attempts
    <2>2. \A k \in Job : Len(outputs[k]) \in Nat /\ outputs'[k] = outputs[k]
      BY DEF TypeOK
    <2>3. QED
      BY <2>1, <2>2 DEF AssetsAccounted, Referenced, TypeOK
  <1>5. QED
    BY <1>1, <1>2, <1>3, <1>4

\* The transaction of Complete delivers: the row LockedRows speaks of becomes
\* SUCCEEDED and gets its one output.
LEMMA DeliversFacts ==
  ASSUME IInv, NEW j \in Job, Delivers(j)
  PROVE  /\ job' \in [Job -> Row]
         /\ outputs' \in [Job -> Seq(Attempts)]
         /\ storing' \in [Job -> 0..MaxAttempts]
         /\ AllRows' /\ OutboxPerAttempt' /\ LockedRows' /\ OutputIffSucceeded'
         /\ WatchedOld'
         /\ job[j].status = "RUNNING" /\ job'[j].status = "SUCCEEDED"
         /\ \A k \in Job : k # j => job'[k] = job[k]
         /\ \A k \in Job : Referenced(k)' = Referenced(k)
         /\ Referenced(j) = 1
  <1> DEFINE r == job[j]
             s == SucceededRow(r)
  <1>1. /\ r.status = "RUNNING" /\ r.attempt = storing[j] /\ ~r.cancelReq
        /\ j \notin retrying /\ storing[j] \in Attempts /\ RowInv(r)
        /\ outputs[j] = <<>>
    BY DEF Delivers, IInv, LockedRows, Deliverable, TypeOK, Attempts,
           AllRows, OutputIffSucceeded
  <1>2. /\ RowInv(s) /\ s.status = "SUCCEEDED"
        /\ s.attempt = r.attempt /\ s.createdAt = r.createdAt
    BY <1>1 DEF SucceededRow, RowInv, Row, Statuses, Stages
  <1>3. /\ job' \in [Job -> Row] /\ job'[j] = s
        /\ \A k \in Job : k # j => job'[k] = job[k]
    BY <1>2 DEF Delivers, Writes, IInv, TypeOK, RowInv
  <1>4. /\ outputs' \in [Job -> Seq(Attempts)] /\ outputs'[j] = <<r.attempt>>
        /\ \A k \in Job : k # j => outputs'[k] = outputs[k]
    BY <1>1 DEF Delivers, IInv, TypeOK
  <1>5. /\ storing' \in [Job -> 0..MaxAttempts] /\ storing'[j] = 0
        /\ \A k \in Job : k # j => storing'[k] = storing[k]
    BY ConstantsOK DEF Delivers, IInv, TypeOK
  <1>6. UNCHANGED <<outbox, retrying, watch>>
    BY DEF Delivers
  <1>7. AllRows' /\ OutboxPerAttempt'
    BY <1>2, <1>3, <1>6 DEF IInv, AllRows, OutboxPerAttempt
  <1>8. LockedRows'
    BY <1>1, <1>3, <1>5, <1>6 DEF IInv, LockedRows
  <1>9. OutputIffSucceeded'
    BY <1>2, <1>3, <1>4 DEF IInv, OutputIffSucceeded
  <1>10. Referenced(j) = 1 /\ Referenced(j)' = 1
    <2>1. Len(outputs[j]) = 0 /\ Len(outputs'[j]) = 1 /\ storing[j] # 0 /\ storing'[j] = 0
      BY <1>1, <1>4, <1>5 DEF Attempts
    <2>2. QED
      BY <2>1 DEF Referenced
  <1>11. ASSUME NEW k \in Job, k # j PROVE Referenced(k)' = Referenced(k)
    BY <1>4, <1>5, <1>11 DEF Referenced
  <1>12. WatchedOld'
    BY <1>2, <1>3, <1>6 DEF IInv, WatchedOld, TypeOK
  <1>13. QED
    BY <1>1, <1>2, <1>3, <1>4, <1>5, <1>7, <1>8, <1>9, <1>10, <1>11, <1>12

LEMMA CompleteCommitKeepsIInv ==
  ASSUME IInv, NEW j \in Job, CompleteCommit(j)
  PROVE  IInv'
  <1>1. Delivers(j) /\ UNCHANGED <<assets, unanswered, faults>>
    BY DEF CompleteCommit
  <1>2. UNCHANGED <<outbox, retrying, watch>>
    BY <1>1 DEF Delivers
  <1>3. /\ AllRows' /\ OutboxPerAttempt' /\ LockedRows' /\ OutputIffSucceeded'
        /\ WatchedOld'
    BY <1>1, DeliversFacts
  <1>4. TypeOK'
    BY <1>1, <1>2, DeliversFacts DEF IInv, TypeOK
  <1>5. AssetsAccounted'
    <2>1. \A k \in Job : Referenced(k)' = Referenced(k)
      BY <1>1, DeliversFacts
    <2>2. assets' = assets /\ unanswered' = unanswered /\ faults' = faults
      BY <1>1
    <2>3. QED
      BY <2>1, <2>2 DEF IInv, AssetsAccounted
  <1>6. UnansweredDone'
    <2>1. job'[j].status = "SUCCEEDED" /\ \A k \in Job : k # j => job'[k] = job[k]
      BY <1>1, DeliversFacts
    <2>2. QED
      BY <1>1, <2>1 DEF IInv, UnansweredDone, TypeOK
  <1>7. QED
    BY <1>3, <1>4, <1>5, <1>6 DEF IInv

\* A commit whose answer is lost: the output may be left without its asset, and
\* the job is on record as such.
LEMMA CompleteUnansweredKeepsIInv ==
  ASSUME IInv, NEW j \in Job, CompleteUnanswered(j)
  PROVE  IInv'
  <1>1. Delivers(j) /\ faults' = faults + 1 /\ unanswered' = unanswered \cup {j}
    BY DEF CompleteUnanswered
  <1>2. UNCHANGED <<outbox, retrying, watch>>
    BY <1>1 DEF Delivers
  <1>3. /\ AllRows' /\ OutboxPerAttempt' /\ LockedRows' /\ OutputIffSucceeded'
        /\ WatchedOld'
    BY <1>1, DeliversFacts
  <1>4. /\ \A k \in Job : Referenced(k)' = Referenced(k)
        /\ Referenced(j) = 1
        /\ job[j].status = "RUNNING" /\ job'[j].status = "SUCCEEDED"
        /\ \A k \in Job : k # j => job'[k] = job[k]
    BY <1>1, DeliversFacts
  <1>5. faults' \in Nat /\ faults' # 0
    BY <1>1 DEF IInv, TypeOK
  <1>6. j \notin unanswered
    BY <1>4 DEF IInv, UnansweredDone
  <1>7. assets[j] \in Nat /\ assets[j] >= 1
    BY <1>4, <1>6 DEF IInv, AssetsAccounted, TypeOK
  <1>8. assets' \in [Job -> Nat] /\ \A k \in Job : k # j => assets'[k] = assets[k]
    <2>1. CASE assets' = assets
      BY <2>1 DEF IInv, TypeOK
    <2>2. CASE assets' = [assets EXCEPT ![j] = @ - 1]
      BY <1>7, <2>2 DEF IInv, TypeOK
    <2>3. QED
      BY <2>1, <2>2 DEF CompleteUnanswered
  <1>9. TypeOK'
    BY <1>1, <1>2, <1>5, <1>8, DeliversFacts DEF IInv, TypeOK
  <1>10. AssetsAccounted'
    <2>1. ASSUME NEW k \in Job PROVE assets'[k] >= Referenced(k)' \/ k \in unanswered'
      <3>1. CASE k = j
        BY <1>1, <3>1
      <3>2. CASE k # j
        BY <1>1, <1>4, <1>8, <3>2 DEF IInv, AssetsAccounted
      <3>3. QED
        BY <3>1, <3>2
    <2>2. QED
      BY <1>5, <2>1 DEF AssetsAccounted
  <1>11. UnansweredDone'
    BY <1>1, <1>4, <1>5 DEF IInv, UnansweredDone, TypeOK
  <1>12. QED
    BY <1>3, <1>9, <1>10, <1>11 DEF IInv

\* The two ways a Complete rolls back.
LEMMA CompleteRollbackKeepsIInv ==
  ASSUME IInv, NEW j \in Job, CompleteRollback(j) \/ CompleteRollbackLeak(j)
  PROVE  IInv'
  <1>1. /\ storing[j] # 0 /\ storing' = [storing EXCEPT ![j] = 0]
        /\ UNCHANGED <<job, outbox, outputs, retrying, watch, unanswered>>
    BY DEF CompleteRollback, CompleteRollbackLeak, tables
  <1>2. AllRows' /\ WatchedOld' /\ OutputIffSucceeded' /\ OutboxPerAttempt'
    BY <1>1 DEF IInv, AllRows, WatchedOld, OutputIffSucceeded, OutboxPerAttempt
  <1>3. LockedRows'
    BY <1>1 DEF IInv, LockedRows, TypeOK
  <1>4. storing' \in [Job -> 0..MaxAttempts]
    BY <1>1, ConstantsOK DEF IInv, TypeOK
  <1>5. \A k \in Job : Len(outputs[k]) \in Nat /\ assets[k] \in Nat
    BY DEF IInv, TypeOK
  <1>6. assets[j] >= Len(outputs[j]) + 1
    <2>1. j \notin unanswered
      BY <1>1 DEF IInv, UnansweredDone, LockedRows, Deliverable
    <2>2. QED
      BY <1>1, <2>1 DEF IInv, AssetsAccounted, Referenced
  <1>7. CASE CompleteRollback(j)
    <2>1. /\ assets' \in [Job -> Nat] /\ assets'[j] = assets[j] - 1
          /\ \A k \in Job : k # j => assets'[k] = assets[k]
          /\ faults' = faults
      BY <1>5, <1>6, <1>7 DEF CompleteRollback, IInv, TypeOK
    <2>2. TypeOK'
      BY <1>1, <1>4, <2>1 DEF IInv, TypeOK
    <2>3. AssetsAccounted'
      BY <1>1, <1>5, <2>1 DEF IInv, AssetsAccounted, Referenced, TypeOK
    <2>4. UnansweredDone'
      BY <1>1, <2>1 DEF IInv, UnansweredDone
    <2>5. QED
      BY <1>2, <1>3, <2>2, <2>3, <2>4 DEF IInv
  <1>8. CASE CompleteRollbackLeak(j)
    <2>1. assets' = assets /\ faults' = faults + 1 /\ faults' \in Nat /\ faults' # 0
      BY <1>8 DEF CompleteRollbackLeak, tables, IInv, TypeOK
    <2>2. TypeOK'
      BY <1>1, <1>4, <2>1 DEF IInv, TypeOK
    <2>3. AssetsAccounted'
      BY <1>1, <1>5, <2>1 DEF IInv, AssetsAccounted, Referenced, TypeOK
    <2>4. UnansweredDone'
      BY <1>1, <2>1 DEF IInv, UnansweredDone
    <2>5. QED
      BY <1>2, <1>3, <2>2, <2>3, <2>4 DEF IInv
  <1>9. QED
    BY <1>7, <1>8

\* A crash may leave assets behind, which the invariant allows once faults # 0.
LEMMA CrashKeepsIInv ==
  ASSUME IInv, Crash
  PROVE  IInv'
  <1>1. /\ UNCHANGED <<job, outbox, outputs, assets, unanswered>>
        /\ storing' = [j \in Job |-> 0] /\ retrying' = {} /\ watch' = {}
        /\ faults' = faults + 1
    BY DEF Crash, tables
  <1>2. TypeOK'
    BY <1>1, ConstantsOK DEF IInv, TypeOK
  <1>3. AllRows' /\ LockedRows' /\ OutputIffSucceeded' /\ OutboxPerAttempt' /\ WatchedOld'
    BY <1>1 DEF IInv, AllRows, LockedRows, OutputIffSucceeded, OutboxPerAttempt, WatchedOld
  <1>4. AssetsAccounted'
    <2>1. \A k \in Job : Len(outputs[k]) \in Nat /\ assets[k] \in Nat
      BY DEF IInv, TypeOK
    <2>2. faults' # 0
      BY <1>1 DEF IInv, TypeOK
    <2>3. \A k \in Job : storing'[k] = 0
      BY <1>1
    <2>4. \A k \in Job : assets[k] >= Len(outputs[k]) \/ k \in unanswered
      <3> SUFFICES ASSUME NEW k \in Job, k \notin unanswered PROVE assets[k] >= Len(outputs[k])
        OBVIOUS
      <3>1. assets[k] >= Referenced(k)
        BY DEF IInv, AssetsAccounted
      <3>2. Referenced(k) >= Len(outputs[k]) /\ Referenced(k) \in Nat
        BY <2>1 DEF Referenced
      <3>3. QED
        BY <2>1, <3>1, <3>2
    <2>5. \A k \in Job : Referenced(k)' = Len(outputs[k])
      BY <1>1, <2>1, <2>3 DEF Referenced
    <2>6. QED
      BY <1>1, <2>2, <2>4, <2>5 DEF AssetsAccounted
  <1>5. UnansweredDone'
    BY <1>1 DEF IInv, UnansweredDone, TypeOK
  <1>6. QED
    BY <1>2, <1>3, <1>4, <1>5 DEF IInv

\* What the watcher reads is older than the timeout, because started_at is not
\* before created_at.
LEMMA WatchScanKeepsIInv ==
  ASSUME IInv, WatchScan
  PROVE  IInv'
  <1>1. UNCHANGED <<job, outbox, outputs, assets, storing, retrying, unanswered, faults>>
    BY DEF WatchScan, tables
  <1>2. \A w \in watch' : /\ w \in Job \X Attempts
                          /\ job[w[1]].createdAt = "old"
    <2> SUFFICES ASSUME NEW k \in Job, TimedOut(job[k])
                 PROVE  /\ <<k, job[k].attempt>> \in Job \X Attempts
                        /\ job[k].createdAt = "old"
      BY DEF WatchScan
    <2>1. RowInv(job[k])
      BY DEF IInv, AllRows
    <2>2. QED
      BY <2>1 DEF RowInv, Row, TimedOut, Attempts
  <1>3. TypeOK'
    BY <1>1, <1>2 DEF IInv, TypeOK
  <1>4. /\ AllRows' /\ LockedRows' /\ OutputIffSucceeded' /\ OutboxPerAttempt'
        /\ AssetsAccounted' /\ UnansweredDone'
    BY <1>1 DEF IInv, AllRows, LockedRows, OutputIffSucceeded, OutboxPerAttempt,
                AssetsAccounted, Referenced, UnansweredDone
  <1>5. WatchedOld'
    BY <1>1, <1>2 DEF WatchedOld
  <1>6. QED
    BY <1>3, <1>4, <1>5 DEF IInv

\* The invariant is inductive.
LEMMA NextKeepsIInv == IInv /\ [Next]_vars => IInv'
  <1> SUFFICES ASSUME IInv, [Next]_vars PROVE IInv'
    OBVIOUS
  <1>0. /\ \A j \in Job : RowInv(job[j])
        /\ \A j \in Job : 1..job[j].attempt \subseteq Attempts
        /\ \A j \in Job : job[j].attempt \in 0..MaxAttempts
    BY ConstantsOK DEF IInv, AllRows, RowInv, Row, Attempts
  <1>1. ASSUME NEW j \in Job, Create(j) PROVE IInv'
    <2>1. RowStep(job[j], CreatedRow)
      BY <1>0, <1>1, CreatedRowInv DEF Create, Exists, RowStep, RowInv, NoRow, CreatedRow
    <2>2. outbox' = [outbox EXCEPT ![j] = 1..CreatedRow.attempt]
      <3>1. job[j].attempt = 0
        BY <1>0, <1>1 DEF Create, Exists, RowInv
      <3>2. outbox[j] = {} /\ 1..CreatedRow.attempt = {1}
        BY <3>1 DEF IInv, OutboxPerAttempt, CreatedRow
      <3>3. QED
        BY <1>1, <3>2 DEF Create, IInv, TypeOK
    <2>3. storing[j] = 0 /\ j \notin retrying
      BY <1>1 DEF Create, Exists, IInv, LockedRows, Deliverable, Retryable
    <2>4. QED
      BY <1>1, <2>1, <2>2, <2>3, WriteKeepsIInv DEF Create
  <1>2. ASSUME NEW j \in Job, Cancel(j) PROVE IInv'
    BY <1>0, <1>2, CancelRequestedRowStep, KeptWriteKeepsIInv DEF Cancel
  <1>3. ASSUME NEW j \in Job, RetryCheck(j) PROVE IInv'
    <2>1. UNCHANGED <<job, outbox, outputs, assets, storing, watch, unanswered, faults>>
      BY <1>3 DEF RetryCheck, tables
    <2>2. /\ TypeOK' /\ AllRows' /\ OutputIffSucceeded' /\ OutboxPerAttempt'
          /\ AssetsAccounted' /\ WatchedOld' /\ UnansweredDone'
      BY <1>3, <2>1 DEF RetryCheck, IInv, TypeOK, AllRows, OutputIffSucceeded,
                        OutboxPerAttempt, AssetsAccounted, Referenced, WatchedOld,
                        UnansweredDone
    <2>3. LockedRows'
      BY <1>3, <2>1 DEF RetryCheck, Unlocked, IInv, LockedRows
    <2>4. QED
      BY <2>2, <2>3 DEF IInv
  <1>4. ASSUME NEW j \in Job, RetryCommit(j) PROVE IInv'
    <2>1. Retryable(job[j]) /\ storing[j] = 0
      BY <1>4 DEF RetryCommit, IInv, LockedRows
    <2>2. RowStep(job[j], RequeuedRow(job[j]))
      BY <1>0, <2>1, RequeuedRowStep
    <2>3. outbox' = [outbox EXCEPT ![j] = 1..RequeuedRow(job[j]).attempt]
      <3>1. RequeuedRow(job[j]).attempt = job[j].attempt + 1
        BY <1>0 DEF RequeuedRow, RowInv, Row
      <3>2. outbox[j] \cup {job[j].attempt + 1} = 1..(job[j].attempt + 1)
        BY <1>0 DEF IInv, OutboxPerAttempt
      <3>3. QED
        BY <1>4, <3>1, <3>2 DEF RetryCommit, IInv, TypeOK
    <2>4. QED
      BY <1>4, <2>1, <2>2, <2>3, WriteKeepsIInv DEF RetryCommit
  <1>5. ASSUME NEW j \in Job, RetryRollback(j) PROVE IInv'
    BY <1>5 DEF RetryRollback, tables, IInv, TypeOK, AllRows, LockedRows,
                OutputIffSucceeded, OutboxPerAttempt, AssetsAccounted, Referenced,
                WatchedOld, UnansweredDone
  <1>6. ASSUME NEW j \in Job, CompleteCanceled(j) PROVE IInv'
    BY <1>0, <1>6, CanceledRowStep, KeptWriteKeepsIInv DEF CompleteCanceled
  <1>7. ASSUME NEW j \in Job, CompleteCommit(j) PROVE IInv'
    BY <1>7, CompleteCommitKeepsIInv
  <1>7u. ASSUME NEW j \in Job, CompleteUnanswered(j) PROVE IInv'
    BY <1>7u, CompleteUnansweredKeepsIInv
  <1>8. ASSUME NEW j \in Job, CompleteRollback(j) \/ CompleteRollbackLeak(j) PROVE IInv'
    BY <1>8, CompleteRollbackKeepsIInv
  <1>9. ASSUME NEW j \in Job, CreatedAges(j) \/ StartedAges(j) PROVE IInv'
    <2> DEFINE row == IF CreatedAges(j) THEN [job[j] EXCEPT !.createdAt = "old"]
                      ELSE [job[j] EXCEPT !.startedAt = "old"]
    <2>1. KeptStep(job[j], row)
      BY <1>0, <1>9 DEF CreatedAges, StartedAges, Exists, RowStep, KeptStep,
                        RowInv, Row, NoRow
    <2>2. row.status = job[j].status /\ row.cancelReq = job[j].cancelReq
      BY <1>0 DEF RowInv, Row
    <2>3. Writes(j, row) /\ UNCHANGED <<outbox, outputs, assets, storing, retrying, watch, unanswered, faults>>
      BY <1>9 DEF CreatedAges, StartedAges
    <2>4. QED
      BY <2>1, <2>2, <2>3, KeptWriteKeepsIInv
  <1>10. ASSUME NEW j \in Job, NEW a \in Attempts, Claim(j, a) PROVE IInv'
    BY <1>0, <1>10, ClaimedRowStep, KeptWriteKeepsIInv DEF Claim
  <1>11. ASSUME NEW j \in Job, NEW a \in Attempts, Fail(j, a) PROVE IInv'
    <2>1. KeptStep(job[j], FailedRow(job[j], a, "WORKER"))
      BY <1>0, FailedRowStep
    <2>2. QED
      BY <1>11, <2>1, KeptWriteKeepsIInv DEF Fail
  <1>12. ASSUME NEW j \in Job, NEW a \in Attempts, CompletePut(j, a) PROVE IInv'
    BY <1>12, CompletePutKeepsIInv
  <1>13. ASSUME NEW j \in Job, NEW a \in Attempts, NEW stage \in ReportStages,
                ReportProgress(j, a, stage)
         PROVE  IInv'
    BY <1>0, <1>13, ReportedRowStep, KeptWriteKeepsIInv DEF ReportProgress
  <1>14. ASSUME NEW j \in Job, NEW a \in Attempts, WatchFail(j, a) PROVE IInv'
    <2>1. job[j].createdAt = "old"
      BY <1>14 DEF WatchFail, IInv, WatchedOld
    <2>2. KeptStep(job[j], FailedRow(job[j], a, "GENERATION_TIMEOUT"))
      BY <1>0, <2>1, FailedRowStep
    <2>3. QED
      BY <1>14, <2>2, KeptWriteKeepsIInv DEF WatchFail
  <1>15. CASE WatchScan
    BY <1>15, WatchScanKeepsIInv
  <1>16. CASE Crash
    BY <1>16, CrashKeepsIInv
  <1>17. CASE UNCHANGED vars
    BY <1>17 DEF vars, IInv, TypeOK, AllRows, LockedRows, OutputIffSucceeded,
                 OutboxPerAttempt, AssetsAccounted, Referenced, WatchedOld,
                 UnansweredDone
  <1>18. QED
    BY <1>0, <1>1, <1>2, <1>3, <1>4, <1>5, <1>6, <1>7, <1>7u, <1>8, <1>9, <1>10, <1>11,
       <1>12, <1>13, <1>14, <1>15, <1>16, <1>17 DEF Next, Owners, Workers, Watcher

-----------------------------------------------------------------------------
(* Theorems *)

\* The inductive invariant holds in every reachable state.
THEOREM Invariance == Spec => []IInv
  <1>1. QED
    BY InitIInv, NextKeepsIInv, PTL DEF Spec

\* Every variable keeps its type.
THEOREM TypeCorrect == Spec => []TypeOK
  <1>1. IInv => TypeOK
    BY DEF IInv
  <1>2. QED
    BY <1>1, Invariance, PTL

\* A job whose cancellation was accepted is running or canceled, whatever calls
\* of whatever attempts arrive in whatever order.
THEOREM CancelRequestsPin == Spec => []CancelRequestPins
  <1>1. IInv => CancelRequestPins
    BY DEF IInv, AllRows, RowInv, CancelRequestPins
  <1>2. QED
    BY <1>1, Invariance, PTL

\* One output, from the job's own attempt, exactly for the jobs that succeeded.
THEOREM OutputsMatch == Spec => []OutputIffSucceeded
  <1>1. IInv => OutputIffSucceeded
    BY DEF IInv
  <1>2. QED
    BY <1>1, Invariance, PTL

\* Every opened attempt, and no other, has its outbox row.
THEOREM OutboxMatches == Spec => []OutboxPerAttempt
  <1>1. IInv => OutboxPerAttempt
    BY DEF IInv
  <1>2. QED
    BY <1>1, Invariance, PTL

\* No output without its asset, unless the answer to the commit that recorded it
\* was lost; no asset without its output, unless a crash, a lost answer or a
\* failed compensation left it behind.
THEOREM AssetsMatch == Spec => []AssetsAccounted
  <1>1. IInv => AssetsAccounted
    BY DEF IInv
  <1>2. QED
    BY <1>1, Invariance, PTL

\* A row's stage, error code and timestamps agree with its status.
THEOREM RowsConsistent == Spec => []RowConsistent
  <1>1. IInv => RowConsistent
    BY DEF IInv, AllRows, RowInv, RowConsistent
  <1>2. QED
    BY <1>1, Invariance, PTL

\* A write that fails no job for a timeout.
TimesOutNone(r, s) == s.code = "GENERATION_TIMEOUT" => r.code = "GENERATION_TIMEOUT"

\* No operation does, but the watcher's.
LEMMA OperationsTimeOutNone ==
  ASSUME NEW r, RowInv(r), NEW a, NEW stage
  PROVE  /\ TimesOutNone(r, CreatedRow)
         /\ TimesOutNone(r, CanceledRow(r))
         /\ TimesOutNone(r, ClaimedRow(r, a))
         /\ TimesOutNone(r, ReportedRow(r, a, stage))
         /\ TimesOutNone(r, FailedRow(r, a, "WORKER"))
         /\ TimesOutNone(r, CancelRequestedRow(r))
         /\ TimesOutNone(r, RequeuedRow(r))
         /\ TimesOutNone(r, SucceededRow(r))
         /\ TimesOutNone(r, [r EXCEPT !.createdAt = "old"])
         /\ TimesOutNone(r, [r EXCEPT !.startedAt = "old"])
  <1>1. TimesOutNone(r, CanceledRow(r))
    BY DEF TimesOutNone, CanceledRow, RowInv, Row
  <1>2. TimesOutNone(r, ClaimedRow(r, a)) /\ TimesOutNone(r, ReportedRow(r, a, stage))
    BY <1>1 DEF TimesOutNone, ClaimedRow, ReportedRow, RowInv, Row
  <1>3. TimesOutNone(r, FailedRow(r, a, "WORKER")) /\ TimesOutNone(r, CancelRequestedRow(r))
    BY <1>1 DEF TimesOutNone, FailedRow, CancelRequestedRow, RowInv, Row
  <1>4. TimesOutNone(r, CreatedRow) /\ TimesOutNone(r, RequeuedRow(r))
        /\ TimesOutNone(r, SucceededRow(r))
    BY DEF TimesOutNone, CreatedRow, RequeuedRow, SucceededRow, RowInv, Row
  <1>5. /\ TimesOutNone(r, [r EXCEPT !.createdAt = "old"])
        /\ TimesOutNone(r, [r EXCEPT !.startedAt = "old"])
    BY DEF TimesOutNone, RowInv, Row
  <1>6. QED
    BY <1>1, <1>2, <1>3, <1>4, <1>5

\* What the watcher fails for a timeout is in the attempt it had on its list.
LEMMA WatchFailListed ==
  ASSUME IInv, NEW j \in Job, NEW a \in Attempts, WatchFail(j, a),
         NEW k \in Job, TimedOutNow(k)
  PROVE  <<k, job[k].attempt>> \in watch /\ job[k].createdAt = "old"
  <1>1. \A i \in Job : job'[i] = IF i = j THEN FailedRow(job[j], a, "GENERATION_TIMEOUT")
                                 ELSE job[i]
    BY DEF WatchFail, Writes, IInv, TypeOK
  <1>2. k = j
    BY <1>1 DEF TimedOutNow
  <1>3. RowInv(job[j]) /\ <<j, a>> \in watch
    BY DEF IInv, AllRows, WatchFail
  <1>4. job[j].attempt = a
    <2>1. TimesOutNone(job[j], CanceledRow(job[j]))
      BY <1>3, OperationsTimeOutNone
    <2>2. QED
      BY <1>1, <1>2, <2>1 DEF TimedOutNow, TimesOutNone, FailedRow
  <1>5. job[j].createdAt = "old"
    BY <1>3 DEF IInv, WatchedOld
  <1>6. QED
    BY <1>2, <1>3, <1>4, <1>5

LEMMA NextTimesOutListed ==
  ASSUME IInv, [Next]_vars, NEW k \in Job, TimedOutNow(k)
  PROVE  <<k, job[k].attempt>> \in watch /\ job[k].createdAt = "old"
  <1> DEFINE Listed == <<k, job[k].attempt>> \in watch /\ job[k].createdAt = "old"
  <1>0. TypeOK /\ \A j \in Job : RowInv(job[j])
    BY DEF IInv, AllRows
  <1>1. job' # job
    BY DEF TimedOutNow
  <1>2. ASSUME NEW j \in Job, NEW row, Writes(j, row), TimesOutNone(job[j], row)
        PROVE  Listed
    BY <1>0, <1>2 DEF Writes, TypeOK, TimesOutNone, TimedOutNow
  <1> HIDE DEF Listed
  <1>3. ASSUME NEW j \in Job, Owners(j) PROVE Listed
    BY <1>0, <1>1, <1>2, <1>3, OperationsTimeOutNone
       DEF Owners, Create, Cancel, RetryCheck, RetryCommit, RetryRollback, tables
  <1>4. ASSUME NEW j \in Job, Workers(j) PROVE Listed
    <2>1. CASE CompleteCanceled(j)
      BY <1>0, <1>2, <2>1, OperationsTimeOutNone DEF CompleteCanceled
    <2>2. CASE CompleteCommit(j) \/ CompleteUnanswered(j)
      BY <1>0, <1>2, <2>2, OperationsTimeOutNone
         DEF CompleteCommit, CompleteUnanswered, Delivers
    <2>3. ~(CompleteRollback(j) \/ CompleteRollbackLeak(j))
      BY <1>1 DEF CompleteRollback, CompleteRollbackLeak, tables
    <2>4. ASSUME NEW a, Claim(j, a) \/ Fail(j, a) PROVE Listed
      BY <1>0, <1>2, <2>4, OperationsTimeOutNone DEF Claim, Fail
    <2>5. ASSUME NEW a PROVE ~CompletePut(j, a)
      BY <1>1 DEF CompletePut
    <2>6. ASSUME NEW a, NEW stage, ReportProgress(j, a, stage) PROVE Listed
      BY <1>0, <1>2, <2>6, OperationsTimeOutNone DEF ReportProgress
    <2>7. QED
      BY <1>4, <2>1, <2>2, <2>3, <2>4, <2>5, <2>6 DEF Workers
  <1>5. ASSUME Watcher PROVE Listed
    <2>1. ~WatchScan
      BY <1>1 DEF WatchScan, tables
    <2>2. ASSUME NEW j \in Job, CreatedAges(j) \/ StartedAges(j) PROVE Listed
      BY <1>0, <1>2, <2>2, OperationsTimeOutNone DEF CreatedAges, StartedAges
    <2>3. ASSUME NEW j \in Job, NEW a \in Attempts, WatchFail(j, a) PROVE Listed
      BY <2>3, WatchFailListed DEF Listed
    <2>4. QED
      BY <1>5, <2>1, <2>2, <2>3 DEF Watcher
  <1>6. ~Crash /\ ~UNCHANGED vars
    BY <1>1 DEF Crash, tables, vars
  <1>7. Listed
    BY <1>3, <1>4, <1>5, <1>6 DEF Next
  <1>8. QED
    BY <1>7 DEF Listed

\* However stale the watcher's list is: it fails only jobs still in the attempt
\* that was on it, and only jobs created longer than the timeout ago.
THEOREM TimeoutsListed == Spec => TimeoutsEndListedAttempts
  <1>1. IInv /\ [Next]_vars
          => [\A j \in Job : TimedOutNow(j) =>
                <<j, job[j].attempt>> \in watch /\ job[j].createdAt = "old"]_vars
    BY NextTimesOutListed
  <1>2. QED
    BY <1>1, Invariance, PTL DEF Spec, TimeoutsEndListedAttempts

-----------------------------------------------------------------------------
(* Refinement of JobLifecycle *)

\* The effect an operation may have on what the owner sees of one job.
PhaseStep(r, s) ==
  \/ PhaseOf(s) = PhaseOf(r) /\ s.attempt = r.attempt
  \/ PhaseOf(r) = "none" /\ PhaseOf(s) = "open" /\ s.attempt = 1
  \/ /\ PhaseOf(r) = "open" /\ PhaseOf(s) \in {"delivered", "failed", "canceling"}
     /\ s.attempt = r.attempt
  \/ /\ PhaseOf(r) \in {"open", "canceling"} /\ PhaseOf(s) = "canceled"
     /\ s.attempt = r.attempt
  \/ /\ PhaseOf(r) = "failed" /\ PhaseOf(s) = "open"
     /\ r.attempt < MaxAttempts /\ s.attempt = r.attempt + 1

\* markCanceled withdraws an open or canceling job.
LEMMA CanceledPhaseStep ==
  ASSUME NEW r, RowInv(r)
  PROVE  PhaseStep(r, CanceledRow(r))
  <1>1. ValidTransition(r.status, "CANCELED", FALSE)
          <=> r.status \in {"QUEUED", "RUNNING"}
    BY DEF ValidTransition, Transitions
  <1>2. QED
    BY <1>1 DEF RowInv, Row, PhaseStep, PhaseOf, CanceledRow, Statuses

\* Claim shows to the owner only when it lands a cancellation.
LEMMA ClaimedPhaseStep ==
  ASSUME NEW r, RowInv(r), NEW a \in Attempts
  PROVE  PhaseStep(r, ClaimedRow(r, a))
  <1>1. CASE r.cancelReq
    BY <1>1, CanceledPhaseStep DEF ClaimedRow
  <1>2. CASE ~r.cancelReq
    BY <1>2 DEF RowInv, Row, PhaseStep, PhaseOf, ClaimedRow, Statuses
  <1>3. QED
    BY <1>1, <1>2

\* So does a progress report.
LEMMA ReportedPhaseStep ==
  ASSUME NEW r, RowInv(r), NEW a \in Attempts, NEW stage \in ReportStages
  PROVE  PhaseStep(r, ReportedRow(r, a, stage))
  <1>1. CASE r.cancelReq /\ r.status = "RUNNING"
    BY <1>1, CanceledPhaseStep DEF ReportedRow
  <1>2. CASE ~(r.cancelReq /\ r.status = "RUNNING")
    BY <1>2 DEF RowInv, Row, PhaseStep, PhaseOf, ReportedRow, Statuses
  <1>3. QED
    BY <1>1, <1>2

\* Fail gives an open job up and withdraws a canceling one.
LEMMA FailedPhaseStep ==
  ASSUME NEW r, RowInv(r), NEW a \in Attempts, NEW code
  PROVE  PhaseStep(r, FailedRow(r, a, code))
  <1>1. CASE r.cancelReq
    BY <1>1, CanceledPhaseStep DEF FailedRow
  <1>2. CASE ~r.cancelReq
    BY <1>2 DEF RowInv, Row, PhaseStep, PhaseOf, FailedRow, Statuses, ActiveStatuses
  <1>3. QED
    BY <1>1, <1>2

\* Cancel withdraws a queued job and accepts the cancellation of a running one.
LEMMA CancelRequestedPhaseStep ==
  ASSUME NEW r, RowInv(r)
  PROVE  PhaseStep(r, CancelRequestedRow(r))
  <1>1. CASE r.status = "QUEUED"
    BY <1>1, CanceledPhaseStep DEF CancelRequestedRow
  <1>2. CASE r.status = "RUNNING"
    BY <1>2 DEF RowInv, Row, PhaseStep, PhaseOf, CancelRequestedRow, Statuses
  <1>3. CASE r.status \notin {"QUEUED", "RUNNING"}
    BY <1>3 DEF PhaseStep, CancelRequestedRow
  <1>4. QED
    BY <1>1, <1>2, <1>3

\* A step that rewrites one row is a step of the abstract life cycle of that job.
LEMMA WriteRefines ==
  ASSUME TypeOK, NEW j \in Job, NEW row, Writes(j, row), PhaseStep(job[j], row)
  PROVE  [Lifecycle!Next]_(Lifecycle!lifecycleVars)
  <1> DEFINE ph == [k \in Job |-> PhaseOf(job[k])]
             tr == [k \in Job |-> job[k].attempt]
  <1>1. /\ ph' = [ph EXCEPT ![j] = PhaseOf(row)]
        /\ tr' = [tr EXCEPT ![j] = row.attempt]
    BY DEF Writes, TypeOK
  <1>2. ph[j] = PhaseOf(job[j]) /\ tr[j] = job[j].attempt
    OBVIOUS
  <1>3. CASE PhaseOf(row) = PhaseOf(job[j]) /\ row.attempt = job[j].attempt
    <2>1. ph' = ph /\ tr' = tr
      BY <1>1, <1>2, <1>3
    <2>2. QED
      BY <2>1 DEF Lifecycle!lifecycleVars
  <1>4. CASE /\ PhaseOf(job[j]) = "none" /\ PhaseOf(row) = "open"
             /\ row.attempt = 1
    BY <1>1, <1>2, <1>4 DEF Lifecycle!Next, Lifecycle!Submit, Lifecycle!Moves
  <1>5. CASE /\ PhaseOf(job[j]) = "open"
             /\ PhaseOf(row) \in {"delivered", "failed", "canceling"}
             /\ row.attempt = job[j].attempt
    <2>1. tr' = tr
      BY <1>1, <1>2, <1>5
    <2>2. QED
      BY <1>1, <1>2, <1>5, <2>1
         DEF Lifecycle!Next, Lifecycle!Deliver, Lifecycle!GiveUp,
             Lifecycle!AcceptCancel, Lifecycle!Moves
  <1>6. CASE /\ PhaseOf(job[j]) \in {"open", "canceling"}
             /\ PhaseOf(row) = "canceled" /\ row.attempt = job[j].attempt
    <2>1. tr' = tr
      BY <1>1, <1>2, <1>6
    <2>2. QED
      BY <1>1, <1>2, <1>6, <2>1 DEF Lifecycle!Next, Lifecycle!Withdraw, Lifecycle!Moves
  <1>7. CASE /\ PhaseOf(job[j]) = "failed" /\ PhaseOf(row) = "open"
             /\ job[j].attempt < MaxAttempts /\ row.attempt = job[j].attempt + 1
    BY <1>1, <1>2, <1>7 DEF Lifecycle!Next, Lifecycle!Reopen, Lifecycle!Moves
  <1>8. QED
    BY <1>3, <1>4, <1>5, <1>6, <1>7 DEF PhaseStep

\* Every step of the service is a step of the abstract life cycle, or none.
LEMMA NextRefines == IInv /\ [Next]_vars => [Lifecycle!Next]_(Lifecycle!lifecycleVars)
  <1> SUFFICES ASSUME IInv, [Next]_vars
               PROVE  [Lifecycle!Next]_(Lifecycle!lifecycleVars)
    OBVIOUS
  <1>0. /\ TypeOK
        /\ \A j \in Job : RowInv(job[j])
        /\ \A j \in Job : 1..job[j].attempt \subseteq Attempts
    BY ConstantsOK DEF IInv, AllRows, RowInv, Row, Attempts
  <1>1. CASE UNCHANGED job
    BY <1>1 DEF Lifecycle!lifecycleVars
  <1>2. ASSUME NEW j \in Job, Create(j)
        PROVE  [Lifecycle!Next]_(Lifecycle!lifecycleVars)
    <2>1. PhaseStep(job[j], CreatedRow)
      BY <1>2 DEF Create, Exists, PhaseStep, PhaseOf, CreatedRow
    <2>2. QED
      BY <1>0, <1>2, <2>1, WriteRefines DEF Create
  <1>3. ASSUME NEW j \in Job, Cancel(j)
        PROVE  [Lifecycle!Next]_(Lifecycle!lifecycleVars)
    BY <1>0, <1>3, CancelRequestedPhaseStep, WriteRefines DEF Cancel
  <1>4. ASSUME NEW j \in Job, RetryCommit(j)
        PROVE  [Lifecycle!Next]_(Lifecycle!lifecycleVars)
    <2>1. Retryable(job[j])
      BY <1>4 DEF RetryCommit, IInv, LockedRows
    <2>2. PhaseStep(job[j], RequeuedRow(job[j]))
      BY <1>0, <2>1 DEF PhaseStep, PhaseOf, Retryable, RequeuedRow, RowInv, Row
    <2>3. QED
      BY <1>0, <1>4, <2>2, WriteRefines DEF RetryCommit
  <1>5. ASSUME NEW j \in Job, CompleteCanceled(j)
        PROVE  [Lifecycle!Next]_(Lifecycle!lifecycleVars)
    BY <1>0, <1>5, CanceledPhaseStep, WriteRefines DEF CompleteCanceled
  <1>6. ASSUME NEW j \in Job, CompleteCommit(j) \/ CompleteUnanswered(j)
        PROVE  [Lifecycle!Next]_(Lifecycle!lifecycleVars)
    <2>1. Deliverable(job[j], storing[j])
      BY <1>6 DEF CompleteCommit, CompleteUnanswered, Delivers, IInv, LockedRows
    <2>2. PhaseStep(job[j], SucceededRow(job[j]))
      BY <1>0, <2>1 DEF PhaseStep, PhaseOf, Deliverable, SucceededRow, RowInv, Row
    <2>3. QED
      BY <1>0, <1>6, <2>2, WriteRefines DEF CompleteCommit, CompleteUnanswered, Delivers
  <1>7. ASSUME NEW j \in Job, CreatedAges(j)
        PROVE  [Lifecycle!Next]_(Lifecycle!lifecycleVars)
    <2>1. PhaseStep(job[j], [job[j] EXCEPT !.createdAt = "old"])
      BY <1>0 DEF PhaseStep, PhaseOf, RowInv, Row
    <2>2. QED
      BY <1>0, <1>7, <2>1, WriteRefines DEF CreatedAges
  <1>8. ASSUME NEW j \in Job, StartedAges(j)
        PROVE  [Lifecycle!Next]_(Lifecycle!lifecycleVars)
    <2>1. PhaseStep(job[j], [job[j] EXCEPT !.startedAt = "old"])
      BY <1>0 DEF PhaseStep, PhaseOf, RowInv, Row
    <2>2. QED
      BY <1>0, <1>8, <2>1, WriteRefines DEF StartedAges
  <1>9. ASSUME NEW j \in Job, NEW a \in Attempts, Claim(j, a)
        PROVE  [Lifecycle!Next]_(Lifecycle!lifecycleVars)
    BY <1>0, <1>9, ClaimedPhaseStep, WriteRefines DEF Claim
  <1>10. ASSUME NEW j \in Job, NEW a \in Attempts, Fail(j, a) \/ WatchFail(j, a)
         PROVE  [Lifecycle!Next]_(Lifecycle!lifecycleVars)
    BY <1>0, <1>10, FailedPhaseStep, WriteRefines DEF Fail, WatchFail
  <1>11. ASSUME NEW j \in Job, NEW a \in Attempts, NEW stage \in ReportStages,
                ReportProgress(j, a, stage)
         PROVE  [Lifecycle!Next]_(Lifecycle!lifecycleVars)
    BY <1>0, <1>11, ReportedPhaseStep, WriteRefines DEF ReportProgress
  <1>12. QED
    BY <1>0, <1>1, <1>2, <1>3, <1>4, <1>5, <1>6, <1>7, <1>8, <1>9, <1>10, <1>11
       DEF Next, Owners, Workers, Watcher, vars, tables, RetryCheck, RetryRollback, CompletePut,
           CompleteRollback, CompleteRollbackLeak, WatchScan, Crash

\* GenerationJob implements JobLifecycle: what the owner sees of a job follows
\* the abstract life cycle step by step.
THEOREM ServiceKeepsLifecycle == Spec => LifecycleKept
  <1>1. Init => Lifecycle!Init
    BY DEF Init, Lifecycle!Init, PhaseOf, NoRow
  <1>2. QED
    BY <1>1, NextRefines, Invariance, PTL DEF Spec, LifecycleKept, Lifecycle!Spec

-----------------------------------------------------------------------------
(* How far an owner can exceed his limit *)

\* The open retries of an owner's jobs: those that have counted his active jobs
\* and not yet committed.
RetriesOf(u) == {j \in retrying : Owner[j] = u}

\* No owner has more than n retries open at once.
RetriesWithin(n) == \A u \in User : Cardinality(RetriesOf(u)) <= n

\* None of his jobs is created while one of his retries is open.
CreatesAlone == \A j \in Job : Create(j) => RetriesOf(Owner[j]) = {}

\* Each open retry still has its job to come on top of the active ones.
LimitInv(n) ==
  \A u \in User :
    /\ IsFiniteSet(ActiveOf(u)) /\ IsFiniteSet(RetriesOf(u))
    /\ Cardinality(ActiveOf(u)) + Cardinality(RetriesOf(u)) <= MaxActive + n

\* A write that makes no job active.
WakesNone(r, s) == s.status \in ActiveStatuses => r.status \in ActiveStatuses

\* No operation on a row that exists makes it active, but a retry.
LEMMA OperationsWakeNone ==
  ASSUME NEW r, RowInv(r), NEW a, NEW stage, NEW code
  PROVE  /\ WakesNone(r, CanceledRow(r))
         /\ WakesNone(r, ClaimedRow(r, a))
         /\ WakesNone(r, ReportedRow(r, a, stage))
         /\ WakesNone(r, FailedRow(r, a, code))
         /\ WakesNone(r, CancelRequestedRow(r))
         /\ WakesNone(r, SucceededRow(r))
         /\ WakesNone(r, [r EXCEPT !.createdAt = "old"])
         /\ WakesNone(r, [r EXCEPT !.startedAt = "old"])
  <1>1. WakesNone(r, CanceledRow(r))
    BY DEF WakesNone, CanceledRow, RowInv, Row, ActiveStatuses
  <1>2. WakesNone(r, ClaimedRow(r, a))
    BY <1>1 DEF WakesNone, ClaimedRow, RowInv, Row, ActiveStatuses
  <1>3. WakesNone(r, ReportedRow(r, a, stage))
    BY <1>1 DEF WakesNone, ReportedRow, RowInv, Row, ActiveStatuses
  <1>4. WakesNone(r, FailedRow(r, a, code))
    BY <1>1 DEF WakesNone, FailedRow, RowInv, Row, ActiveStatuses
  <1>5. WakesNone(r, CancelRequestedRow(r))
    BY <1>1 DEF WakesNone, CancelRequestedRow, RowInv, Row, ActiveStatuses
  <1>6. /\ WakesNone(r, SucceededRow(r))
        /\ WakesNone(r, [r EXCEPT !.createdAt = "old"])
        /\ WakesNone(r, [r EXCEPT !.startedAt = "old"])
    BY DEF WakesNone, SucceededRow, RowInv, Row, ActiveStatuses
  <1>7. QED
    BY <1>1, <1>2, <1>3, <1>4, <1>5, <1>6

\* So such a write adds nothing to what counts against the limit.
LEMMA WakingNoneAddsNone ==
  ASSUME TypeOK, NEW j \in Job, NEW row, Writes(j, row), WakesNone(job[j], row),
         NEW u \in User
  PROVE  ActiveOf(u)' \subseteq ActiveOf(u)
  <1>1. \A k \in Job : job'[k] = IF k = j THEN row ELSE job[k]
    BY DEF Writes, TypeOK
  <1>2. QED
    BY <1>1 DEF ActiveOf, Active, WakesNone

\* Three operations add to it; each adds one job.
LimitStep(u) ==
  \/ ActiveOf(u)' \subseteq ActiveOf(u) /\ RetriesOf(u)' \subseteq RetriesOf(u)
  \/ /\ Cardinality(ActiveOf(u)) < MaxActive
     /\ RetriesOf(u)' = RetriesOf(u)
     /\ \E j \in Job : /\ Create(j) /\ Owner[j] = u
                       /\ ActiveOf(u)' = ActiveOf(u) \cup {j}
  \/ /\ Cardinality(ActiveOf(u)) < MaxActive
     /\ ActiveOf(u)' = ActiveOf(u)
     /\ \E j \in Job : RetriesOf(u)' = RetriesOf(u) \cup {j}
  \/ \E j \in RetriesOf(u) :
       /\ ActiveOf(u)' = ActiveOf(u) \cup {j}
       /\ RetriesOf(u)' = RetriesOf(u) \ {j}

\* Create counts with the active rows locked, but beside the open retries.
LEMMA CreateLimitStep ==
  ASSUME IInv, NEW j \in Job, Create(j), NEW u \in User
  PROVE  LimitStep(u)
  <1>0. TypeOK /\ retrying' = retrying
    BY DEF IInv, Create
  <1>1. RetriesOf(u)' = RetriesOf(u)
    BY <1>0 DEF RetriesOf
  <1>2. \A k \in Job : job'[k] = IF k = j THEN CreatedRow ELSE job[k]
    BY <1>0 DEF Create, Writes, TypeOK
  <1>3. CASE Owner[j] = u
    <2>1. ActiveOf(u)' = ActiveOf(u) \cup {j}
      BY <1>2, <1>3 DEF ActiveOf, Active, CreatedRow, ActiveStatuses
    <2>2. Cardinality(ActiveOf(u)) < MaxActive
      BY <1>3 DEF Create
    <2>3. QED
      BY <1>1, <1>3, <2>1, <2>2 DEF LimitStep
  <1>4. CASE Owner[j] # u
    <2>1. ActiveOf(u)' = ActiveOf(u)
      BY <1>2, <1>4 DEF ActiveOf, Active
    <2>2. QED
      BY <1>1, <2>1 DEF LimitStep
  <1>5. QED
    BY <1>3, <1>4

\* A retry counts before it commits: its job is not active until then.
LEMMA RetryLimitStep ==
  ASSUME IInv, NEW j \in Job, NEW u \in User,
         RetryCheck(j) \/ RetryCommit(j) \/ RetryRollback(j)
  PROVE  LimitStep(u)
  <1>0. TypeOK
    BY DEF IInv
  <1>1. CASE RetryCheck(j)
    <2>1. ActiveOf(u)' = ActiveOf(u)
      BY <1>1 DEF RetryCheck, tables, ActiveOf, Active
    <2>2. CASE Owner[j] = u
      <3>1. RetriesOf(u)' = RetriesOf(u) \cup {j}
        BY <1>1, <2>2 DEF RetryCheck, RetriesOf
      <3>2. QED
        BY <1>1, <2>1, <2>2, <3>1 DEF LimitStep, RetryCheck
    <2>3. CASE Owner[j] # u
      <3>1. RetriesOf(u)' = RetriesOf(u)
        BY <1>1, <2>3 DEF RetryCheck, RetriesOf
      <3>2. QED
        BY <2>1, <3>1 DEF LimitStep
    <2>4. QED
      BY <2>2, <2>3
  <1>2. CASE RetryCommit(j)
    <2>1. \A k \in Job : job'[k] = IF k = j THEN RequeuedRow(job[j]) ELSE job[k]
      BY <1>0, <1>2 DEF RetryCommit, Writes, TypeOK
    <2>2. RequeuedRow(job[j]).status = "QUEUED"
      BY <1>0 DEF RequeuedRow, TypeOK, Row
    <2>3. CASE Owner[j] = u
      <3>1. j \in RetriesOf(u)
        BY <1>2, <2>3 DEF RetryCommit, RetriesOf
      <3>2. ActiveOf(u)' = ActiveOf(u) \cup {j}
        BY <2>1, <2>2, <2>3 DEF ActiveOf, Active, ActiveStatuses
      <3>3. RetriesOf(u)' = RetriesOf(u) \ {j}
        BY <1>2 DEF RetryCommit, RetriesOf
      <3>4. QED
        BY <3>1, <3>2, <3>3 DEF LimitStep
    <2>4. CASE Owner[j] # u
      <3>1. ActiveOf(u)' = ActiveOf(u)
        BY <2>1, <2>4 DEF ActiveOf, Active
      <3>2. RetriesOf(u)' = RetriesOf(u)
        BY <1>2, <2>4 DEF RetryCommit, RetriesOf
      <3>3. QED
        BY <3>1, <3>2 DEF LimitStep
    <2>5. QED
      BY <2>3, <2>4
  <1>3. CASE RetryRollback(j)
    <2>1. ActiveOf(u)' = ActiveOf(u)
      BY <1>3 DEF RetryRollback, tables, ActiveOf, Active
    <2>2. RetriesOf(u)' \subseteq RetriesOf(u)
      BY <1>3 DEF RetryRollback, RetriesOf
    <2>3. QED
      BY <2>1, <2>2 DEF LimitStep
  <1>4. QED
    BY <1>1, <1>2, <1>3

\* Every step of the service is of one of these four kinds for every owner.
LEMMA NextLimitStep ==
  ASSUME IInv, [Next]_vars, NEW u \in User
  PROVE  LimitStep(u)
  <1>0. TypeOK /\ \A j \in Job : RowInv(job[j])
    BY DEF IInv, AllRows
  <1> DEFINE Quiet == ActiveOf(u)' \subseteq ActiveOf(u) /\ retrying' \subseteq retrying
  <1>1. ASSUME Quiet PROVE LimitStep(u)
    BY <1>1 DEF LimitStep, RetriesOf
  <1>2. ASSUME job' = job, retrying' \subseteq retrying PROVE LimitStep(u)
    BY <1>1, <1>2 DEF ActiveOf, Active
  <1>3. ASSUME NEW j \in Job, NEW row, Writes(j, row), WakesNone(job[j], row),
               retrying' = retrying
        PROVE  LimitStep(u)
    BY <1>0, <1>1, <1>3, WakingNoneAddsNone
  <1> HIDE DEF Quiet
  <1>4. ASSUME NEW j \in Job, Owners(j) PROVE LimitStep(u)
    <2>1. CASE Cancel(j)
      BY <1>0, <1>3, <2>1, OperationsWakeNone DEF Cancel
    <2>2. QED
      BY <1>4, <2>1, CreateLimitStep, RetryLimitStep DEF Owners
  <1>5. ASSUME NEW j \in Job, Workers(j) PROVE LimitStep(u)
    <2>1. CASE CompleteCanceled(j)
      BY <1>0, <1>3, <2>1, OperationsWakeNone DEF CompleteCanceled
    <2>2. CASE CompleteCommit(j) \/ CompleteUnanswered(j)
      BY <1>0, <1>3, <2>2, OperationsWakeNone
         DEF CompleteCommit, CompleteUnanswered, Delivers
    <2>3. CASE CompleteRollback(j) \/ CompleteRollbackLeak(j)
      BY <1>2, <2>3 DEF CompleteRollback, CompleteRollbackLeak, tables
    <2>4. ASSUME NEW a, Claim(j, a) PROVE LimitStep(u)
      BY <1>0, <1>3, <2>4, OperationsWakeNone DEF Claim
    <2>5. ASSUME NEW a, Fail(j, a) PROVE LimitStep(u)
      BY <1>0, <1>3, <2>5, OperationsWakeNone DEF Fail
    <2>6. ASSUME NEW a, CompletePut(j, a) PROVE LimitStep(u)
      BY <1>2, <2>6 DEF CompletePut
    <2>7. ASSUME NEW a, NEW stage, ReportProgress(j, a, stage) PROVE LimitStep(u)
      BY <1>0, <1>3, <2>7, OperationsWakeNone DEF ReportProgress
    <2>8. QED
      BY <1>5, <2>1, <2>2, <2>3, <2>4, <2>5, <2>6, <2>7 DEF Workers
  <1>6. CASE Watcher
    <2>1. CASE WatchScan
      BY <1>2, <2>1 DEF WatchScan, tables
    <2>2. ASSUME NEW j \in Job, CreatedAges(j) \/ StartedAges(j) PROVE LimitStep(u)
      BY <1>0, <1>3, <2>2, OperationsWakeNone DEF CreatedAges, StartedAges
    <2>3. ASSUME NEW j \in Job, NEW a, WatchFail(j, a) PROVE LimitStep(u)
      BY <1>0, <1>3, <2>3, OperationsWakeNone DEF WatchFail
    <2>4. QED
      BY <1>6, <2>1, <2>2, <2>3 DEF Watcher
  <1>7. CASE Crash
    BY <1>2, <1>7 DEF Crash, tables
  <1>8. CASE UNCHANGED vars
    BY <1>2, <1>8 DEF vars
  <1>9. QED
    BY <1>4, <1>5, <1>6, <1>7, <1>8 DEF Next

\* One element more: the set stays finite and grows by at most one.
LEMMA OneMore ==
  ASSUME NEW S, NEW x, IsFiniteSet(S)
  PROVE  /\ IsFiniteSet(S \cup {x})
         /\ Cardinality(S \cup {x}) \in Nat
         /\ Cardinality(S \cup {x}) <= Cardinality(S) + 1
  <1>1. /\ IsFiniteSet(S \cup {x})
        /\ Cardinality(S \cup {x})
             = IF x \in S THEN Cardinality(S) ELSE Cardinality(S) + 1
    BY FS_AddElement
  <1>2. Cardinality(S) \in Nat
    BY FS_CardinalityType
  <1>3. QED
    BY <1>1, <1>2

\* A step of any of these kinds keeps the count: a retry may begin beside n
\* others, and a job be created beside n.
LEMMA LimitStepKeepsCount ==
  ASSUME NEW n \in Nat, NEW u \in User, LimitStep(u),
         IsFiniteSet(ActiveOf(u)), IsFiniteSet(RetriesOf(u)),
         Cardinality(ActiveOf(u)) + Cardinality(RetriesOf(u)) <= MaxActive + n,
         Cardinality(RetriesOf(u)') <= n + 1,
         \A j \in Job : Create(j) /\ Owner[j] = u => Cardinality(RetriesOf(u)) <= n
  PROVE  /\ IsFiniteSet(ActiveOf(u)') /\ IsFiniteSet(RetriesOf(u)')
         /\ Cardinality(ActiveOf(u)') + Cardinality(RetriesOf(u)') <= MaxActive + n
  <1> DEFINE a == ActiveOf(u)
             b == ActiveOf(u)'
             r == RetriesOf(u)
             s == RetriesOf(u)'
  <1>0. /\ Cardinality(a) \in Nat /\ Cardinality(r) \in Nat /\ MaxActive \in Nat
        /\ Cardinality({}) = 0 /\ IsFiniteSet({})
    BY FS_CardinalityType, FS_EmptySet, ConstantsOK
  <1>1. CASE b \subseteq a /\ s \subseteq r
    <2>1. /\ IsFiniteSet(b) /\ Cardinality(b) <= Cardinality(a)
          /\ IsFiniteSet(s) /\ Cardinality(s) <= Cardinality(r)
      BY <1>1, FS_Subset
    <2>2. Cardinality(b) \in Nat /\ Cardinality(s) \in Nat
      BY <2>1, FS_CardinalityType
    <2>3. QED
      BY <1>0, <2>1, <2>2
  <1>2. CASE /\ Cardinality(a) < MaxActive /\ s = r
             /\ \E j \in Job : Create(j) /\ Owner[j] = u /\ b = a \cup {j}
    <2>1. PICK j \in Job : Create(j) /\ Owner[j] = u /\ b = a \cup {j}
      BY <1>2
    <2>2. IsFiniteSet(b) /\ Cardinality(b) \in Nat /\ Cardinality(b) <= Cardinality(a) + 1
      <3>1. /\ IsFiniteSet(a \cup {j}) /\ Cardinality(a \cup {j}) \in Nat
            /\ Cardinality(a \cup {j}) <= Cardinality(a) + 1
        BY OneMore
      <3>2. QED
        BY <2>1, <3>1
    <2>3. Cardinality(r) <= n
      BY <2>1
    <2>4. QED
      BY <1>0, <1>2, <2>2, <2>3
  <1>3. CASE /\ Cardinality(a) < MaxActive /\ b = a
             /\ \E j \in Job : s = r \cup {j}
    <2>1. IsFiniteSet(s) /\ Cardinality(s) \in Nat
      BY <1>0, <1>3, FS_AddElement, FS_CardinalityType
    <2>2. QED
      BY <1>0, <1>3, <2>1
  <1>4. ASSUME NEW j \in r, b = a \cup {j}, s = r \ {j}
        PROVE  /\ IsFiniteSet(b) /\ IsFiniteSet(s)
               /\ Cardinality(b) + Cardinality(s) <= MaxActive + n
    <2>1. IsFiniteSet(b) /\ Cardinality(b) \in Nat /\ Cardinality(b) <= Cardinality(a) + 1
      <3>1. /\ IsFiniteSet(a \cup {j}) /\ Cardinality(a \cup {j}) \in Nat
            /\ Cardinality(a \cup {j}) <= Cardinality(a) + 1
        BY OneMore
      <3>2. QED
        BY <1>4, <3>1
    <2>2. IsFiniteSet(s) /\ Cardinality(s) = Cardinality(r) - 1
      BY <1>4, FS_RemoveElement
    <2>3. QED
      BY <1>0, <2>1, <2>2
  <1>5. QED
    BY <1>1, <1>2, <1>3, <1>4 DEF LimitStep

\* At first there is nothing to count.
LEMMA InitLimitInv ==
  ASSUME NEW n \in Nat, Init
  PROVE  LimitInv(n)
  <1>1. \A u \in User : ActiveOf(u) = {} /\ RetriesOf(u) = {}
    BY DEF Init, NoRow, ActiveOf, Active, ActiveStatuses, RetriesOf
  <1>2. IsFiniteSet({}) /\ Cardinality({}) = 0 /\ 0 + 0 <= MaxActive + n
    BY FS_EmptySet, ConstantsOK
  <1>3. QED
    BY <1>1, <1>2 DEF LimitInv

\* While the retries stay within n, every step keeps the count ...
LEMMA NextKeepsLimitInv ==
  ASSUME NEW n \in Nat, IInv, LimitInv(n), RetriesWithin(n), RetriesWithin(n)', [Next]_vars
  PROVE  LimitInv(n)'
  <1>1. ASSUME NEW u \in User
        PROVE  /\ IsFiniteSet(ActiveOf(u)') /\ IsFiniteSet(RetriesOf(u)')
               /\ Cardinality(ActiveOf(u)') + Cardinality(RetriesOf(u)') <= MaxActive + n
    <2>1. /\ IsFiniteSet(ActiveOf(u)) /\ IsFiniteSet(RetriesOf(u))
          /\ Cardinality(ActiveOf(u)) + Cardinality(RetriesOf(u)) <= MaxActive + n
      BY DEF LimitInv
    <2>2. Cardinality(RetriesOf(u)) <= n /\ Cardinality(RetriesOf(u)') <= n
      BY DEF RetriesWithin
    <2>3. Cardinality(RetriesOf(u)') <= n + 1
      <3>1. LimitStep(u)
        BY NextLimitStep
      <3>2. IsFiniteSet(RetriesOf(u)')
        BY <2>1, <3>1, FS_Subset, FS_AddElement, FS_RemoveElement DEF LimitStep
      <3>3. Cardinality(RetriesOf(u)') \in Nat
        BY <3>2, FS_CardinalityType
      <3>4. QED
        BY <2>2, <3>3
    <2>4. QED
      BY <2>1, <2>2, <2>3, NextLimitStep, LimitStepKeepsCount
  <1>2. QED
    BY <1>1 DEF LimitInv

\* ... and so it does, one job lower, when a retry has the owner's jobs to itself.
LEMMA NextKeepsLimitAlone ==
  ASSUME IInv, LimitInv(0), RetriesWithin(1)', [Next]_vars, [CreatesAlone]_vars
  PROVE  LimitInv(0)'
  <1>1. ASSUME NEW u \in User
        PROVE  /\ IsFiniteSet(ActiveOf(u)') /\ IsFiniteSet(RetriesOf(u)')
               /\ Cardinality(ActiveOf(u)') + Cardinality(RetriesOf(u)') <= MaxActive + 0
    <2>1. /\ IsFiniteSet(ActiveOf(u)) /\ IsFiniteSet(RetriesOf(u))
          /\ Cardinality(ActiveOf(u)) + Cardinality(RetriesOf(u)) <= MaxActive + 0
      BY DEF LimitInv
    <2>2. Cardinality(RetriesOf(u)') <= 0 + 1
      BY DEF RetriesWithin
    <2>3. ASSUME NEW j \in Job, Create(j), Owner[j] = u
          PROVE  Cardinality(RetriesOf(u)) <= 0
      <3>1. job' # job
        BY <2>3 DEF Create, Writes, Exists, CreatedRow, IInv, TypeOK
      <3>2. CreatesAlone
        BY <3>1 DEF vars
      <3>3. QED
        BY <2>3, <3>2, FS_EmptySet DEF CreatesAlone
    <2>4. QED
      BY <2>1, <2>2, <2>3, NextLimitStep, LimitStepKeepsCount
  <1>2. QED
    BY <1>1 DEF LimitInv

\* What an owner can exceed his limit by (worker.go:459 counts without a lock, and
\* service.go:106 locks no FAILED row): if at most n retries of his jobs are ever
\* under way at the same time, he never has more than n jobs beyond it, whatever
\* else he creates meanwhile.  Without retries (n = 0) the limit is kept.
THEOREM OvershootBounded ==
  ASSUME NEW CONSTANT n \in Nat
  PROVE  Spec /\ []RetriesWithin(n)
           => [](\A u \in User : Cardinality(ActiveOf(u)) <= MaxActive + n)
  <1>1. LimitInv(n) => \A u \in User : Cardinality(ActiveOf(u)) <= MaxActive + n
    BY FS_CardinalityType, ConstantsOK DEF LimitInv
  <1>2. Init => LimitInv(n)
    BY InitLimitInv
  <1>3. IInv /\ LimitInv(n) /\ RetriesWithin(n) /\ RetriesWithin(n)' /\ [Next]_vars
          => LimitInv(n)'
    BY NextKeepsLimitInv
  <1>4. QED
    BY <1>1, <1>2, <1>3, Invariance, PTL DEF Spec

\* And the limit itself holds for an owner who, while he retries one job, neither
\* retries another nor creates one: a retry races with a Create as well.
THEOREM LimitHeldAlone ==
  Spec /\ []RetriesWithin(1) /\ [][CreatesAlone]_vars => []ActiveLimit
  <1>1. LimitInv(0) => ActiveLimit
    BY FS_CardinalityType, ConstantsOK DEF LimitInv, ActiveLimit
  <1>2. Init => LimitInv(0)
    BY InitLimitInv
  <1>3. IInv /\ LimitInv(0) /\ RetriesWithin(1)' /\ [Next]_vars /\ [CreatesAlone]_vars
          => LimitInv(0)'
    BY NextKeepsLimitAlone
  <1>4. QED
    BY <1>1, <1>2, <1>3, Invariance, PTL DEF Spec
=============================================================================
