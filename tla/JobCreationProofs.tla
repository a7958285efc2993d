-------------------------- MODULE JobCreationProofs --------------------------
(***************************************************************************)
(* Theorems about JobCreation, for any users, keys, previews and requests. *)
(* The job tables change as in GenerationJob, so its invariant IInv holds  *)
(* here too; what this module adds is about requests and previews.         *)
(***************************************************************************)
EXTENDS JobCreation, GenerationJobProofs

(***************************************************************************)
(* The inductive invariant.  A request that created a job has ended, so    *)
(* it cannot be refused any more (CreatedAnswered).  A request whose key   *)
(* got a job while it was in its transaction is recorded in raced          *)
(* (OpenRaced), and one that found its preview consumed found it so for    *)
(* good (ConsumedSeen): the job that its repetition creates later would    *)
(* need that very preview.                                                 *)
(***************************************************************************)
CreatedAnswered ==
  \A j \in Job : Exists(j) => request[j].at = "answered" /\ request[j].got \in {j, "failed"}

OpenRaced ==
  \A i, j \in Job :
    Exists(i) /\ Repeats(i, j) /\ request[j].at = "open" => j \in raced

ConsumedSeen ==
  \A j \in Job : request[j].got = "consumed" => PreviewOf(j).consumed

CInv ==
  /\ CreationTypeOK
  /\ KeyNamesOneJob
  /\ PreviewSpentOnce
  /\ ReplayReturnsJobUnlessRaced
  /\ CreatedAnswered
  /\ OpenRaced
  /\ ConsumedSeen

-----------------------------------------------------------------------------
(* Steps of the job service *)

\* No row operation but Create's makes a row or removes one.
LEMMA RowOperationsKeepRows ==
  ASSUME NEW r, r.status # "NONE", r \in Row
  PROVE  /\ CanceledRow(r).status # "NONE"
         /\ CancelRequestedRow(r).status # "NONE"
         /\ SucceededRow(r).status # "NONE"
         /\ RequeuedRow(r).status # "NONE"
         /\ \A a : ClaimedRow(r, a).status # "NONE"
         /\ \A a, stage : ReportedRow(r, a, stage).status # "NONE"
         /\ \A a, code : FailedRow(r, a, code).status # "NONE"
  BY DEF CanceledRow, CancelRequestedRow, SucceededRow, RequeuedRow, ClaimedRow,
         ReportedRow, FailedRow, Row

\* The operations other than Create.
LEMMA LaterStepsKeepRows ==
  ASSUME IInv,
         \/ \E j \in Job : LaterStep(j)
         \/ Watcher
         \/ Crash
  PROVE  \A i \in Job : Exists(i)' <=> Exists(i)
  <1> DEFINE Kept(j, row) == Exists(j) /\ Writes(j, row) /\ row.status # "NONE"
  <1>1. \A j \in Job : job[j] \in Row /\ 1..job[j].attempt \subseteq Attempts
    BY ConstantsOK DEF IInv, TypeOK, Row, Attempts
  <1>2. ASSUME NEW j \in Job, NEW row, Kept(j, row)
        PROVE  \A i \in Job : Exists(i)' <=> Exists(i)
    BY <1>2 DEF Writes, Exists, IInv, TypeOK
  <1>3. ASSUME job' = job PROVE \A i \in Job : Exists(i)' <=> Exists(i)
    BY <1>3 DEF Exists
  <1>4. ASSUME NEW j \in Job, Cancel(j) \/ CompleteCanceled(j)
        PROVE  \E row : Kept(j, row)
    BY <1>1, <1>4, RowOperationsKeepRows DEF Cancel, CompleteCanceled, Exists
  <1>5. ASSUME NEW j \in Job, RetryCommit(j) PROVE \E row : Kept(j, row)
    <2>1. Exists(j)
      BY <1>5 DEF RetryCommit, IInv, LockedRows, Retryable, Exists
    <2>2. QED
      BY <1>1, <1>5, <2>1, RowOperationsKeepRows DEF RetryCommit, Exists
  <1>6. ASSUME NEW j \in Job, CompleteCommit(j) \/ CompleteUnanswered(j)
        PROVE  \E row : Kept(j, row)
    <2>1. Delivers(j)
      BY <1>6 DEF CompleteCommit, CompleteUnanswered
    <2>2. Exists(j)
      BY <2>1 DEF Delivers, IInv, LockedRows, Deliverable, Exists
    <2>3. QED
      BY <1>1, <2>1, <2>2, RowOperationsKeepRows DEF Delivers, Exists
  <1>7. ASSUME NEW j \in Job, NEW a, Claim(j, a) \/ Fail(j, a)
        PROVE  \E row : Kept(j, row)
    BY <1>1, <1>7, RowOperationsKeepRows DEF Claim, Fail, Exists
  <1>8. ASSUME NEW j \in Job, NEW a, NEW stage, ReportProgress(j, a, stage)
        PROVE  \E row : Kept(j, row)
    BY <1>1, <1>8, RowOperationsKeepRows DEF ReportProgress, Exists
  <1>9. ASSUME NEW j \in Job, NEW a \in Attempts, WatchFail(j, a)
        PROVE  \A i \in Job : Exists(i)' <=> Exists(i)
    <2>1. CASE Exists(j)
      BY <1>1, <1>2, <1>9, <2>1, RowOperationsKeepRows DEF WatchFail, Exists
    <2>2. CASE ~Exists(j)
      <3>1. job[j].cancelReq = FALSE
        BY <2>2 DEF Exists, IInv, AllRows, RowInv, NoRow
      <3>2. FailedRow(job[j], a, "GENERATION_TIMEOUT") = job[j]
        BY <2>2, <3>1 DEF FailedRow, Exists, ActiveStatuses
      <3>3. job' = job
        BY <1>9, <3>2 DEF WatchFail, Writes, IInv, TypeOK
      <3>4. QED
        BY <1>3, <3>3
    <2>3. QED
      BY <2>1, <2>2
  <1>10. ASSUME NEW j \in Job, CreatedAges(j) \/ StartedAges(j)
         PROVE  \E row : Kept(j, row)
    <2>1. CASE CreatedAges(j)
      BY <1>1, <2>1 DEF CreatedAges, Exists, Row
    <2>2. CASE StartedAges(j)
      <3>1. Exists(j)
        BY <2>2 DEF StartedAges, Exists, IInv, AllRows, RowInv, NoRow
      <3>2. QED
        BY <1>1, <2>2, <3>1 DEF StartedAges, Exists, Row
    <2>3. QED
      BY <1>10, <2>1, <2>2
  <1>11. ASSUME NEW j \in Job,
                \/ RetryCheck(j) \/ RetryRollback(j)
                \/ CompleteRollback(j) \/ CompleteRollbackLeak(j)
                \/ \E a \in Attempts : CompletePut(j, a)
         PROVE  job' = job
    BY <1>11 DEF RetryCheck, RetryRollback, CompleteRollback, CompleteRollbackLeak,
                 CompletePut, tables
  <1>12. WatchScan \/ Crash => job' = job
    BY DEF WatchScan, Crash, tables
  <1>13. ASSUME NEW j \in Job, LaterStep(j)
         PROVE  \A i \in Job : Exists(i)' <=> Exists(i)
    BY <1>1, <1>2, <1>3, <1>4, <1>5, <1>6, <1>7, <1>8, <1>11, <1>13 DEF LaterStep, Workers
  <1>14. ASSUME Watcher PROVE \A i \in Job : Exists(i)' <=> Exists(i)
    BY <1>2, <1>3, <1>9, <1>10, <1>12, <1>14 DEF Watcher
  <1>15. QED
    BY <1>3, <1>12, <1>13, <1>14

\* Every step of the creation is a step of the job service or leaves its tables
\* alone.
LEMMA CreationStepsAreServiceSteps == [CreationNext]_allCreationVars => [Next]_vars
  <1> SUFFICES ASSUME [CreationNext]_allCreationVars PROVE [Next]_vars
    OBVIOUS
  <1>1. ASSUME NEW p \in Preview, PreviewPrompt(p) \/ PreviewExpires(p) PROVE UNCHANGED vars
    BY <1>1 DEF PreviewPrompt, PreviewExpires
  <1>2. ASSUME NEW j \in Job,
               CreateLookup(j) \/ CreateRefused(j) \/ CreateDuplicate(j) \/ CreateFails(j)
        PROVE  UNCHANGED vars
    BY <1>2 DEF CreateLookup, CreateRefused, CreateDuplicate, CreateFails
  <1>3. ASSUME NEW j \in Job, CreateCommit(j) PROVE Next
    BY <1>3 DEF CreateCommit, Next, Owners
  <1>4. ASSUME NEW j \in Job, LaterStep(j) PROVE Next
    BY <1>4 DEF LaterStep, Next, Owners
  <1>5. WatcherStep \/ CreationCrash => Next
    BY DEF WatcherStep, CreationCrash, Next
  <1>6. UNCHANGED allCreationVars => UNCHANGED vars
    BY DEF allCreationVars
  <1>7. QED
    BY <1>1, <1>2, <1>3, <1>4, <1>5, <1>6 DEF CreationNext

\* The unique index, per user or not, lets no second job through for a user's key.
LEMMA KeyedCollide == \A j \in Job : Keyed(j) \subseteq Colliding(j)
  BY DEF Keyed, Colliding, SameKey

-----------------------------------------------------------------------------
(* The invariant *)

LEMMA InitCInv == CreationInit => CInv
  <1> SUFFICES ASSUME CreationInit PROVE CInv
    OBVIOUS
  <1>1. \A j \in Job : ~Exists(j)
    BY DEF CreationInit, Init, NoRow, Exists
  <1>2. \A j \in Job : request[j] = [at |-> "new", fresh |-> FALSE, got |-> "none"]
    BY DEF CreationInit
  <1>3. CreationTypeOK
    BY DEF CreationInit, CreationTypeOK, PreviewRow, Requests
  <1>4. PreviewSpentOnce
    BY <1>1 DEF PreviewSpentOnce, CreationInit
  <1>5. KeyNamesOneJob
    BY <1>1, <1>2, CreationConstantsOK DEF KeyNamesOneJob
  <1>6. QED
    BY <1>1, <1>2, <1>3, <1>4, <1>5
       DEF CInv, ReplayReturnsJobUnlessRaced, CreatedAnswered, OpenRaced, ConsumedSeen

\* A step that makes no row and touches neither requests nor previews.
LEMMA OtherStepKeepsCInv ==
  ASSUME CInv, UNCHANGED creationVars, \A i \in Job : Exists(i)' <=> Exists(i)
  PROVE  CInv'
  <1>1. UNCHANGED <<preview, request, raced>>
    BY DEF creationVars
  <1>2. CreationTypeOK'
    BY <1>1 DEF CInv, CreationTypeOK
  <1>3. KeyNamesOneJob'
    BY <1>1, CreationTypeOK DEF CInv, KeyNamesOneJob, Keyed
  <1>4. PreviewSpentOnce'
    BY <1>1 DEF CInv, PreviewSpentOnce
  <1>5. ReplayReturnsJobUnlessRaced' /\ CreatedAnswered' /\ OpenRaced' /\ ConsumedSeen'
    BY <1>1 DEF CInv, ReplayReturnsJobUnlessRaced, CreatedAnswered, OpenRaced,
                ConsumedSeen, PreviewOf
  <1>6. QED
    BY <1>2, <1>3, <1>4, <1>5 DEF CInv

\* A request that has not ended is answered, and nothing else happens.
LEMMA AnswerKeepsCInv ==
  ASSUME CInv,
         NEW j \in Job, request[j].at # "answered",
         NEW got \in Job \cup Refusals, Answers(j, got),
         job' = job, preview' = preview, raced' = raced,
         got \in Job => Exists(got) /\ Repeats(got, j),
         got = "conflict" => \E i \in Keyed(j) : ~SameHash(i, j),
         got = "consumed" => PreviewOf(j).consumed /\ request[j].at = "open"
  PROVE  CInv'
  <1>1. \A i \in Job : Exists(i)' <=> Exists(i)
    BY DEF Exists
  <1>2. /\ request' \in [Job -> Requests]
        /\ request'[j] = [at |-> "answered", fresh |-> FALSE, got |-> got]
        /\ \A i \in Job \ {j} : request'[i] = request[i]
    BY DEF CInv, CreationTypeOK, Requests, Answers
  <1>3. "none" \notin Job \cup Refusals
    BY CreationConstantsOK DEF Refusals
  <1>4. ~Exists(j)
    BY DEF CInv, CreatedAnswered
  <1>5. CreationTypeOK'
    BY <1>2, <1>3 DEF CInv, CreationTypeOK
  <1>6. KeyNamesOneJob'
    BY <1>1, <1>2 DEF CInv, KeyNamesOneJob, Keyed
  <1>7. PreviewSpentOnce'
    BY <1>1 DEF CInv, PreviewSpentOnce
  <1>8. ReplayReturnsJobUnlessRaced'
    BY <1>1, <1>2 DEF CInv, ReplayReturnsJobUnlessRaced, OpenRaced
  <1>9. CreatedAnswered' /\ OpenRaced' /\ ConsumedSeen'
    BY <1>1, <1>2, <1>4 DEF CInv, CreatedAnswered, OpenRaced, ConsumedSeen, PreviewOf
  <1>10. QED
    BY <1>5, <1>6, <1>7, <1>8, <1>9 DEF CInv

\* The answer to a request whose key has a job.
LEMMA ReplyKeepsCInv ==
  ASSUME CInv,
         NEW j \in Job, request[j].at # "answered",
         NEW i \in Keyed(j), Answers(j, ReplyWith(j, i)),
         job' = job, preview' = preview, raced' = raced
  PROVE  CInv'
  <1>1. i \in Job /\ Exists(i) /\ SameKey(i, j)
    BY DEF Keyed
  <1>2. "conflict" \in Refusals /\ "consumed" \in Refusals
    BY DEF Refusals
  <1>3. CASE SameHash(i, j)
    BY <1>1, <1>2, <1>3, AnswerKeepsCInv, CreationConstantsOK DEF ReplyWith, Repeats
  <1>4. CASE ~SameHash(i, j)
    BY <1>1, <1>2, <1>4, AnswerKeepsCInv, CreationConstantsOK DEF ReplyWith
  <1>5. QED
    BY <1>3, <1>4

LEMMA LookupKeepsCInv ==
  ASSUME CInv, NEW j \in Job, CreateLookup(j)
  PROVE  CInv'
  <1>1. UNCHANGED <<vars, preview, raced>> /\ job' = job /\ request[j].at = "new"
    BY DEF CreateLookup, vars
  <1>2. CASE \E i \in Keyed(j) : Answers(j, ReplyWith(j, i))
    BY <1>1, <1>2, ReplyKeepsCInv
  <1>3. CASE /\ Keyed(j) = {}
             /\ request' = [request EXCEPT ![j].at = "open",
                                           ![j].fresh = PreviewOf(j).age = "fresh"]
    <2>1. \A i \in Job : Exists(i)' <=> Exists(i)
      BY <1>1 DEF Exists
    <2>2. /\ request' \in [Job -> Requests]
          /\ request'[j].at = "open" /\ request'[j].got = request[j].got
          /\ \A i \in Job \ {j} : request'[i] = request[i]
      <3> DEFINE isFresh == PreviewOf(j).age = "fresh"
      <3>1. isFresh \in BOOLEAN
        OBVIOUS
      <3>2. request' = [request EXCEPT ![j].at = "open", ![j].fresh = isFresh]
        BY <1>3
      <3> HIDE DEF isFresh
      <3>3. request \in [Job -> Requests]
        BY DEF CInv, CreationTypeOK
      <3>4. QED
        BY <3>1, <3>2, <3>3 DEF Requests
    <2>3. request[j].got = "none" /\ "none" \notin Job
      BY <1>1, CreationConstantsOK DEF CInv, CreationTypeOK
    <2>4. CreationTypeOK'
      BY <1>1, <2>2, <2>3 DEF CInv, CreationTypeOK
    <2>5. KeyNamesOneJob'
      BY <2>1, <2>2, <2>3 DEF CInv, KeyNamesOneJob, Keyed
    <2>6. PreviewSpentOnce'
      BY <1>1, <2>1 DEF CInv, PreviewSpentOnce
    <2>7. ReplayReturnsJobUnlessRaced'
      BY <1>1, <2>1, <2>2 DEF CInv, ReplayReturnsJobUnlessRaced
    <2>8. CreatedAnswered'
      BY <1>1, <2>1, <2>2 DEF CInv, CreatedAnswered
    <2>9. OpenRaced'
      BY <1>1, <1>3, <2>1, <2>2 DEF CInv, OpenRaced, Repeats, Keyed
    <2>10. ConsumedSeen'
      BY <1>1, <2>2, <2>3 DEF CInv, ConsumedSeen, PreviewOf
    <2>11. QED
      BY <2>4, <2>5, <2>6, <2>7, <2>8, <2>9, <2>10 DEF CInv
  <1>4. QED
    BY <1>2, <1>3 DEF CreateLookup

LEMMA CommitKeepsCInv ==
  ASSUME CInv, TypeOK, NEW j \in Job, CreateCommit(j)
  PROVE  CInv'
  <1> DEFINE p == Asked[j].preview
  <1>1. PICK got \in {j, "failed"} : Answers(j, got)
    BY DEF CreateCommit
  <1>2. /\ ~Exists(j) /\ Exists(j)'
        /\ \A i \in Job \ {j} : Exists(i)' <=> Exists(i)
    BY DEF CreateCommit, Create, Writes, Exists, CreatedRow, TypeOK
  <1>3. /\ request' \in [Job -> Requests]
        /\ request'[j] = [at |-> "answered", fresh |-> FALSE, got |-> got]
        /\ \A i \in Job \ {j} : request'[i] = request[i]
    <2>1. got \in Job \cup Refusals \cup {"none"}
      BY DEF Refusals
    <2>2. QED
      BY <1>1, <2>1 DEF CInv, CreationTypeOK, Requests, Answers
  <1>4. p \in Preview /\ \A i \in Job : Asked[i].preview \in Preview
    BY CreationConstantsOK
  <1>5. /\ preview' \in [Preview -> PreviewRow]
        /\ preview'[p].consumed
        /\ \A q \in Preview \ {p} : preview'[q] = preview[q]
    BY <1>4 DEF CreateCommit, CInv, CreationTypeOK, PreviewRow
  <1>6. ~preview[p].consumed /\ Keyed(j) = {}
    BY KeyedCollide DEF CreateCommit, Accepted, PreviewOf
  <1>7. raced' = raced \cup {i \in Job : request[i].at = "open" /\ Repeats(i, j) /\ i # j}
    BY DEF CreateCommit
  <1>8. got \notin {"none", "conflict", "consumed"}
    BY CreationConstantsOK DEF Refusals
  <1>9. \A i \in Job : Repeats(i, j) <=> Repeats(j, i)
    BY DEF Repeats, SameKey, SameHash
  <1>10. CreationTypeOK'
    BY <1>3, <1>5, <1>7, <1>8 DEF CInv, CreationTypeOK
  <1>11. KeyNamesOneJob'
    <2>1. \A i \in Job : Exists(i) => ~SameKey(i, j) /\ ~SameKey(j, i)
      BY <1>6 DEF Keyed, SameKey
    <2>2. \A i, k \in Job : Exists(i)' /\ Exists(k)' /\ SameKey(i, k) => i = k
      BY <1>2, <2>1 DEF CInv, KeyNamesOneJob
    <2>3. ASSUME NEW i \in Job, NEW k \in Job, request'[i].got = k
          PROVE  Exists(k)' /\ Repeats(k, i)
      <3>1. CASE i = j
        <4>1. k = j
          BY <1>3, <2>3, <3>1, CreationConstantsOK DEF Refusals
        <4>2. QED
          BY <1>2, <3>1, <4>1 DEF Repeats, SameKey, SameHash
      <3>2. CASE i # j
        BY <1>2, <1>3, <2>3, <3>2 DEF CInv, KeyNamesOneJob
      <3>3. QED
        BY <3>1, <3>2
    <2>4. \A i \in Job : Keyed(i) \subseteq Keyed(i)'
      BY <1>2 DEF Keyed
    <2>5. \A i \in Job : request'[i].got = "conflict" =>
            \E k \in Keyed(i)' : ~SameHash(k, i)
      BY <1>3, <1>8, <2>4 DEF CInv, KeyNamesOneJob
    <2>6. QED
      BY <2>2, <2>3, <2>5 DEF KeyNamesOneJob
  <1>12. PreviewSpentOnce'
    <2>1. \A i \in Job : Exists(i) => Asked[i].preview # p
      BY <1>4, <1>6 DEF CInv, PreviewSpentOnce
    <2>2. \A i, k \in Job :
            Exists(i)' /\ Exists(k)' /\ Asked[i].preview = Asked[k].preview => i = k
      BY <1>2, <2>1 DEF CInv, PreviewSpentOnce
    <2>3. \A q \in Preview :
            preview'[q].consumed <=> \E i \in Job : Exists(i)' /\ Asked[i].preview = q
      BY <1>2, <1>5 DEF CInv, PreviewSpentOnce
    <2>4. QED
      BY <2>2, <2>3 DEF PreviewSpentOnce
  <1>13. ReplayReturnsJobUnlessRaced'
    <2>1. ASSUME NEW i \in Job, Repeats(j, i), request[i].got = "consumed" PROVE FALSE
      BY <1>6, <2>1 DEF CInv, ConsumedSeen, PreviewOf, Repeats, SameHash
    <2>2. QED
      BY <1>2, <1>3, <1>7, <1>8, <2>1 DEF CInv, ReplayReturnsJobUnlessRaced
  <1>14. CreatedAnswered'
    BY <1>2, <1>3 DEF CInv, CreatedAnswered
  <1>15. OpenRaced'
    BY <1>2, <1>3, <1>7, <1>9 DEF CInv, OpenRaced
  <1>16. ConsumedSeen'
    BY <1>3, <1>4, <1>5, <1>8 DEF CInv, ConsumedSeen, PreviewOf
  <1>17. QED
    BY <1>10, <1>11, <1>12, <1>13, <1>14, <1>15, <1>16 DEF CInv

LEMMA CreationCrashKeepsCInv ==
  ASSUME CInv, IInv, CreationCrash
  PROVE  CInv'
  <1>1. UNCHANGED <<preview, raced>> /\ Crash
    BY DEF CreationCrash
  <1>2. \A i \in Job : Exists(i)' <=> Exists(i)
    BY <1>1, LaterStepsKeepRows
  <1>3. /\ request' \in [Job -> Requests]
        /\ \A i \in Job :
             IF request[i].at = "open" THEN request'[i].at = "answered" /\ request'[i].got = "failed"
             ELSE request'[i] = request[i]
    <2> DEFINE ended == [at |-> "answered", fresh |-> FALSE, got |-> "failed"]
    <2>1. \A i \in Job :
            request'[i] = IF request[i].at = "open" THEN ended ELSE request[i]
      BY DEF CreationCrash
    <2>2. ended \in Requests
      BY DEF Requests, Refusals
    <2>3. request' \in [Job -> Requests]
      BY <2>1, <2>2 DEF CreationCrash, CInv, CreationTypeOK
    <2>4. QED
      BY <2>1, <2>3
  <1>4. "failed" \notin Job
    BY CreationConstantsOK DEF Refusals
  <1>5. CreationTypeOK'
    BY <1>1, <1>3 DEF CInv, CreationTypeOK
  <1>6. KeyNamesOneJob'
    <2>1. \A i \in Job : Keyed(i)' = Keyed(i)
      BY <1>2 DEF Keyed
    <2>2. \A i \in Job :
            request'[i].got \in Job \cup {"conflict"} => request'[i] = request[i]
      BY <1>3, <1>4
    <2>3. QED
      BY <1>2, <2>1, <2>2 DEF CInv, KeyNamesOneJob
  <1>7. PreviewSpentOnce'
    BY <1>1, <1>2 DEF CInv, PreviewSpentOnce
  <1>8. ReplayReturnsJobUnlessRaced' /\ CreatedAnswered' /\ OpenRaced' /\ ConsumedSeen'
    BY <1>1, <1>2, <1>3 DEF CInv, ReplayReturnsJobUnlessRaced, CreatedAnswered, OpenRaced,
                            ConsumedSeen, PreviewOf
  <1>9. QED
    BY <1>5, <1>6, <1>7, <1>8 DEF CInv

LEMMA NextKeepsCInv ==
  CInv /\ IInv /\ [CreationNext]_allCreationVars => CInv'
  <1> SUFFICES ASSUME CInv, IInv, [CreationNext]_allCreationVars PROVE CInv'
    OBVIOUS
  <1>1. ASSUME NEW p \in Preview, PreviewPrompt(p) \/ PreviewExpires(p) PROVE CInv'
    <2>1. UNCHANGED <<vars, request, raced>> /\ job' = job
      BY <1>1 DEF PreviewPrompt, PreviewExpires, vars
    <2>2. /\ preview' \in [Preview -> PreviewRow]
          /\ \A q \in Preview : preview'[q].consumed = preview[q].consumed
      BY <1>1 DEF PreviewPrompt, PreviewExpires, CInv, CreationTypeOK, PreviewRow
    <2>3. \A i \in Job : (Exists(i)' <=> Exists(i)) /\ Asked[i].preview \in Preview
      BY <2>1, CreationConstantsOK DEF Exists
    <2>4. CreationTypeOK' /\ PreviewSpentOnce'
      BY <2>1, <2>2, <2>3 DEF CInv, CreationTypeOK, PreviewSpentOnce
    <2>5. KeyNamesOneJob'
      BY <2>1, <2>3 DEF CInv, KeyNamesOneJob, Keyed
    <2>6. ReplayReturnsJobUnlessRaced' /\ CreatedAnswered' /\ OpenRaced' /\ ConsumedSeen'
      BY <2>1, <2>2, <2>3 DEF CInv, ReplayReturnsJobUnlessRaced, CreatedAnswered,
                              OpenRaced, ConsumedSeen, PreviewOf
    <2>7. QED
      BY <2>4, <2>5, <2>6 DEF CInv
  <1>2. ASSUME NEW j \in Job, CreateLookup(j) PROVE CInv'
    BY <1>2, LookupKeepsCInv
  <1>3. ASSUME NEW j \in Job, CreateCommit(j) PROVE CInv'
    BY <1>3, CommitKeepsCInv DEF IInv
  <1>4. ASSUME NEW j \in Job,
               \/ CreateRefused(j) \/ CreateFails(j)
               \/ CreateDuplicate(j) /\ Answers(j, "unresolved")
        PROVE  CInv'
    <2>1. UNCHANGED <<vars, preview, raced>> /\ job' = job /\ request[j].at # "answered"
      BY <1>4 DEF CreateRefused, CreateFails, CreateDuplicate, Accepted, vars
    <2>2. {"unresolved", "consumed", "expired", "limit", "failed"} \subseteq Refusals
      BY DEF Refusals
    <2>3. PICK got \in {"unresolved", "consumed", "expired", "limit", "failed"} :
            /\ Answers(j, got)
            /\ got = "consumed" => PreviewOf(j).consumed /\ request[j].at = "open"
      BY <1>4 DEF CreateRefused, CreateFails
    <2>4. got \in Refusals /\ got \notin Job /\ got # "conflict"
      BY <2>2, <2>3, CreationConstantsOK
    <2>5. QED
      BY <2>1, <2>3, <2>4, AnswerKeepsCInv
  <1>5. ASSUME NEW j \in Job, CreateDuplicate(j) PROVE CInv'
    <2>1. UNCHANGED <<vars, preview, raced>> /\ job' = job /\ request[j].at = "open"
      BY <1>5 DEF CreateDuplicate, Accepted, vars
    <2>2. CASE \E i \in Keyed(j) : Answers(j, ReplyWith(j, i))
      BY <2>1, <2>2, ReplyKeepsCInv
    <2>3. CASE Answers(j, "unresolved")
      BY <1>4, <1>5, <2>3
    <2>4. QED
      BY <1>5, <2>2, <2>3 DEF CreateDuplicate
  <1>6. ASSUME NEW j \in Job, LaterStep(j) PROVE CInv'
    BY <1>6, LaterStepsKeepRows, OtherStepKeepsCInv DEF LaterStep
  <1>7. CASE WatcherStep
    BY <1>7, LaterStepsKeepRows, OtherStepKeepsCInv DEF WatcherStep
  <1>8. CASE CreationCrash
    BY <1>8, CreationCrashKeepsCInv
  <1>9. CASE UNCHANGED allCreationVars
    BY <1>9, OtherStepKeepsCInv DEF allCreationVars, vars, Exists
  <1>10. QED
    BY <1>1, <1>2, <1>3, <1>4, <1>5, <1>6, <1>7, <1>8, <1>9 DEF CreationNext

-----------------------------------------------------------------------------
(* Theorems *)

\* Whatever is proved of the job service holds of it with its creation: every
\* step of the requests and previews is a step of GenerationJob or a stutter.
THEOREM CreationUsesService == CreationSpec => CreationRefined
  <1>1. CreationInit => Init
    BY DEF CreationInit
  <1>2. QED
    BY <1>1, CreationStepsAreServiceSteps, PTL DEF CreationSpec, CreationRefined, Spec

\* The inductive invariant holds in every reachable state.
THEOREM CreationInvariance == CreationSpec => [](CInv /\ IInv)
  <1>1. CreationSpec => []IInv
    BY CreationUsesService, Invariance, PTL DEF CreationRefined
  <1>2. CreationInit => CInv
    BY InitCInv
  <1>3. CInv /\ IInv /\ [CreationNext]_allCreationVars => CInv'
    BY NextKeepsCInv
  <1>4. QED
    BY <1>1, <1>2, <1>3, PTL DEF CreationSpec

\* Previews and requests keep their types; only an ended request has an answer.
THEOREM CreationTypeCorrect == CreationSpec => []CreationTypeOK
  <1>1. CInv => CreationTypeOK
    BY DEF CInv
  <1>2. QED
    BY <1>1, CreationInvariance, PTL

\* A key names one job, and nobody is answered with a job he did not ask for.
THEOREM KeysNameOneJob == CreationSpec => []KeyNamesOneJob
  <1>1. CInv => KeyNamesOneJob
    BY DEF CInv
  <1>2. QED
    BY <1>1, CreationInvariance, PTL

\* A preview pays for one job, and is spent only with that job.
THEOREM PreviewsSpentOnce == CreationSpec => []PreviewSpentOnce
  <1>1. CInv => PreviewSpentOnce
    BY DEF CInv
  <1>2. QED
    BY <1>1, CreationInvariance, PTL

\* A repetition gets the job, unless it raced the request that created it.
THEOREM ReplaysReturnJobs == CreationSpec => []ReplayReturnsJobUnlessRaced
  <1>1. CInv => ReplayReturnsJobUnlessRaced
    BY DEF CInv
  <1>2. QED
    BY <1>1, CreationInvariance, PTL

\* A job created through a preview and a key lives as its owner is promised.
THEOREM CreatedJobsKeepLifecycle == CreationSpec => LifecycleKept
  BY CreationUsesService, ServiceKeepsLifecycle, PTL DEF CreationRefined

\* The limit that Create checks holds for whoever, while he retries one job, neither
\* retries another nor creates one, however many requests race to create one.
THEOREM CreationKeepsLimit ==
  CreationSpec /\ []RetriesWithin(1) /\ [][CreatesAlone]_vars => []ActiveLimit
  BY CreationUsesService, LimitHeldAlone, PTL DEF CreationRefined

-----------------------------------------------------------------------------
(* Refinement of IdempotentRequests *)

answered == [j \in Job |-> FateOf(request[j])]
named == [j \in Job |-> IF request[j].got \in Job THEN request[j].got ELSE j]
jobKeys == [j \in Job |-> <<Owner[j], Asked[j].key>>]
jobBodies == [j \in Job |-> <<Asked[j].preview, Asked[j].content>>]
created == {j \in Job : Exists(j)}

\* The instance, with what it is about given a name.
LEMMA CreateRequestsAre ==
  /\ CreateRequests!Init <=> /\ created = {}
                             /\ answered = [j \in Job |-> "waiting"]
                             /\ named = [j \in Job |-> j]
  /\ UNCHANGED <<created, answered, named>> => UNCHANGED CreateRequests!requestVars
  /\ \A j \in Job : CreateRequests!MadeFor(j) = {i \in created : jobKeys[i] = jobKeys[j]}
  /\ \A j \in Job : CreateRequests!Make(j) <=>
       /\ CreateRequests!MadeFor(j) = {}
       /\ created' = created \cup {j}
       /\ \/ answered' = [answered EXCEPT ![j] = "served"] /\ named' = [named EXCEPT ![j] = j]
          \/ answered' = [answered EXCEPT ![j] = "refused"] /\ named' = [named EXCEPT ![j] = j]
  /\ \A j \in Job : CreateRequests!Return(j) <=>
       /\ \E i \in CreateRequests!MadeFor(j) :
            /\ jobBodies[i] = jobBodies[j]
            /\ answered' = [answered EXCEPT ![j] = "served"]
            /\ named' = [named EXCEPT ![j] = i]
       /\ created' = created
  /\ \A j \in Job : CreateRequests!Conflict(j) <=>
       /\ \E i \in CreateRequests!MadeFor(j) : jobBodies[i] # jobBodies[j]
       /\ answered' = [answered EXCEPT ![j] = "conflict"]
       /\ named' = [named EXCEPT ![j] = j]
       /\ created' = created
  /\ \A j \in Job : CreateRequests!Refuse(j) <=>
       /\ \E lost \in SUBSET {i \in Job : answered[i] = "waiting"} :
            /\ j \in lost
            /\ answered' = [i \in Job |-> IF i \in lost THEN "refused" ELSE answered[i]]
       /\ created' = created /\ named' = named
  /\ CreateRequests!Next <=>
       \E j \in Job :
         /\ answered[j] = "waiting" /\ answered'[j] # "waiting"
         /\ \/ CreateRequests!Make(j) \/ CreateRequests!Return(j)
            \/ CreateRequests!Conflict(j) \/ CreateRequests!Refuse(j)
  BY DEF CreateRequests!Init, CreateRequests!requestVars, CreateRequests!MadeFor,
     CreateRequests!Make, CreateRequests!Return, CreateRequests!Conflict, CreateRequests!Refuse,
     CreateRequests!Waiting, CreateRequests!Answers, CreateRequests!Next,
     answered, named, jobKeys, jobBodies, created

\* A request is waiting until it is answered, and names no job but its own until
\* it is answered with one.
LEMMA Waits ==
  ASSUME CreationTypeOK, NEW j \in Job
  PROVE  /\ request[j].at # "answered" <=> answered[j] = "waiting"
         /\ request[j].at # "answered" => named[j] = j
  <1>1. request[j] \in Requests /\ (request[j].got = "none" <=> request[j].at # "answered")
    BY DEF CreationTypeOK
  <1>2. request[j].got \in Job \cup Refusals \cup {"none"}
    BY <1>1 DEF Requests
  <1>3. request[j].at # "answered" => request[j].got \notin Job
    BY <1>1, CreationConstantsOK
  <1>4. request[j].at = "answered" => FateOf(request[j]) # "waiting"
    <2> SUFFICES ASSUME request[j].at = "answered" PROVE FateOf(request[j]) # "waiting"
      OBVIOUS
    <2>1. request[j].got \in Job \cup {"conflict"} \cup (Refusals \ {"conflict"})
      BY <1>1, <1>2
    <2>2. CASE request[j].got \in Job
      BY <2>2, CreationConstantsOK DEF FateOf, Refusals
    <2>3. CASE request[j].got = "conflict"
      BY <2>3, CreationConstantsOK DEF FateOf, Refusals
    <2>4. CASE request[j].got \in Refusals \ {"conflict"}
      BY <2>4, CreationConstantsOK DEF FateOf, Refusals
    <2>5. QED
      BY <2>1, <2>2, <2>3, <2>4
  <1>5. request[j].at # "answered" => FateOf(request[j]) = "waiting"
    BY <1>1, CreationConstantsOK DEF FateOf, Refusals
  <1>6. QED
    BY <1>3, <1>4, <1>5 DEF answered, named

\* What an answer says.
AnswerOf(got) ==
  CASE got \in Job                     -> "served"
    [] got = "conflict"                -> "conflict"
    [] got \in Refusals \ {"conflict"} -> "refused"

\* An answer changes the fate of one request, and what it names.
LEMMA AnswersOne ==
  ASSUME CreationTypeOK, NEW j \in Job, request[j].at # "answered",
         NEW got \in Job \cup Refusals, Answers(j, got)
  PROVE  /\ answered[j] = "waiting" /\ answered'[j] # "waiting"
         /\ answered' = [answered EXCEPT ![j] = AnswerOf(got)]
         /\ named' = [named EXCEPT ![j] = IF got \in Job THEN got ELSE j]
  <1> DEFINE row == [at |-> "answered", fresh |-> FALSE, got |-> got]
  <1>1. \A i \in Job : request'[i] = IF i = j THEN row ELSE request[i]
    BY DEF Answers, CreationTypeOK
  <1>2. FateOf(row) = AnswerOf(got)
    BY DEF FateOf, AnswerOf
  <1>3. AnswerOf(got) # "waiting"
    BY DEF AnswerOf
  <1>4. /\ answered' = [i \in Job |-> FateOf(request'[i])]
        /\ answered = [i \in Job |-> FateOf(request[i])]
    BY DEF answered
  <1>5. answered' = [answered EXCEPT ![j] = AnswerOf(got)]
    BY <1>1, <1>2, <1>4
  <1>6. /\ named' = [i \in Job |-> IF request'[i].got \in Job THEN request'[i].got ELSE i]
        /\ named = [i \in Job |-> IF request[i].got \in Job THEN request[i].got ELSE i]
    BY DEF named
  <1>7. named' = [named EXCEPT ![j] = IF got \in Job THEN got ELSE j]
    BY <1>1, <1>6
  <1>8. answered[j] = "waiting" /\ answered'[j] = AnswerOf(got)
    BY Waits, <1>4, <1>5
  <1>9. QED
    BY <1>3, <1>5, <1>7, <1>8

\* A key that has a job already is answered with it or with a conflict.
LEMMA ReplyRefines ==
  ASSUME CreationTypeOK, NEW j \in Job, request[j].at # "answered",
         NEW i \in Keyed(j), Answers(j, ReplyWith(j, i)), job' = job
  PROVE  CreateRequests!Next
  <1>1. i \in Job /\ Exists(i) /\ SameKey(i, j)
    BY DEF Keyed
  <1>2. i \in CreateRequests!MadeFor(j)
    <2>1. i \in created /\ jobKeys[i] = jobKeys[j]
      BY <1>1 DEF created, jobKeys, SameKey
    <2>2. QED
      BY <2>1, CreateRequestsAre
  <1>3. created' = created
    BY DEF created, Exists
  <1>4. CASE SameHash(i, j)
    <2>1. Answers(j, i) /\ AnswerOf(i) = "served"
      BY <1>1, <1>4, CreationConstantsOK DEF ReplyWith, AnswerOf, Refusals
    <2>2. /\ answered[j] = "waiting" /\ answered'[j] # "waiting"
          /\ answered' = [answered EXCEPT ![j] = "served"]
          /\ named' = [named EXCEPT ![j] = i]
      BY <1>1, <2>1, AnswersOne
    <2>3. jobBodies[i] = jobBodies[j]
      BY <1>1, <1>4 DEF jobBodies, SameHash
    <2>4. CreateRequests!Return(j)
      BY <1>2, <1>3, <2>2, <2>3, CreateRequestsAre
    <2>5. QED
      BY <2>2, <2>4, CreateRequestsAre
  <1>5. CASE ~SameHash(i, j)
    <2>1. /\ Answers(j, "conflict") /\ AnswerOf("conflict") = "conflict"
          /\ "conflict" \in Refusals /\ "conflict" \notin Job
      BY <1>5, CreationConstantsOK DEF ReplyWith, AnswerOf, Refusals
    <2>2. /\ answered[j] = "waiting" /\ answered'[j] # "waiting"
          /\ answered' = [answered EXCEPT ![j] = "conflict"]
          /\ named' = [named EXCEPT ![j] = j]
      BY <2>1, AnswersOne
    <2>3. jobBodies[i] # jobBodies[j]
      BY <1>1, <1>5 DEF jobBodies, SameHash
    <2>4. CreateRequests!Conflict(j)
      BY <1>2, <1>3, <2>2, <2>3, CreateRequestsAre
    <2>5. QED
      BY <2>2, <2>4, CreateRequestsAre
  <1>6. QED
    BY <1>4, <1>5

\* A refusal makes nothing.
LEMMA RefusalRefines ==
  ASSUME CreationTypeOK, NEW j \in Job, request[j].at # "answered",
         NEW got \in Refusals \ {"conflict"}, Answers(j, got), job' = job
  PROVE  CreateRequests!Next
  <1>1. got \in Refusals /\ got \notin Job /\ AnswerOf(got) = "refused"
    BY CreationConstantsOK DEF AnswerOf
  <1>2. /\ answered[j] = "waiting" /\ answered'[j] # "waiting"
        /\ answered' = [answered EXCEPT ![j] = "refused"]
        /\ named' = [named EXCEPT ![j] = j]
    BY <1>1, AnswersOne
  <1>3. named' = named
    <2>1. named[j] = j
      BY Waits
    <2>2. named = [i \in Job |-> named[i]]
      BY DEF named
    <2>3. QED
      BY <1>2, <2>1, <2>2
  <1>4. created' = created
    BY DEF created, Exists
  <1>5. CreateRequests!Refuse(j)
    <2>1. answered' = [i \in Job |-> IF i \in {j} THEN "refused" ELSE answered[i]]
      BY <1>2 DEF answered
    <2>2. {j} \in SUBSET {i \in Job : answered[i] = "waiting"}
      BY <1>2
    <2>3. \E lost \in SUBSET {i \in Job : answered[i] = "waiting"} :
            /\ j \in lost
            /\ answered' = [i \in Job |-> IF i \in lost THEN "refused" ELSE answered[i]]
      BY <2>1, <2>2
    <2>4. QED
      BY <1>3, <1>4, <2>3, CreateRequestsAre
  <1>6. QED
    BY <1>2, <1>5, CreateRequestsAre

\* The request whose transaction commits makes the job, also if its answer is lost.
LEMMA CreateCommitRefines ==
  ASSUME CreationTypeOK, TypeOK, NEW j \in Job, CreateCommit(j)
  PROVE  CreateRequests!Next
  <1>1. PICK got \in {j, "failed"} : Answers(j, got)
    BY DEF CreateCommit
  <1>2. /\ got \in Job \cup Refusals
        /\ (IF got \in Job THEN got ELSE j) = j
        /\ AnswerOf(got) \in {"served", "refused"}
    <2>1. "failed" \in Refusals /\ "failed" \notin Job /\ "conflict" \notin Job
      BY CreationConstantsOK DEF Refusals
    <2>2. CASE got = j
      BY <2>1, <2>2 DEF AnswerOf
    <2>3. CASE got = "failed"
      BY <2>1, <2>3 DEF AnswerOf
    <2>4. QED
      BY <2>2, <2>3
  <1>3. request[j].at # "answered"
    BY DEF CreateCommit, Accepted
  <1>4. /\ answered[j] = "waiting" /\ answered'[j] # "waiting"
        /\ answered' = [answered EXCEPT ![j] = AnswerOf(got)]
        /\ named' = [named EXCEPT ![j] = j]
    BY <1>1, <1>2, <1>3, AnswersOne
  <1>5. created' = created \cup {j}
    BY DEF CreateCommit, Create, Writes, Exists, CreatedRow, TypeOK, created
  <1>6. CreateRequests!MadeFor(j) = {}
    <2>1. Keyed(j) = {}
      BY KeyedCollide DEF CreateCommit
    <2>2. \A i \in created : jobKeys[i] # jobKeys[j]
      BY <2>1 DEF Keyed, created, jobKeys, SameKey
    <2>3. QED
      BY <2>2, CreateRequestsAre
  <1>7. CreateRequests!Make(j)
    BY <1>2, <1>4, <1>5, <1>6, CreateRequestsAre
  <1>8. QED
    BY <1>4, <1>7, CreateRequestsAre

\* The requests that die with the process are refused; what they may have made
\* stays made.
LEMMA CrashRefines ==
  ASSUME CreationTypeOK, IInv, CreationCrash
  PROVE  CreateRequests!Next \/ UNCHANGED CreateRequests!requestVars
  <1> DEFINE lost == {j \in Job : request[j].at = "open"}
             row == [at |-> "answered", fresh |-> FALSE, got |-> "failed"]
  <1>1. \A i \in Job : request'[i] = IF i \in lost THEN row ELSE request[i]
    BY DEF CreationCrash
  <1>2. created' = created
    BY LaterStepsKeepRows DEF CreationCrash, created
  <1>3. FateOf(row) = "refused" /\ row.got \notin Job
    BY CreationConstantsOK DEF FateOf, Refusals
  <1>4. answered' = [i \in Job |-> IF i \in lost THEN "refused" ELSE answered[i]]
    <2>1. answered' = [i \in Job |-> FateOf(request'[i])]
      BY DEF answered
    <2>2. QED
      BY <1>1, <1>3, <2>1 DEF answered
  <1>5. named' = named
    <2>1. named' = [i \in Job |-> IF request'[i].got \in Job THEN request'[i].got ELSE i]
      BY DEF named
    <2>2. \A i \in lost : named[i] = i
      BY Waits
    <2>3. \A i \in Job : named[i] = IF request[i].got \in Job THEN request[i].got ELSE i
      BY DEF named
    <2>4. named = [i \in Job |-> named[i]]
      BY DEF named
    <2>5. QED
      BY <1>1, <1>3, <2>1, <2>2, <2>3, <2>4
  <1>6. lost \in SUBSET {i \in Job : answered[i] = "waiting"}
    BY Waits
  <1>7. CASE lost = {}
    <2>1. answered' = answered
      BY <1>4, <1>7 DEF answered
    <2>2. QED
      BY <1>2, <1>5, <2>1, CreateRequestsAre
  <1>8. ASSUME NEW j \in lost PROVE CreateRequests!Next
    <2>1. CreateRequests!Refuse(j)
      BY <1>2, <1>4, <1>5, <1>6, CreateRequestsAre
    <2>2. answered[j] = "waiting" /\ answered'[j] # "waiting"
      BY <1>4, <1>6
    <2>3. QED
      BY <2>1, <2>2, CreateRequestsAre
  <1>9. QED
    BY <1>7, <1>8

\* Everything else makes no job and answers nobody.
LEMMA OthersAnswer ==
  ASSUME request' = request, \A i \in Job : Exists(i)' <=> Exists(i)
  PROVE  UNCHANGED CreateRequests!requestVars
  BY CreateRequestsAre DEF created, answered, named

\* Every step of the creation of jobs is one of the idempotent requests, or none.
LEMMA NextKeepsJobKeys ==
  CInv /\ IInv /\ [CreationNext]_allCreationVars
    => [CreateRequests!Next]_(CreateRequests!requestVars)
  <1> DEFINE Goal == CreateRequests!Next \/ UNCHANGED CreateRequests!requestVars
  <1> SUFFICES ASSUME CInv, IInv, [CreationNext]_allCreationVars PROVE Goal
    OBVIOUS
  <1>0. CreationTypeOK /\ TypeOK
    BY DEF CInv, IInv
  <1>1. ASSUME NEW p \in Preview, PreviewPrompt(p) \/ PreviewExpires(p) PROVE Goal
    BY <1>1, OthersAnswer DEF PreviewPrompt, PreviewExpires, vars, Exists
  <1>2. ASSUME NEW j \in Job, CreateLookup(j) PROVE Goal
    <2>1. job' = job /\ request[j].at # "answered"
      BY <1>2 DEF CreateLookup, vars
    <2>2. CASE \E i \in Keyed(j) : Answers(j, ReplyWith(j, i))
      BY <1>0, <2>1, <2>2, ReplyRefines
    <2>3. CASE request' = [request EXCEPT ![j].at = "open",
                                          ![j].fresh = PreviewOf(j).age = "fresh"]
      <3>1. \A i \in Job : /\ request'[i].got = request[i].got
                           /\ request'[i].at # "answered" <=> request[i].at # "answered"
        BY <1>0, <2>1, <2>3 DEF CreationTypeOK, Requests
      <3>2. \A i \in Job : FateOf(request'[i]) = FateOf(request[i])
        BY <3>1 DEF FateOf
      <3>3. answered' = answered /\ named' = named
        BY <3>1, <3>2 DEF answered, named
      <3>4. created' = created
        BY <2>1 DEF created, Exists
      <3>5. QED
        BY <3>3, <3>4, CreateRequestsAre
    <2>4. QED
      BY <1>2, <2>2, <2>3 DEF CreateLookup
  <1>3. ASSUME NEW j \in Job, CreateCommit(j) PROVE Goal
    BY <1>0, <1>3, CreateCommitRefines
  <1>4. ASSUME NEW j \in Job, CreateRefused(j) \/ CreateFails(j) PROVE Goal
    <2>1. /\ request[j].at # "answered" /\ job' = job
          /\ \E got \in Refusals \ {"conflict"} : Answers(j, got)
      BY <1>4 DEF CreateRefused, CreateFails, Refusals, vars
    <2>2. QED
      BY <1>0, <2>1, RefusalRefines
  <1>5. ASSUME NEW j \in Job, CreateDuplicate(j) PROVE Goal
    <2>1. request[j].at # "answered" /\ job' = job
      BY <1>5 DEF CreateDuplicate, Accepted, vars
    <2>2. CASE \E i \in Keyed(j) : Answers(j, ReplyWith(j, i))
      BY <1>0, <2>1, <2>2, ReplyRefines
    <2>3. CASE Answers(j, "unresolved")
      <3>1. "unresolved" \in Refusals \ {"conflict"}
        BY DEF Refusals
      <3>2. QED
        BY <1>0, <2>1, <2>3, <3>1, RefusalRefines
    <2>4. QED
      BY <1>5, <2>2, <2>3 DEF CreateDuplicate
  <1>6. ASSUME NEW j \in Job, LaterStep(j) PROVE Goal
    BY <1>6, LaterStepsKeepRows, OthersAnswer DEF LaterStep, creationVars
  <1>7. CASE WatcherStep
    BY <1>7, LaterStepsKeepRows, OthersAnswer DEF WatcherStep, creationVars
  <1>8. CASE CreationCrash
    BY <1>0, <1>8, CrashRefines
  <1>9. CASE UNCHANGED allCreationVars
    BY <1>9, OthersAnswer DEF allCreationVars, creationVars, vars, Exists
  <1>10. QED
    BY <1>1, <1>2, <1>3, <1>4, <1>5, <1>6, <1>7, <1>8, <1>9 DEF CreationNext

\* The creation of jobs implements IdempotentRequests: a user's key makes one job,
\* whatever fails in between and however many copies of the request race, and every
\* answer that names a job or a conflict is true and final.
THEOREM CreationKeepsKeys == CreationSpec => JobKeysKept
  <1>1. CreationInit => CreateRequests!Init
    <2> SUFFICES ASSUME CreationInit PROVE CreateRequests!Init
      OBVIOUS
    <2>1. \A j \in Job : ~Exists(j)
      BY DEF CreationInit, Init, NoRow, Exists
    <2>2. \A j \in Job : request[j] = [at |-> "new", fresh |-> FALSE, got |-> "none"]
      BY DEF CreationInit
    <2>3. created = {}
      BY <2>1 DEF created
    <2>4. answered = [j \in Job |-> "waiting"] /\ named = [j \in Job |-> j]
      BY <2>2, CreationConstantsOK DEF answered, named, FateOf, Refusals
    <2>5. QED
      BY <2>3, <2>4, CreateRequestsAre
  <1>2. QED
    BY <1>1, NextKeepsJobKeys, CreationInvariance, PTL
       DEF CreationSpec, JobKeysKept, CreateRequests!Spec
=============================================================================
