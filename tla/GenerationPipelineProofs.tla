---------------------- MODULE GenerationPipelineProofs ----------------------
(***************************************************************************)
(* Theorems about GenerationPipeline, for any number of jobs, attempts,    *)
(* workers and mishaps.                                                    *)
(***************************************************************************)
EXTENDS GenerationPipeline, GenerationJobProofs

(***************************************************************************)
(* The inductive invariant.  What a worker's program counter says about    *)
(* the attempt it works on was true when the service answered the worker's *)
(* last call, and stays true whatever others do meanwhile, because an      *)
(* attempt never goes back: not from running to queued, not from ended to  *)
(* open (AttemptStep).                                                     *)
(***************************************************************************)
Between == {"idle", "stopped"}

TriesLeft ==
  \A j \in Job : \A a \in Attempts :
    sent[j][a].status = "PENDING" => sent[j][a].tries < MaxPublish

\* The stream announces only attempts that were opened.
StreamOpened ==
  \A e \in 1..Len(stream) : stream[e].attempt \in outbox[stream[e].job]

\* A row counts as published, or is about to, only when the stream has its entry.
PublishedStreamed ==
  \A j \in Job : \A a \in Attempts :
    sent[j][a].status = "PUBLISHED" \/ <<j, a>> \in sending
      => \E e \in 1..Len(stream) : Message(e) = <<j, a>>

WorkersPlaced ==
  \A w \in Worker : worker[w].pc \notin Between => worker[w].entry # 0

\* Workers whose claim was answered with the attempt to run.
Executing(w) == worker[w].pc \in DOMAIN Reports \cup {"complete", "completing"}

\* A job whose attempt a worker executes is not queued for that attempt.
Waiting(j, a) == job[j].status = "QUEUED" /\ job[j].attempt = a

ExecutedClaimed ==
  \A w \in Worker : Executing(w) => ~Waiting(JobOf(w), AttemptOf(w))

\* Of two workers that wait for complete's answer, each has its own job.
CompletingAlone ==
  \A v, w \in Worker :
    At(v, "completing") /\ At(w, "completing") /\ v # w => JobOf(v) # JobOf(w)

GivenUp(j, a) == \E f \in abandoned : Message(f) = <<j, a>>

Settled(j, a) == Open(j, a) => GivenUp(j, a)

AckSettled ==
  /\ \A e \in acked : Settled(stream[e].job, stream[e].attempt)
  /\ \A w \in Worker : At(w, "ack") => Settled(JobOf(w), AttemptOf(w))

PInv ==
  /\ IInv
  /\ PipeTypeOK
  /\ TriesLeft
  /\ StreamOpened
  /\ PublishedStreamed
  /\ WorkersPlaced
  /\ ExecutedClaimed
  /\ CompletingHoldsRow
  /\ CompletingAlone
  /\ AckSettled

-----------------------------------------------------------------------------
(* The calls are calls of the service *)

\* A worker that is handling a message works on an attempt that was opened.
LEMMA CallsOpened ==
  ASSUME PInv, NEW w \in Worker, worker[w].pc \notin Between
  PROVE  /\ worker[w].entry \in 1..Len(stream)
         /\ JobOf(w) \in Job
         /\ AttemptOf(w) \in 1..job[JobOf(w)].attempt
         /\ AttemptOf(w) \in Attempts
         /\ AttemptOf(w) \in outbox[JobOf(w)]
  <1>1. worker[w].entry \in 1..Len(stream)
    <2>1. worker[w] \in WorkerStates /\ lastRead \in 0..Len(stream) /\ Len(stream) \in Nat
      BY DEF PInv, PipeTypeOK
    <2>2. worker[w].entry \in 0..lastRead /\ worker[w].entry # 0
      BY <2>1 DEF WorkerStates, PInv, WorkersPlaced
    <2>3. QED
      BY <2>1, <2>2
  <1>2. JobOf(w) \in Job /\ AttemptOf(w) \in Attempts
    <2>1. stream[worker[w].entry] \in Entries
      BY <1>1 DEF PInv, PipeTypeOK
    <2>2. QED
      BY <2>1 DEF Entries, JobOf, AttemptOf
  <1>3. AttemptOf(w) \in outbox[JobOf(w)]
    BY <1>1 DEF PInv, StreamOpened, AttemptOf, JobOf
  <1>4. QED
    BY <1>1, <1>2, <1>3 DEF PInv, IInv, OutboxPerAttempt, AttemptOf, JobOf

\* The stages the workers report are stages the service accepts.
LEMMA ReportsKnown ==
  /\ DOMAIN Reports = {"optimizing", "optimized", "submitting", "generating",
                       "fetching", "storing"}
  /\ \A pc \in DOMAIN Reports : Reports[pc] \in ReportStages
  <1>1. DOMAIN Reports = {"optimizing", "optimized", "submitting", "generating",
                          "fetching", "storing"}
    BY DEF Reports
  <1>2. ASSUME NEW pc \in DOMAIN Reports PROVE Reports[pc] \in ReportStages
    BY <1>1, PipelineConstantsOK DEF Reports, Stages
  <1>3. QED
    BY <1>1, <1>2

\* Every step of the pipeline is a step of the service, or none.
LEMMA StepRefines ==
  ASSUME PInv, [PipeNext]_allVars
  PROVE  [Next]_vars
  <1>1. CASE UNCHANGED allVars
    BY <1>1 DEF allVars
  <1>2. CASE Service
    BY <1>2 DEF Service, Next
  <1>3. CASE ApiCrash
    BY <1>3 DEF ApiCrash, Next
  <1>4. ASSUME NEW j \in Job, Orphaned(j) PROVE [Next]_vars
    BY <1>4 DEF Orphaned, Next, Workers
  <1>5. ASSUME NEW j \in Job, NEW a \in Attempts, Dispatch(j, a) PROVE [Next]_vars
    BY <1>5 DEF Dispatch, Publish, PublishFails, PublishUnanswered, MarkPublished,
                MarkFails
  <1>6. ASSUME NEW w \in Worker, Step(w) PROVE [Next]_vars
    <2>1. CASE worker[w].pc \in Between
      BY <1>6, <2>1, ReportsKnown
         DEF Step, Read, Reclaim, ClaimCall, ReportCall, ProviderCanceled, LocalError,
             CompleteStores, CompleteAnswered, CompleteRefused, CompleteCommits,
             CompleteCommitsUnseen, CompleteRollsBack, FailCall, Ack, At, Between, Risky
    <2>2. CASE worker[w].pc \notin Between
      <3>1. /\ JobOf(w) \in Job /\ AttemptOf(w) \in 1..job[JobOf(w)].attempt
        BY <2>2, CallsOpened
      <3>2. CASE ClaimCall(w)
        BY <3>1, <3>2 DEF ClaimCall, Next, Workers
      <3>3. CASE ReportCall(w) \/ ProviderCanceled(w)
        BY <3>1, <3>3, ReportsKnown
           DEF ReportCall, ProviderCanceled, Report, At, Next, Workers
      <3>4. CASE CompleteStores(w)
        BY <3>1, <3>4 DEF CompleteStores, Next, Workers
      <3>5. CASE CompleteAnswered(w)
        BY <3>1, <3>5 DEF CompleteAnswered, Next, Workers
      <3>6. CASE CompleteCommits(w) \/ CompleteCommitsUnseen(w) \/ CompleteRollsBack(w)
        BY <3>1, <3>6 DEF CompleteCommits, CompleteCommitsUnseen,
                          CompleteRollsBack, Next, Workers
      <3>7. CASE FailCall(w)
        BY <3>1, <3>7 DEF FailCall, Next, Workers
      <3>8. CASE Read(w) \/ Reclaim(w) \/ LocalError(w) \/ CompleteRefused(w) \/ Ack(w)
        BY <3>8 DEF Read, Reclaim, LocalError, CompleteRefused, Ack
      <3>9. QED
        BY <1>6, <3>2, <3>3, <3>4, <3>5, <3>6, <3>7, <3>8 DEF Step
    <2>3. QED
      BY <2>1, <2>2
  <1>7. ASSUME NEW w \in Worker, Trouble(w) PROVE [Next]_vars
    <2>1. CASE CallUnanswered(w)
      <3>1. worker[w].pc \notin Between
        BY <2>1, ReportsKnown DEF CallUnanswered, At, Between
      <3>2. /\ JobOf(w) \in Job /\ AttemptOf(w) \in 1..job[JobOf(w)].attempt
        BY <3>1, CallsOpened
      <3>3. QED
        BY <2>1, <3>2, ReportsKnown DEF CallUnanswered, Report, Next, Workers
    <2>2. CASE LoopEnds(w) \/ WorkerCrash(w) \/ AckFails(w) \/ FailUnanswered(w)
      BY <2>2 DEF LoopEnds, WorkerCrash, AckFails, FailUnanswered
    <2>3. QED
      BY <1>7, <2>1, <2>2 DEF Trouble
  <1>8. QED
    BY <1>1, <1>2, <1>3, <1>4, <1>5, <1>6, <1>7 DEF PipeNext

-----------------------------------------------------------------------------
(* Attempts never go back *)

\* What a step may do to one job's attempt: open a later one, or bring the same
\* one forward.
AttemptStep(r, s) ==
  /\ s.attempt >= r.attempt
  /\ s.attempt = r.attempt =>
       /\ s.status \in ActiveStatuses => r.status \in ActiveStatuses
       /\ s.status = "QUEUED" => r.status = "QUEUED"

\* markCanceled ends the attempt, or changes nothing.
LEMMA CanceledAttemptStep ==
  ASSUME NEW r, RowInv(r)
  PROVE  AttemptStep(r, CanceledRow(r))
  <1>1. r \in Row /\ r.attempt \in Nat
    BY DEF RowInv, Row
  <1>2. CanceledRow(r).attempt = r.attempt /\ CanceledRow(r).status \in {"CANCELED", r.status}
    BY <1>1 DEF Row, CanceledRow
  <1>3. QED
    BY <1>1, <1>2 DEF AttemptStep, ActiveStatuses

\* An operation that rewrites one row does to it what an AttemptStep allows.
LEMMA WriteMovesOn ==
  ASSUME TypeOK, NEW j \in Job, NEW row, Writes(j, row), AttemptStep(job[j], row)
  PROVE  \A k \in Job : AttemptStep(job[k], job'[k])
  <1>1. ASSUME NEW k \in Job PROVE AttemptStep(job[k], job[k])
    <2>1. job[k].attempt \in Nat
      BY DEF TypeOK, Row
    <2>2. QED
      BY <2>1 DEF AttemptStep
  <1>2. QED
    BY <1>1 DEF Writes, TypeOK

\* No step of the service takes an attempt back.
LEMMA AttemptsMoveOn ==
  ASSUME IInv, [Next]_vars
  PROVE  \A j \in Job : AttemptStep(job[j], job'[j])
  <1>0. /\ TypeOK
        /\ \A j \in Job : RowInv(job[j]) /\ job[j].attempt \in Nat
        /\ \A j \in Job : 1..job[j].attempt \subseteq Attempts
    BY ConstantsOK DEF IInv, AllRows, RowInv, Row, Attempts
  <1>1. CASE UNCHANGED job
    BY <1>0, <1>1 DEF AttemptStep
  <1>2. ASSUME NEW j \in Job, Create(j)
        PROVE  \A k \in Job : AttemptStep(job[k], job'[k])
    <2>1. AttemptStep(job[j], CreatedRow)
      BY <1>0, <1>2 DEF Create, Exists, RowInv, AttemptStep, CreatedRow
    <2>2. QED
      BY <1>0, <1>2, <2>1, WriteMovesOn DEF Create
  <1>3. ASSUME NEW j \in Job, Cancel(j)
        PROVE  \A k \in Job : AttemptStep(job[k], job'[k])
    <2>1. AttemptStep(job[j], CancelRequestedRow(job[j]))
      BY <1>0, CanceledAttemptStep
         DEF CancelRequestedRow, AttemptStep, RowInv, Row, ActiveStatuses
    <2>2. QED
      BY <1>0, <1>3, <2>1, WriteMovesOn DEF Cancel
  <1>4. ASSUME NEW j \in Job, RetryCommit(j)
        PROVE  \A k \in Job : AttemptStep(job[k], job'[k])
    <2>1. AttemptStep(job[j], RequeuedRow(job[j]))
      BY <1>0 DEF RequeuedRow, AttemptStep, RowInv, Row
    <2>2. QED
      BY <1>0, <1>4, <2>1, WriteMovesOn DEF RetryCommit
  <1>5. ASSUME NEW j \in Job, CompleteCanceled(j)
        PROVE  \A k \in Job : AttemptStep(job[k], job'[k])
    BY <1>0, <1>5, CanceledAttemptStep, WriteMovesOn DEF CompleteCanceled
  <1>6. ASSUME NEW j \in Job, CompleteCommit(j) \/ CompleteUnanswered(j)
        PROVE  \A k \in Job : AttemptStep(job[k], job'[k])
    <2>1. AttemptStep(job[j], SucceededRow(job[j]))
      BY <1>0 DEF SucceededRow, AttemptStep, RowInv, Row, ActiveStatuses
    <2>2. QED
      BY <1>0, <1>6, <2>1, WriteMovesOn DEF CompleteCommit, CompleteUnanswered, Delivers
  <1>7. ASSUME NEW j \in Job, CreatedAges(j) \/ StartedAges(j)
        PROVE  \A k \in Job : AttemptStep(job[k], job'[k])
    <2>1. /\ AttemptStep(job[j], [job[j] EXCEPT !.createdAt = "old"])
          /\ AttemptStep(job[j], [job[j] EXCEPT !.startedAt = "old"])
      BY <1>0 DEF AttemptStep, RowInv, Row
    <2>2. QED
      BY <1>0, <1>7, <2>1, WriteMovesOn DEF CreatedAges, StartedAges
  <1>8. ASSUME NEW j \in Job, NEW a \in Attempts, Claim(j, a)
        PROVE  \A k \in Job : AttemptStep(job[k], job'[k])
    <2>1. AttemptStep(job[j], ClaimedRow(job[j], a))
      BY <1>0, CanceledAttemptStep DEF ClaimedRow, AttemptStep, RowInv, Row, ActiveStatuses
    <2>2. QED
      BY <1>0, <1>8, <2>1, WriteMovesOn DEF Claim
  <1>9. ASSUME NEW j \in Job, NEW a \in Attempts, Fail(j, a) \/ WatchFail(j, a)
        PROVE  \A k \in Job : AttemptStep(job[k], job'[k])
    <2>1. \A code : AttemptStep(job[j], FailedRow(job[j], a, code))
      BY <1>0, CanceledAttemptStep DEF FailedRow, AttemptStep, RowInv, Row, ActiveStatuses
    <2>2. QED
      BY <1>0, <1>9, <2>1, WriteMovesOn DEF Fail, WatchFail
  <1>10. ASSUME NEW j \in Job, NEW a \in Attempts, NEW stage \in ReportStages,
                ReportProgress(j, a, stage)
         PROVE  \A k \in Job : AttemptStep(job[k], job'[k])
    <2>1. AttemptStep(job[j], ReportedRow(job[j], a, stage))
      BY <1>0, CanceledAttemptStep DEF ReportedRow, AttemptStep, RowInv, Row
    <2>2. QED
      BY <1>0, <1>10, <2>1, WriteMovesOn DEF ReportProgress
  <1>11. QED
    BY <1>0, <1>1, <1>2, <1>3, <1>4, <1>5, <1>6, <1>7, <1>8, <1>9, <1>10
       DEF Next, Owners, Workers, Watcher, vars, tables, RetryCheck, RetryRollback,
           CompletePut, CompleteRollback, CompleteRollbackLeak, WatchScan, Crash

\* So the outbox only grows, and an attempt that is in it and is not waiting, or
\* not open, remains so.
LEMMA AttemptsStay ==
  ASSUME IInv, [Next]_vars, NEW j \in Job, NEW a \in outbox[j]
  PROVE  /\ a \in outbox'[j]
         /\ Open(j, a)' => Open(j, a)
         /\ Waiting(j, a)' => Waiting(j, a)
  <1>1. IInv' /\ AttemptStep(job[j], job'[j])
    BY NextKeepsIInv, AttemptsMoveOn
  <1>2. /\ outbox[j] = 1..job[j].attempt /\ outbox'[j] = 1..job'[j].attempt
        /\ job[j].attempt \in Nat /\ job'[j].attempt \in Nat
    BY <1>1 DEF IInv, OutboxPerAttempt, TypeOK, Row
  <1>3. QED
    BY <1>1, <1>2 DEF AttemptStep, Open, Active, Waiting

-----------------------------------------------------------------------------
(* The outbox rows and the stream *)

\* A write of one outbox row leaves the others alone.
LEMMA SetsRow ==
  ASSUME PipeTypeOK, NEW j \in Job, NEW a \in Attempts, NEW status, NEW tries,
         [status |-> status, tries |-> tries] \in OutboxRows,
         Sets(j, a, status, tries)
  PROVE  /\ sent' \in [Job -> [Attempts -> OutboxRows]]
         /\ sent'[j][a] = [status |-> status, tries |-> tries]
         /\ \A k \in Job : \A b \in Attempts :
              <<k, b>> # <<j, a>> => sent'[k][b] = sent[k][b]
  <1> DEFINE row == [status |-> status, tries |-> tries]
  <1>1. sent' = [sent EXCEPT ![j] = [sent[j] EXCEPT ![a] = row]]
    BY DEF Sets
  <1>2. sent \in [Job -> [Attempts -> OutboxRows]]
    BY DEF PipeTypeOK
  <1>3. row \in OutboxRows
    OBVIOUS
  <1> HIDE DEF row
  <1>4. /\ sent' \in [Job -> [Attempts -> OutboxRows]]
        /\ sent'[j][a] = row
        /\ \A k \in Job : \A b \in Attempts :
             <<k, b>> # <<j, a>> => sent'[k][b] = sent[k][b]
    BY <1>1, <1>2, <1>3
  <1>5. QED
    BY <1>4 DEF row

\* What the dispatcher may do to an outbox row: count a failed publication of a
\* PENDING row, and give it up at MaxPublish, or mark one that it has published.
LEMMA OutboxRowsKept ==
  ASSUME PInv, [PipeNext]_allVars
  PROVE  /\ sent' \in [Job -> [Attempts -> OutboxRows]]
         /\ sending' \in SUBSET (Job \X Attempts)
         /\ TriesLeft'
         /\ \A j \in Job : \A a \in Attempts :
              sent'[j][a].status = "PUBLISHED"
                => sent[j][a].status = "PUBLISHED" \/ <<j, a>> \in sending
         /\ \A j \in Job : \A a \in Attempts :
              <<j, a>> \in sending' => <<j, a>> \in sending \/ Streamed(j, a)
  <1> DEFINE Kept ==
         /\ sent' \in [Job -> [Attempts -> OutboxRows]]
         /\ sending' \in SUBSET (Job \X Attempts)
         /\ TriesLeft'
         /\ \A j \in Job : \A a \in Attempts :
              sent'[j][a].status = "PUBLISHED"
                => sent[j][a].status = "PUBLISHED" \/ <<j, a>> \in sending
         /\ \A j \in Job : \A a \in Attempts :
              <<j, a>> \in sending' => <<j, a>> \in sending \/ Streamed(j, a)
  <1>1. CASE sent' = sent /\ sending' \subseteq sending
    BY <1>1 DEF PInv, PipeTypeOK, TriesLeft
  <1>2. ASSUME NEW j \in Job, NEW a \in Attempts, Publish(j, a) PROVE Kept
    BY <1>2 DEF PInv, PipeTypeOK, TriesLeft, Publish
  <1>3. ASSUME NEW j \in Job, NEW a \in Attempts, CountFailure(j, a), Pending(j, a),
               sending' = sending
        PROVE  Kept
    <2> DEFINE tries  == sent[j][a].tries + 1
               status == IF tries >= MaxPublish THEN "FAILED" ELSE "PENDING"
    <2>1. sent[j][a] \in OutboxRows /\ sent[j][a].tries < MaxPublish
      BY <1>3 DEF PInv, PipeTypeOK, TriesLeft, Pending
    <2>2. tries \in 0..MaxPublish
      BY <2>1, PipelineConstantsOK DEF OutboxRows
    <2>3. status \in {"FAILED", "PENDING"} /\ (status = "PENDING" => tries < MaxPublish)
      BY <2>2, PipelineConstantsOK
    <2>4. Sets(j, a, status, tries)
      BY <1>3 DEF CountFailure
    <2> HIDE DEF tries, status
    <2>5. [status |-> status, tries |-> tries] \in OutboxRows
      BY <2>2, <2>3 DEF OutboxRows
    <2>6. /\ sent' \in [Job -> [Attempts -> OutboxRows]]
          /\ sent'[j][a] = [status |-> status, tries |-> tries]
          /\ \A k \in Job : \A b \in Attempts :
               <<k, b>> # <<j, a>> => sent'[k][b] = sent[k][b]
      BY <2>4, <2>5, SetsRow DEF PInv
    <2>7. QED
      BY <1>3, <2>3, <2>6 DEF PInv, PipeTypeOK, TriesLeft
  <1>4. ASSUME NEW j \in Job, NEW a \in Attempts, MarkPublished(j, a) PROVE Kept
    <2> DEFINE tries == sent[j][a].tries
    <2>1. tries \in 0..MaxPublish
      BY DEF PInv, PipeTypeOK, OutboxRows
    <2>2. Sets(j, a, "PUBLISHED", tries) /\ <<j, a>> \in sending /\ sending' = {}
      BY <1>4 DEF MarkPublished
    <2> HIDE DEF tries
    <2>3. [status |-> "PUBLISHED", tries |-> tries] \in OutboxRows
      BY <2>1 DEF OutboxRows
    <2>4. /\ sent' \in [Job -> [Attempts -> OutboxRows]]
          /\ sent'[j][a] = [status |-> "PUBLISHED", tries |-> tries]
          /\ \A k \in Job : \A b \in Attempts :
               <<k, b>> # <<j, a>> => sent'[k][b] = sent[k][b]
      BY <2>2, <2>3, SetsRow DEF PInv
    <2>5. TriesLeft'
      BY <2>4 DEF PInv, TriesLeft
    <2>6. ASSUME NEW k \in Job, NEW b \in Attempts, sent'[k][b].status = "PUBLISHED"
          PROVE  sent[k][b].status = "PUBLISHED" \/ <<k, b>> \in sending
      <3>1. CASE <<k, b>> = <<j, a>>
        BY <2>2, <3>1
      <3>2. CASE <<k, b>> # <<j, a>>
        BY <2>4, <2>6, <3>2
      <3>3. QED
        BY <3>1, <3>2
    <2>7. QED
      BY <2>2, <2>4, <2>5, <2>6
  <1>5. ASSUME NEW j \in Job, NEW a \in Attempts, Dispatch(j, a) PROVE Kept
    BY <1>1, <1>2, <1>3, <1>4, <1>5
       DEF Dispatch, PublishFails, PublishUnanswered, MarkFails
  <1>6. ASSUME NEW w \in Worker, Step(w) \/ Trouble(w) PROVE Kept
    <2>1. sent' = sent /\ sending' = sending
      BY <1>6 DEF Step, Trouble, Read, Reclaim, ClaimCall, ReportCall, ProviderCanceled,
                  LocalError, CompleteStores, CompleteAnswered, CompleteRefused,
                  CompleteCommits, CompleteCommitsUnseen,
                  CompleteRollsBack, FailCall, Ack, LoopEnds,
                  WorkerCrash, AckFails, FailUnanswered, CallUnanswered
    <2>2. QED
      BY <1>1, <2>1
  <1>7. CASE Service \/ ApiCrash \/ (\E j \in Job : Orphaned(j)) \/ UNCHANGED allVars
    BY <1>1, <1>7 DEF Service, ApiCrash, Orphaned, allVars, pipeVars
  <1>8. QED
    BY <1>5, <1>6, <1>7 DEF PipeNext

\* The stream only grows, by entries of opened attempts.
LEMMA StreamGrows ==
  ASSUME PInv, [PipeNext]_allVars
  PROVE  /\ stream' \in Seq(Entries)
         /\ Len(stream) \in Nat /\ Len(stream') \in Nat /\ Len(stream) <= Len(stream')
         /\ \A e \in 1..Len(stream) :
              /\ stream'[e] = stream[e] /\ stream[e] \in Entries
              /\ stream[e].job \in Job /\ stream[e].attempt \in outbox[stream[e].job]
         /\ \A e \in 1..Len(stream') :
              stream'[e].job \in Job /\ stream'[e].attempt \in outbox[stream'[e].job]
         /\ \A j \in Job : \A a \in Attempts :
              Streamed(j, a) => stream'[Len(stream')] = [job |-> j, attempt |-> a]
                                /\ Len(stream') \in 1..Len(stream')
  <1>1. stream \in Seq(Entries) /\ Len(stream) \in Nat
    BY DEF PInv, PipeTypeOK
  <1>2. \A e \in 1..Len(stream) :
          /\ stream[e] \in Entries /\ stream[e].job \in Job
          /\ stream[e].attempt \in outbox[stream[e].job]
    <2>1. \A e \in 1..Len(stream) : stream[e] \in Entries
      BY <1>1
    <2>2. QED
      BY <2>1 DEF Entries, PInv, StreamOpened
  <1>3. stream' = stream \/ \E j \in Job : \E a \in outbox[j] : Streamed(j, a)
    <2>1. ASSUME NEW w \in Worker, Step(w) \/ Trouble(w) PROVE stream' = stream
      BY <2>1 DEF Step, Trouble, Read, Reclaim, ClaimCall, ReportCall, ProviderCanceled,
                  LocalError, CompleteStores, CompleteAnswered, CompleteRefused,
                  CompleteCommits, CompleteCommitsUnseen,
                  CompleteRollsBack, FailCall, Ack, LoopEnds,
                  WorkerCrash, AckFails, FailUnanswered, CallUnanswered, group
    <2>2. ASSUME NEW j \in Job, NEW a \in Attempts, Dispatch(j, a)
          PROVE  stream' = stream \/ (a \in outbox[j] /\ Streamed(j, a))
      BY <2>2 DEF Dispatch, Publish, PublishFails, PublishUnanswered, MarkPublished,
                  MarkFails, Pending
    <2>3. CASE Service \/ ApiCrash \/ (\E j \in Job : Orphaned(j)) \/ UNCHANGED allVars
      BY <2>3 DEF Service, ApiCrash, Orphaned, allVars, pipeVars
    <2>4. QED
      BY <2>1, <2>2, <2>3 DEF PipeNext
  <1>4. ASSUME NEW j \in Job, NEW a \in Attempts, Streamed(j, a)
        PROVE  /\ stream' \in Seq(Entries) /\ Len(stream') = Len(stream) + 1
               /\ \A e \in 1..Len(stream) : stream'[e] = stream[e]
               /\ stream'[Len(stream')] = [job |-> j, attempt |-> a]
    <2> DEFINE new == [job |-> j, attempt |-> a]
    <2>1. new \in Entries
      BY DEF Entries
    <2>2. stream' = Append(stream, new)
      BY <1>4 DEF Streamed
    <2> HIDE DEF new
    <2>3. /\ stream' \in Seq(Entries) /\ Len(stream') = Len(stream) + 1
          /\ \A e \in 1..Len(stream) : stream'[e] = stream[e]
          /\ stream'[Len(stream')] = new
      BY <1>1, <2>1, <2>2
    <2>4. QED
      BY <2>3 DEF new
  <1>5. CASE stream' = stream
    BY <1>1, <1>2, <1>4, <1>5
  <1>6. ASSUME NEW j \in Job, NEW a \in outbox[j], Streamed(j, a)
        PROVE  \A e \in 1..Len(stream') :
                 stream'[e].job \in Job /\ stream'[e].attempt \in outbox[stream'[e].job]
    <2>1. a \in Attempts
      BY DEF PInv, IInv, TypeOK
    <2>2. /\ Len(stream') = Len(stream) + 1
          /\ \A e \in 1..Len(stream) : stream'[e] = stream[e]
          /\ stream'[Len(stream')] = [job |-> j, attempt |-> a]
      BY <1>4, <1>6, <2>1
    <2>3. QED
      BY <1>1, <1>2, <2>2
  <1>7. ASSUME NEW j \in Job, NEW a \in outbox[j], Streamed(j, a)
        PROVE  a \in Attempts
    BY DEF PInv, IInv, TypeOK
  <1>8. CASE stream' # stream
    <2>1. PICK j \in Job : \E a \in outbox[j] : Streamed(j, a)
      BY <1>3, <1>8
    <2>0. PICK a \in outbox[j] : Streamed(j, a)
      BY <2>1
    <2>2. stream' \in Seq(Entries) /\ Len(stream') = Len(stream) + 1
      BY <1>4, <1>7, <2>0
    <2>3. \A e \in 1..Len(stream) : stream'[e] = stream[e]
      BY <1>4, <1>7, <2>0
    <2>4. Len(stream) <= Len(stream') /\ Len(stream') \in Nat /\ Len(stream') \in 1..Len(stream')
      BY <1>1, <2>2
    <2>5. QED
      BY <1>1, <1>2, <1>4, <1>6, <2>0, <2>2, <2>3, <2>4
  <1>9. QED
    BY <1>5, <1>8

\* The stream keeps announcing every published row, and nothing but opened
\* attempts.
LEMMA AnnouncementsKept ==
  ASSUME PInv, [PipeNext]_allVars
  PROVE  StreamOpened' /\ PublishedStreamed'
  <1>1. [Next]_vars /\ IInv
    BY StepRefines DEF PInv
  <1>2. StreamOpened'
    <2> SUFFICES ASSUME NEW e \in 1..Len(stream')
                 PROVE  stream'[e].attempt \in outbox'[stream'[e].job]
      BY DEF StreamOpened
    <2>1. stream'[e].job \in Job /\ stream'[e].attempt \in outbox[stream'[e].job]
      BY StreamGrows
    <2>2. QED
      BY <1>1, <2>1, AttemptsStay
  <1>3. PublishedStreamed'
    <2> SUFFICES ASSUME NEW j \in Job, NEW a \in Attempts,
                        sent'[j][a].status = "PUBLISHED" \/ <<j, a>> \in sending'
                 PROVE  \E e \in 1..Len(stream') : Message(e)' = <<j, a>>
      BY DEF PublishedStreamed
    <2>1. CASE sent[j][a].status = "PUBLISHED" \/ <<j, a>> \in sending
      <3>1. PICK e \in 1..Len(stream) : Message(e) = <<j, a>>
        BY <2>1 DEF PInv, PublishedStreamed
      <3>2. e \in 1..Len(stream') /\ stream'[e] = stream[e]
        BY StreamGrows
      <3>3. QED
        BY <3>1, <3>2 DEF Message
    <2>2. CASE Streamed(j, a)
      <3>1. /\ Len(stream') \in 1..Len(stream')
            /\ stream'[Len(stream')] = [job |-> j, attempt |-> a]
        BY <2>2, StreamGrows
      <3>2. QED
        BY <3>1 DEF Message
    <2>3. QED
      BY <2>1, <2>2, OutboxRowsKept
  <1>4. QED
    BY <1>2, <1>3

-----------------------------------------------------------------------------
(* The consumer group and the workers *)

\* The types of lastRead, acked, worker and abandoned.
GroupTyped ==
  /\ lastRead \in 0..Len(stream)
  /\ acked \in SUBSET (1..lastRead)
  /\ worker \in [Worker -> WorkerStates]
  /\ abandoned \in SUBSET (1..lastRead)

\* A step of one worker, to a state that is well formed.
LEMMA WorkerMoves ==
  ASSUME PInv, NEW w \in Worker, NEW state, worker' = [worker EXCEPT ![w] = state],
         state \in WorkerStates', state.pc \notin Between => state.entry # 0,
         Len(stream') \in Nat, lastRead' \in lastRead..Len(stream'),
         acked' \in SUBSET (1..lastRead'), abandoned' \in SUBSET (1..lastRead')
  PROVE  GroupTyped' /\ WorkersPlaced'
  <1>1. /\ worker \in [Worker -> WorkerStates] /\ lastRead \in Nat
    BY DEF PInv, PipeTypeOK
  <1>2. WorkerStates \subseteq WorkerStates'
    <2>1. 0..lastRead \subseteq 0..lastRead' /\ 1..lastRead \subseteq 1..lastRead'
      BY <1>1
    <2>2. QED
      BY <2>1 DEF WorkerStates
  <1>3. worker' \in [Worker -> WorkerStates']
    BY <1>1, <1>2
  <1>4. WorkersPlaced'
    BY <1>1 DEF PInv, WorkersPlaced
  <1>5. lastRead' \in 0..Len(stream')
    BY <1>1
  <1>6. QED
    BY <1>3, <1>4, <1>5 DEF GroupTyped

\* A worker that goes on with the message it has.
LEMMA GoesOn ==
  ASSUME PInv, [PipeNext]_allVars, NEW w \in Worker, NEW pc \in PCs, Goes(w, pc),
         pc \notin Between => worker[w].entry # 0, lastRead' = lastRead,
         acked' \in SUBSET (1..lastRead), abandoned' \in SUBSET (1..lastRead)
  PROVE  GroupTyped' /\ WorkersPlaced'
  <1> DEFINE state == [worker[w] EXCEPT !.pc = pc]
  <1>1. worker[w] \in WorkerStates /\ WorkerStates' = WorkerStates
    BY DEF PInv, PipeTypeOK, WorkerStates
  <1>2. state \in WorkerStates /\ state.pc = pc /\ state.entry = worker[w].entry
    BY <1>1 DEF WorkerStates
  <1>3. worker' = [worker EXCEPT ![w] = state]
    BY DEF Goes
  <1>4. Len(stream') \in Nat /\ lastRead \in lastRead..Len(stream')
    BY StreamGrows DEF PInv, PipeTypeOK
  <1> HIDE DEF state
  <1>5. QED
    BY <1>1, <1>2, <1>3, <1>4, WorkerMoves

\* A worker that starts with an entry that has been delivered.
LEMMA StartsOn ==
  ASSUME PInv, [PipeNext]_allVars, NEW w \in Worker, NEW e \in 1..lastRead',
         NEW todo \in SUBSET (1..lastRead'), Starts(w, e, todo),
         lastRead' \in lastRead..Len(stream'),
         acked' \in SUBSET (1..lastRead'), abandoned' \in SUBSET (1..lastRead')
  PROVE  GroupTyped' /\ WorkersPlaced'
  <1> DEFINE state == [pc |-> "claim", entry |-> e, todo |-> todo]
  <1>1. lastRead \in Nat /\ Len(stream') \in Nat
    BY StreamGrows DEF PInv, PipeTypeOK
  <1>2. e \in 0..lastRead' /\ e # 0
    BY <1>1
  <1>3. state \in WorkerStates' /\ state.entry # 0
    BY <1>2 DEF WorkerStates, PCs
  <1>4. worker' = [worker EXCEPT ![w] = state]
    BY DEF Starts
  <1> HIDE DEF state
  <1>5. QED
    BY <1>1, <1>3, <1>4, WorkerMoves

\* A worker that goes idle.
LEMMA GoesIdle ==
  ASSUME PInv, [PipeNext]_allVars, NEW w \in Worker, worker' = [worker EXCEPT ![w] = Idle],
         lastRead' = lastRead,
         acked' \in SUBSET (1..lastRead), abandoned' \in SUBSET (1..lastRead)
  PROVE  GroupTyped' /\ WorkersPlaced'
  <1>1. Len(stream') \in Nat /\ lastRead \in lastRead..Len(stream') /\ lastRead \in Nat
    BY StreamGrows DEF PInv, PipeTypeOK
  <1>2. Idle \in WorkerStates' /\ Idle.pc \in Between
    BY <1>1 DEF Idle, WorkerStates, PCs, Between
  <1>3. QED
    BY <1>1, <1>2, WorkerMoves

\* A worker that is done with a message goes on with the next one or goes idle.
LEMMA ProceedsOn ==
  ASSUME PInv, [PipeNext]_allVars, NEW w \in Worker, Proceed(w), lastRead' = lastRead,
         acked' \in SUBSET (1..lastRead), abandoned' \in SUBSET (1..lastRead)
  PROVE  GroupTyped' /\ WorkersPlaced'
  <1>1. worker[w] \in WorkerStates /\ lastRead \in Nat
    BY DEF PInv, PipeTypeOK
  <1>2. worker[w].todo \in SUBSET (1..lastRead)
    BY <1>1 DEF WorkerStates
  <1>3. Len(stream') \in Nat /\ lastRead \in lastRead..Len(stream')
    BY StreamGrows DEF PInv, PipeTypeOK
  <1>4. CASE worker' = [worker EXCEPT ![w] = Idle]
    BY <1>4, GoesIdle
  <1>5. ASSUME NEW e \in worker[w].todo, Starts(w, e, worker[w].todo \ {e})
        PROVE  GroupTyped' /\ WorkersPlaced'
    BY <1>2, <1>3, <1>5, StartsOn
  <1>6. QED
    BY <1>4, <1>5 DEF Proceed

\* Every worker has a state, and handles or awaits only entries that have been
\* delivered to the group.
LEMMA WorkersKept ==
  ASSUME PInv, [PipeNext]_allVars
  PROVE  GroupTyped' /\ WorkersPlaced'
  <1>0. /\ lastRead \in 0..Len(stream) /\ lastRead \in Nat
        /\ acked \in SUBSET (1..lastRead) /\ abandoned \in SUBSET (1..lastRead)
        /\ worker \in [Worker -> WorkerStates]
    BY DEF PInv, PipeTypeOK
  <1>1. /\ Len(stream) \in Nat /\ Len(stream') \in Nat /\ Len(stream) <= Len(stream')
        /\ lastRead \in 0..Len(stream')
    BY <1>0, StreamGrows
  <1>2. ASSUME UNCHANGED <<group, worker, abandoned>>
        PROVE  GroupTyped' /\ WorkersPlaced'
    BY <1>0, <1>1, <1>2 DEF GroupTyped, WorkersPlaced, WorkerStates, group, PInv
  <1>3. CASE Service \/ (\E j \in Job : Orphaned(j)) \/ UNCHANGED allVars
    BY <1>2, <1>3 DEF Service, Orphaned, allVars, pipeVars, group
  <1>4. ASSUME NEW j \in Job, NEW a \in Attempts, Dispatch(j, a)
        PROVE  GroupTyped' /\ WorkersPlaced'
    BY <1>2, <1>4 DEF Dispatch, Publish, PublishFails, PublishUnanswered, MarkPublished,
                      MarkFails
  <1>5. CASE ApiCrash
    <2>1. \A w \in Worker : [worker[w] EXCEPT !.pc = "failing"] \in WorkerStates
      BY <1>0 DEF WorkerStates, PCs
    <2>2. worker' \in [Worker -> WorkerStates] /\ UNCHANGED <<group, abandoned>>
      BY <1>0, <1>5, <2>1 DEF ApiCrash
    <2>3. WorkersPlaced'
      BY <1>0, <1>5 DEF ApiCrash, At, PInv, WorkersPlaced, Between, WorkerStates
    <2>4. QED
      BY <1>0, <1>1, <2>2, <2>3 DEF GroupTyped, WorkerStates, group
  <1>6. ASSUME NEW w \in Worker, Step(w) \/ Trouble(w)
        PROVE  GroupTyped' /\ WorkersPlaced'
    <2>0. DOMAIN Reports \subseteq PCs /\ DOMAIN Reports \cap Between = {}
      BY ReportsKnown DEF PCs, Between
    <2>1. CASE Read(w)
      <3>1. lastRead + 1 \in 1..lastRead' /\ lastRead' \in lastRead..Len(stream')
        BY <1>0, <1>1, <2>1 DEF Read
      <3>2. acked' \in SUBSET (1..lastRead') /\ abandoned' \in SUBSET (1..lastRead')
        BY <1>0, <2>1 DEF Read
      <3>3. QED
        BY <2>1, <3>1, <3>2, StartsOn DEF Read
    <2>2. CASE Reclaim(w)
      <3>1. PEL \subseteq 1..lastRead
        BY DEF PEL
      <3>2. PICK entries \in SUBSET PEL :
              \E e \in entries : Starts(w, e, entries \ {e})
        BY <2>2 DEF Reclaim
      <3>3. UNCHANGED <<lastRead, acked, abandoned>> /\ lastRead \in lastRead..Len(stream')
        BY <1>0, <1>1, <2>2 DEF Reclaim, group
      <3>4. QED
        BY <1>0, <3>1, <3>2, <3>3, StartsOn
    <2>3. CASE LoopEnds(w)
      BY <1>0, <2>3, GoesOn DEF LoopEnds, group, PCs, Between
    <2>4. CASE WorkerCrash(w)
      BY <1>0, <2>4, GoesIdle DEF WorkerCrash, group
    <2>5. CASE Ack(w) \/ AckFails(w)
      <3>1. worker[w].entry \in 1..lastRead
        BY <1>0, <2>5 DEF Ack, AckFails, At, Between, WorkerStates, PInv, WorkersPlaced
      <3>2. acked' \in SUBSET (1..lastRead) /\ UNCHANGED <<lastRead, abandoned>>
        BY <1>0, <2>5, <3>1 DEF Ack, AckFails, group
      <3>3. QED
        BY <1>0, <2>5, <3>2, ProceedsOn DEF Ack, AckFails
    <2>6. ASSUME NEW pc \in PCs, Goes(w, pc), worker[w].pc \notin Between,
                 UNCHANGED group, abandoned' \in SUBSET (1..lastRead)
          PROVE  GroupTyped' /\ WorkersPlaced'
      BY <1>0, <2>6, GoesOn DEF group, PInv, WorkersPlaced
    <2>7. CASE ClaimCall(w)
      <3>1. /\ Goes(w, "optimizing") \/ Goes(w, "ack")
            /\ worker[w].pc \notin Between /\ UNCHANGED <<group, abandoned>>
        BY <2>7 DEF ClaimCall, At, Between
      <3>2. "optimizing" \in PCs /\ "ack" \in PCs
        BY ReportsKnown DEF PCs
      <3>3. QED
        BY <1>0, <2>6, <3>1, <3>2
    <2>8. CASE ReportCall(w)
      <3>1. \A pc \in DOMAIN Reports : After[pc] \subseteq PCs
        BY ReportsKnown DEF After, PCs
      <3>2. QED
        BY <1>0, <2>0, <2>6, <2>8, <3>1 DEF ReportCall, PCs
    <2>9. CASE ProviderCanceled(w) \/ FailUnanswered(w)
      <3>1. worker[w].entry \in 1..lastRead
        BY <1>0, <2>9 DEF ProviderCanceled, FailUnanswered, At, Between, WorkerStates,
                          PInv, WorkersPlaced
      <3>2. abandoned' \in SUBSET (1..lastRead)
        BY <1>0, <2>9, <3>1 DEF ProviderCanceled, FailUnanswered, GivesUp
      <3>3. QED
        BY <2>6, <2>9, <3>2 DEF ProviderCanceled, FailUnanswered, At, Between, PCs
    <2>10. CASE LocalError(w) \/ CompleteRefused(w) \/ CompleteCommitsUnseen(w)
                  \/ CompleteRollsBack(w)
                  \/ CallUnanswered(w)
      BY <1>0, <2>0, <2>6, <2>10
         DEF LocalError, CompleteRefused, CompleteCommitsUnseen,
             CompleteRollsBack, CallUnanswered, At, Between,
             PCs, Risky
    <2>11. CASE CompleteStores(w) \/ CompleteAnswered(w) \/ CompleteCommits(w)
                  \/ FailCall(w)
      BY <1>0, <2>6, <2>11
         DEF CompleteStores, CompleteAnswered, CompleteCommits, FailCall, At, Between, PCs
    <2>12. QED
      BY <1>6, <2>1, <2>2, <2>3, <2>4, <2>5, <2>7, <2>8, <2>9, <2>10, <2>11
         DEF Step, Trouble
  <1>7. QED
    BY <1>3, <1>4, <1>5, <1>6 DEF PipeNext

\* A worker's state changes by a step of its own, or because the API dies while
\* the worker waits for complete's answer.
LEMMA OwnSteps ==
  ASSUME PInv, [PipeNext]_allVars, NEW w \in Worker, worker'[w] # worker[w]
  PROVE  \/ Step(w) \/ Trouble(w)
         \/ ApiCrash /\ At(w, "completing") /\ worker'[w] = [worker[w] EXCEPT !.pc = "failing"]
  <1>1. worker \in [Worker -> WorkerStates]
    BY DEF PInv, PipeTypeOK
  <1>2. ASSUME NEW v \in Worker, v # w, Step(v) \/ Trouble(v) PROVE worker'[w] = worker[w]
    BY <1>1, <1>2
       DEF Step, Trouble, Read, Reclaim, ClaimCall, ReportCall, ProviderCanceled,
           LocalError, CompleteStores, CompleteAnswered, CompleteRefused,
           CompleteCommits, CompleteCommitsUnseen,
           CompleteRollsBack, FailCall, Ack, LoopEnds,
           WorkerCrash, AckFails, FailUnanswered, CallUnanswered, Goes, Starts, Proceed
  <1>3. ASSUME NEW j \in Job, NEW a \in Attempts, Dispatch(j, a) PROVE worker' = worker
    BY <1>3 DEF Dispatch, Publish, PublishFails, PublishUnanswered, MarkPublished,
                MarkFails
  <1>4. CASE Service \/ (\E j \in Job : Orphaned(j)) \/ UNCHANGED allVars
    BY <1>4 DEF Service, Orphaned, allVars, pipeVars
  <1>5. CASE ApiCrash
    BY <1>5 DEF ApiCrash
  <1>6. QED
    BY <1>2, <1>3, <1>4, <1>5 DEF PipeNext

\* A worker changes the message it works on only by starting with another one,
\* at its claim.
LEMMA SameMessage ==
  ASSUME PInv, [PipeNext]_allVars, NEW w \in Worker,
         worker'[w].pc \notin Between \cup {"claim"}
  PROVE  /\ worker[w].pc \notin Between
         /\ worker'[w].entry = worker[w].entry
         /\ JobOf(w)' = JobOf(w) /\ AttemptOf(w)' = AttemptOf(w)
  <1>1. worker \in [Worker -> WorkerStates] /\ worker[w] \in WorkerStates
    BY DEF PInv, PipeTypeOK
  <1>2. worker[w].pc \notin Between /\ worker'[w].entry = worker[w].entry
    <2>1. CASE worker'[w] = worker[w]
      BY <2>1
    <2>2. CASE ApiCrash /\ At(w, "completing")
                 /\ worker'[w] = [worker[w] EXCEPT !.pc = "failing"]
      BY <1>1, <2>2 DEF At, Between, WorkerStates
    <2>3. CASE Step(w) \/ Trouble(w)
      <3>1. CASE \/ Read(w) \/ Reclaim(w) \/ WorkerCrash(w) \/ Ack(w) \/ AckFails(w)
                 \/ LoopEnds(w)
        BY <1>1, <3>1
           DEF Read, Reclaim, WorkerCrash, Ack, AckFails, LoopEnds, Proceed, Starts, Goes,
               Idle, Between, WorkerStates
      <3>2. CASE \/ ClaimCall(w) \/ ReportCall(w) \/ ProviderCanceled(w) \/ LocalError(w)
                 \/ CompleteStores(w) \/ CompleteAnswered(w) \/ CompleteRefused(w)
                 \/ CompleteCommits(w) \/ CompleteCommitsUnseen(w)
                 \/ CompleteRollsBack(w) \/ FailCall(w)
                 \/ FailUnanswered(w) \/ CallUnanswered(w)
        <4>1. worker[w].pc \notin Between /\ \E pc : Goes(w, pc)
          BY <3>2, ReportsKnown
             DEF ClaimCall, ReportCall, ProviderCanceled, LocalError, CompleteStores,
                 CompleteAnswered, CompleteRefused, CompleteCommits, CompleteCommitsUnseen,
                 CompleteRollsBack,
                 FailCall, FailUnanswered, CallUnanswered, At, Between, Risky
        <4>2. QED
          BY <1>1, <4>1 DEF Goes, WorkerStates
      <3>3. QED
        BY <2>3, <3>1, <3>2 DEF Step, Trouble
    <2>4. QED
      BY <2>1, <2>2, <2>3, OwnSteps
  <1>3. worker[w].entry \in 1..Len(stream)
    BY <1>2, CallsOpened
  <1>4. stream'[worker[w].entry] = stream[worker[w].entry]
    BY <1>3, StreamGrows
  <1>5. QED
    BY <1>2, <1>4 DEF JobOf, AttemptOf

\* A worker starts to execute an attempt by a claim the service answered with
\* the running job, starts to wait for complete's answer by a call that stored
\* the asset, and comes to acknowledge a message in one of the ways below.
LEMMA NewStage ==
  ASSUME PInv, [PipeNext]_allVars, NEW w \in Worker
  PROVE  /\ Executing(w)' /\ ~Executing(w)
              => ClaimCall(w) /\ Runs(job'[JobOf(w)], AttemptOf(w))
         /\ At(w, "completing")' /\ ~At(w, "completing") => CompleteStores(w)
         /\ At(w, "ack")' /\ ~At(w, "ack") =>
              \/ ClaimCall(w)
              \/ ReportCall(w) /\ ~ReportAccepted(w)
              \/ ProviderCanceled(w) \/ CompleteAnswered(w) \/ CompleteCommits(w)
              \/ FailCall(w) \/ FailUnanswered(w)
  <1>1. worker \in [Worker -> WorkerStates] /\ worker[w] \in WorkerStates
    BY DEF PInv, PipeTypeOK
  <1>2. \A pc : Goes(w, pc) => worker'[w].pc = pc
    BY <1>1 DEF Goes, WorkerStates
  <1>3. CASE worker'[w] = worker[w]
    BY <1>3 DEF Executing, At
  <1>4. ASSUME worker'[w].pc \in {"claim", "idle", "stopped", "failing"}
        PROVE  ~Executing(w)' /\ ~At(w, "completing")' /\ ~At(w, "ack")'
    BY <1>4, ReportsKnown DEF Executing, At
  <1>5. CASE \/ Read(w) \/ Reclaim(w) \/ Ack(w) \/ AckFails(w) \/ WorkerCrash(w)
    <2>1. worker'[w].pc \in {"claim", "idle"}
      BY <1>1, <1>5 DEF Read, Reclaim, Ack, AckFails, WorkerCrash, Proceed, Starts, Idle
    <2>2. QED
      BY <1>4, <2>1
  <1>6. CASE \/ LoopEnds(w) \/ LocalError(w) \/ CompleteRefused(w) \/ CompleteCommitsUnseen(w)
             \/ CompleteRollsBack(w)
             \/ CallUnanswered(w)
    <2>1. worker'[w].pc \in {"stopped", "failing"}
      BY <1>2, <1>6 DEF LoopEnds, LocalError, CompleteRefused, CompleteCommitsUnseen,
                        CompleteRollsBack,
                        CallUnanswered
    <2>2. QED
      BY <1>4, <2>1
  <1>7. CASE /\ ApiCrash /\ At(w, "completing")
             /\ worker'[w] = [worker[w] EXCEPT !.pc = "failing"]
    BY <1>1, <1>4, <1>7 DEF WorkerStates
  <1>8. CASE ClaimCall(w)
    <2>1. CASE Runs(job'[JobOf(w)], AttemptOf(w))
      <3>1. worker'[w].pc = "optimizing"
        BY <1>2, <1>8, <2>1 DEF ClaimCall
      <3>2. QED
        BY <1>8, <2>1, <3>1 DEF At
    <2>2. CASE ~Runs(job'[JobOf(w)], AttemptOf(w))
      <3>1. worker'[w].pc = "ack"
        BY <1>2, <1>8, <2>2 DEF ClaimCall
      <3>2. QED
        BY <1>8, <3>1, ReportsKnown DEF Executing, At
    <2>3. QED
      BY <2>1, <2>2
  <1>9. CASE ReportCall(w)
    <2>1. Executing(w)
      BY <1>9 DEF ReportCall, Executing
    <2>2. CASE ReportAccepted(w)
      <3>1. worker'[w].pc \in After[worker[w].pc]
        BY <1>2, <1>9, <2>2 DEF ReportCall
      <3>2. \A pc \in DOMAIN Reports : "ack" \notin After[pc] /\ "completing" \notin After[pc]
        BY ReportsKnown DEF After
      <3>3. QED
        BY <1>9, <2>1, <3>1, <3>2 DEF ReportCall, At
    <2>3. CASE ~ReportAccepted(w)
      BY <1>2, <1>9, <2>1, <2>3 DEF ReportCall, At
    <2>4. QED
      BY <2>2, <2>3
  <1>10. CASE CompleteStores(w)
    BY <1>2, <1>10 DEF CompleteStores, Executing, At
  <1>11. CASE \/ ProviderCanceled(w) \/ CompleteAnswered(w) \/ CompleteCommits(w)
              \/ FailCall(w) \/ FailUnanswered(w)
    <2>1. worker'[w].pc = "ack"
      BY <1>2, <1>11 DEF ProviderCanceled, CompleteAnswered, CompleteCommits, FailCall,
                         FailUnanswered
    <2>2. QED
      BY <1>11, <2>1, ReportsKnown DEF Executing, At
  <1>12. QED
    BY <1>3, <1>5, <1>6, <1>7, <1>8, <1>9, <1>10, <1>11, OwnSteps DEF Step, Trouble

\* A worker executes an attempt only after a claim that found it running.
LEMMA ExecutedClaimedKept ==
  ASSUME PInv, [PipeNext]_allVars
  PROVE  ExecutedClaimed'
  <1> SUFFICES ASSUME NEW w \in Worker, Executing(w)'
               PROVE  ~Waiting(JobOf(w), AttemptOf(w))'
    BY DEF ExecutedClaimed
  <1>1. worker'[w].pc \notin Between \cup {"claim"}
    BY ReportsKnown DEF Executing, Between
  <1>2. /\ worker[w].pc \notin Between
        /\ JobOf(w)' = JobOf(w) /\ AttemptOf(w)' = AttemptOf(w)
    BY <1>1, SameMessage
  <1>3. JobOf(w) \in Job /\ AttemptOf(w) \in outbox[JobOf(w)]
    BY <1>2, CallsOpened
  <1>4. CASE Executing(w)
    <2>1. ~Waiting(JobOf(w), AttemptOf(w))
      BY <1>4 DEF PInv, ExecutedClaimed
    <2>2. IInv /\ [Next]_vars
      BY StepRefines DEF PInv
    <2>3. \A j \in Job : \A a \in outbox[j] : Waiting(j, a)' => Waiting(j, a)
      BY <2>2, AttemptsStay
    <2>4. QED
      BY <1>2, <1>3, <2>1, <2>3 DEF Waiting
  <1>5. CASE ~Executing(w)
    <2>1. ClaimCall(w) /\ Runs(job'[JobOf(w)], AttemptOf(w))
      BY <1>5, NewStage
    <2>2. QED
      BY <1>2, <2>1 DEF Runs, Waiting
  <1>6. QED
    BY <1>4, <1>5

\* The lock of a job's row is taken only when it is free, and given up only with
\* the answer to the worker that waits for it, if there is one.
LEMMA StoringStep ==
  ASSUME PInv, [PipeNext]_allVars, NEW w \in Worker,
         At(w, "completing"), At(w, "completing")'
  PROVE  storing'[JobOf(w)] = storing[JobOf(w)]
  <1> DEFINE j == JobOf(w)
  <1>0. /\ j \in Job /\ AttemptOf(w) \in Attempts /\ storing[j] = AttemptOf(w)
        /\ storing[j] # 0 /\ ~Unlocked(j)
        /\ storing \in [Job -> 0..MaxAttempts]
        /\ worker \in [Worker -> WorkerStates] /\ worker[w] \in WorkerStates
    <2>1. j \in Job /\ AttemptOf(w) \in Attempts
      BY CallsOpened DEF At, Between
    <2>2. storing[j] = AttemptOf(w)
      BY DEF PInv, CompletingHoldsRow
    <2>3. QED
      BY <2>1, <2>2 DEF Unlocked, Attempts, PInv, IInv, TypeOK, PipeTypeOK
  <1>1. ASSUME NEW k \in Job, k # j,
               \/ CompleteCommit(k) \/ CompleteUnanswered(k)
               \/ CompleteRollback(k) \/ CompleteRollbackLeak(k)
        PROVE  storing'[j] = storing[j]
    BY <1>0, <1>1 DEF CompleteCommit, CompleteUnanswered, Delivers, CompleteRollback,
                      CompleteRollbackLeak
  <1>2. ASSUME NEW k \in Job, NEW a \in Attempts, CompletePut(k, a)
        PROVE  storing'[j] = storing[j]
    BY <1>0, <1>2 DEF CompletePut
  <1>3. CASE Service
    BY <1>3 DEF Service, Owners, Create, Cancel, RetryCheck, RetryCommit, RetryRollback,
                Watcher, WatchScan, CreatedAges, StartedAges, WatchFail
  <1>4. CASE ApiCrash
    BY <1>0, <1>4 DEF ApiCrash, At, WorkerStates
  <1>5. ASSUME NEW k \in Job, Orphaned(k) PROVE storing'[j] = storing[j]
    BY <1>1, <1>5 DEF Orphaned
  <1>6. ASSUME NEW k \in Job, NEW a \in Attempts, Dispatch(k, a) PROVE storing'[j] = storing[j]
    BY <1>6 DEF Dispatch, Publish, PublishFails, PublishUnanswered, MarkPublished,
                MarkFails, vars
  <1>7. ASSUME NEW v \in Worker, Step(v) \/ Trouble(v) PROVE storing'[j] = storing[j]
    <2>1. CASE CompleteCommits(v) \/ CompleteCommitsUnseen(v) \/ CompleteRollsBack(v)
      <3>1. At(v, "completing")
        BY <2>1 DEF CompleteCommits, CompleteCommitsUnseen, CompleteRollsBack
      <3>2. v # w
        BY <1>0, <2>1 DEF CompleteCommits, CompleteCommitsUnseen,
                          CompleteRollsBack, Goes, At, WorkerStates
      <3>3. JobOf(v) # j /\ JobOf(v) \in Job
        BY <3>1, <3>2, CallsOpened DEF PInv, CompletingAlone, At, Between
      <3>4. QED
        BY <1>1, <2>1, <3>3 DEF CompleteCommits, CompleteCommitsUnseen, CompleteRollsBack
    <2>2. CASE CompleteStores(v) \/ CallUnanswered(v)
      <3>1. worker[v].pc \notin Between
        BY <2>2, ReportsKnown DEF CompleteStores, CallUnanswered, At, Between
      <3>2. JobOf(v) \in Job /\ AttemptOf(v) \in Attempts
        BY <3>1, CallsOpened
      <3>3. QED
        BY <1>2, <2>2, <3>2
           DEF CompleteStores, CallUnanswered, Report, ReportProgress, Claim, vars
    <2>3. CASE \/ ClaimCall(v) \/ ReportCall(v) \/ ProviderCanceled(v) \/ CompleteAnswered(v)
               \/ FailCall(v)
      BY <2>3 DEF ClaimCall, Claim, ReportCall, Report, ReportProgress, ProviderCanceled,
                  CompleteAnswered, CompleteCanceled, FailCall, Fail, vars
    <2>4. CASE \/ Read(v) \/ Reclaim(v) \/ LocalError(v) \/ CompleteRefused(v) \/ Ack(v)
               \/ LoopEnds(v) \/ WorkerCrash(v) \/ AckFails(v) \/ FailUnanswered(v)
      BY <2>4 DEF Read, Reclaim, LocalError, CompleteRefused, Ack, LoopEnds, WorkerCrash,
                  AckFails, FailUnanswered, vars
    <2>5. QED
      BY <1>7, <2>1, <2>2, <2>3, <2>4 DEF Step, Trouble
  <1>8. CASE UNCHANGED allVars
    BY <1>8 DEF allVars, vars
  <1>9. QED
    BY <1>3, <1>4, <1>5, <1>6, <1>7, <1>8 DEF PipeNext

\* Waiting for complete's answer means holding the row, so no two workers wait
\* for the same job's.
LEMMA CompletingKept ==
  ASSUME PInv, [PipeNext]_allVars
  PROVE  CompletingHoldsRow' /\ CompletingAlone'
  <1>1. ASSUME NEW w \in Worker, At(w, "completing")'
        PROVE  /\ JobOf(w)' = JobOf(w) /\ AttemptOf(w)' = AttemptOf(w)
               /\ JobOf(w) \in Job /\ AttemptOf(w) \in Attempts
    <2>1. worker'[w].pc \notin Between \cup {"claim"}
      BY <1>1 DEF At, Between
    <2>2. QED
      BY <2>1, SameMessage, CallsOpened
  <1>2. ASSUME NEW w \in Worker, At(w, "completing")'
        PROVE  storing'[JobOf(w)] = AttemptOf(w)
    <2>1. CASE At(w, "completing")
      BY <1>2, <2>1, StoringStep DEF PInv, CompletingHoldsRow
    <2>2. CASE ~At(w, "completing")
      <3>1. CompleteStores(w)
        BY <1>2, <2>2, NewStage
      <3>2. QED
        BY <1>1, <1>2, <3>1 DEF CompleteStores, CompletePut, PInv, IInv, TypeOK
    <2>3. QED
      BY <2>1, <2>2
  <1>3. CompletingHoldsRow'
    BY <1>1, <1>2 DEF CompletingHoldsRow
  <1>4. ASSUME NEW v \in Worker, NEW w \in Worker, v # w,
               At(v, "completing")', At(w, "completing")', ~At(w, "completing")
        PROVE  JobOf(v) # JobOf(w)
    <2>1. CompleteStores(w)
      BY <1>4, NewStage
    <2>2. At(v, "completing")
      BY <1>4, <2>1 DEF CompleteStores, Goes, At
    <2>3. storing[JobOf(v)] # 0
      BY <1>1, <1>4, <2>2 DEF PInv, CompletingHoldsRow, Attempts
    <2>4. QED
      BY <2>1, <2>3 DEF CompleteStores, CompletePut, Unlocked
  <1>5. CompletingAlone'
    <2> SUFFICES ASSUME NEW v \in Worker, NEW w \in Worker, v # w,
                        At(v, "completing")', At(w, "completing")'
                 PROVE  JobOf(v)' # JobOf(w)'
      BY DEF CompletingAlone
    <2>1. CASE At(v, "completing") /\ At(w, "completing")
      BY <1>1, <2>1 DEF PInv, CompletingAlone
    <2>2. QED
      BY <1>1, <1>4, <2>1
  <1>6. QED
    BY <1>3, <1>5

\* An attempt that is over or given up stays so.
LEMMA SettledStays ==
  ASSUME PInv, [PipeNext]_allVars, NEW j \in Job, NEW a \in outbox[j], Settled(j, a)
  PROVE  Settled(j, a)'
  <1>1. Open(j, a)' => Open(j, a)
    BY StepRefines, AttemptsStay DEF PInv
  <1>2. ASSUME GivenUp(j, a) PROVE GivenUp(j, a)'
    <2>1. PICK f \in abandoned : Message(f) = <<j, a>>
      BY <1>2 DEF GivenUp
    <2>2. abandoned \subseteq abandoned'
      <3>1. ASSUME NEW w \in Worker, Step(w) \/ Trouble(w) PROVE abandoned \subseteq abandoned'
        BY <3>1
           DEF Step, Trouble, Read, Reclaim, ClaimCall, ReportCall, ProviderCanceled,
               LocalError, CompleteStores, CompleteAnswered, CompleteRefused,
               CompleteCommits, CompleteCommitsUnseen,
               CompleteRollsBack, FailCall, Ack, LoopEnds,
               WorkerCrash, AckFails, FailUnanswered, CallUnanswered, GivesUp
      <3>2. ASSUME NEW k \in Job, NEW b \in Attempts, Dispatch(k, b)
            PROVE  abandoned \subseteq abandoned'
        BY <3>2 DEF Dispatch, Publish, PublishFails, PublishUnanswered, MarkPublished,
                    MarkFails
      <3>3. CASE Service \/ ApiCrash \/ (\E k \in Job : Orphaned(k)) \/ UNCHANGED allVars
        BY <3>3 DEF Service, ApiCrash, Orphaned, allVars, pipeVars
      <3>4. QED
        BY <3>1, <3>2, <3>3 DEF PipeNext
    <2>3. f \in 1..Len(stream)
      BY DEF PInv, PipeTypeOK
    <2>4. stream'[f] = stream[f]
      BY <2>3, StreamGrows
    <2>5. QED
      BY <2>1, <2>2, <2>4 DEF GivenUp, Message
  <1>3. QED
    BY <1>1, <1>2 DEF Settled

\* What the service answers to the last call of a message settles its attempt.
LEMMA AnswerSettles ==
  ASSUME PInv, [PipeNext]_allVars, NEW w \in Worker,
         At(w, "ack")', ~At(w, "ack")
  PROVE  \/ ~Open(JobOf(w), AttemptOf(w))'
         \/ worker[w].entry \in abandoned'
  <1> DEFINE j == JobOf(w)
             a == AttemptOf(w)
             r == job[JobOf(w)]
  <1>0. /\ worker[w].pc \notin Between
        /\ JobOf(w)' = j /\ AttemptOf(w)' = a
    BY SameMessage DEF At, Between
  <1>1. /\ j \in Job /\ a \in outbox[j] /\ RowInv(r) /\ r \in Row
        /\ job \in [Job -> Row]
    BY <1>0, CallsOpened DEF PInv, IInv, AllRows, TypeOK
  <1>2. ASSUME NEW row, Writes(j, row) PROVE job'[j] = row
    BY <1>1, <1>2 DEF Writes
  <1>3. ~Open(j, a)' <=> ~(job'[j].status \in ActiveStatuses /\ job'[j].attempt = a)
    BY <1>0 DEF Open, Active
  <1>4. ValidTransition(r.status, "CANCELED", FALSE) <=> r.status \in ActiveStatuses
    BY DEF ValidTransition, Transitions, ActiveStatuses
  <1>5. CanceledRow(r).status \notin ActiveStatuses
    BY <1>1, <1>4 DEF CanceledRow, Row, ActiveStatuses
  <1>6. Executing(w) => ~(r.status = "QUEUED" /\ r.attempt = a)
    BY DEF PInv, ExecutedClaimed, Waiting
  <1>7. CASE ClaimCall(w)
    <2>1. job'[j] = ClaimedRow(r, a) /\ ~Runs(job'[j], a)
      BY <1>2, <1>7 DEF ClaimCall, Claim, Goes, At
    <2>2. QED
      BY <1>1, <1>3, <1>5, <2>1 DEF ClaimedRow, Runs, ActiveStatuses, Row
  <1>8. CASE ReportCall(w) /\ ~ReportAccepted(w)
    <2>1. PICK stage : job'[j] = ReportedRow(r, a, stage)
      BY <1>2, <1>8 DEF ReportCall, Report, ReportProgress
    <2>2. ~Runs(job'[j], a) /\ Executing(w)
      BY <1>8 DEF ReportAccepted, ReportCall, Executing
    <2>3. QED
      BY <1>1, <1>3, <1>5, <1>6, <2>1, <2>2 DEF ReportedRow, Runs, ActiveStatuses, Row
  <1>9. CASE ProviderCanceled(w) \/ FailUnanswered(w)
    BY <1>9 DEF ProviderCanceled, FailUnanswered, GivesUp
  <1>10. CASE CompleteAnswered(w)
    <2>1. Executing(w)
      BY <1>10 DEF CompleteAnswered, Executing, At
    <2>2. CASE CompleteCanceled(j)
      BY <1>2, <1>3, <1>5, <2>2 DEF CompleteCanceled
    <2>3. CASE /\ ~Deliverable(r, a) /\ (r.cancelReq => r.status = "SUCCEEDED")
               /\ UNCHANGED vars
      BY <1>1, <1>3, <1>6, <2>1, <2>3 DEF Deliverable, vars, ActiveStatuses, Row
    <2>4. QED
      BY <1>10, <2>2, <2>3 DEF CompleteAnswered
  <1>11. CASE CompleteCommits(w)
    <2>1. job'[j] = SucceededRow(r)
      BY <1>2, <1>11 DEF CompleteCommits, CompleteCommit, Delivers
    <2>2. SucceededRow(r).status = "SUCCEEDED"
      BY <1>1 DEF SucceededRow, Row
    <2>3. QED
      BY <1>3, <2>1, <2>2 DEF ActiveStatuses
  <1>12. CASE FailCall(w)
    <2>1. job'[j] = FailedRow(r, a, "WORKER")
      BY <1>2, <1>12 DEF FailCall, Fail
    <2>2. QED
      BY <1>1, <1>3, <1>5, <2>1 DEF FailedRow, ActiveStatuses, Row
  <1>13. QED
    BY <1>7, <1>8, <1>9, <1>10, <1>11, <1>12, NewStage

\* An acknowledged message announced an attempt that is over, or was given up.
LEMMA AckSettledKept ==
  ASSUME PInv, [PipeNext]_allVars
  PROVE  AckSettled'
  <1>1. ASSUME NEW w \in Worker, At(w, "ack")'
        PROVE  Settled(JobOf(w), AttemptOf(w))'
    <2>1. /\ worker[w].pc \notin Between /\ worker'[w].entry = worker[w].entry
          /\ JobOf(w)' = JobOf(w) /\ AttemptOf(w)' = AttemptOf(w)
      BY <1>1, SameMessage DEF At, Between
    <2>2. JobOf(w) \in Job /\ AttemptOf(w) \in outbox[JobOf(w)]
      BY <2>1, CallsOpened
    <2>3. CASE At(w, "ack")
      <3>1. Settled(JobOf(w), AttemptOf(w))
        BY <2>3 DEF PInv, AckSettled
      <3>2. \A j \in Job : \A a \in outbox[j] : Settled(j, a) => Settled(j, a)'
        BY SettledStays
      <3>3. QED
        BY <2>1, <2>2, <3>1, <3>2 DEF Settled, Open, Active, GivenUp
    <2>4. CASE ~At(w, "ack")
      <3>1. CASE ~Open(JobOf(w), AttemptOf(w))'
        BY <3>1 DEF Settled
      <3>2. CASE worker[w].entry \in abandoned'
        BY <2>1, <3>2 DEF Settled, GivenUp, Message, JobOf, AttemptOf
      <3>3. QED
        BY <1>1, <2>4, <3>1, <3>2, AnswerSettles
    <2>5. QED
      BY <2>3, <2>4
  <1>2. ASSUME NEW e \in acked'
        PROVE  Settled(stream[e].job, stream[e].attempt)'
    <2>1. e \in acked \/ \E w \in Worker : At(w, "ack") /\ worker[w].entry = e
      <3>1. ASSUME NEW w \in Worker, Step(w) \/ Trouble(w), ~Ack(w) PROVE acked' = acked
        BY <3>1
           DEF Step, Trouble, Read, Reclaim, ClaimCall, ReportCall, ProviderCanceled,
               LocalError, CompleteStores, CompleteAnswered, CompleteRefused,
               CompleteCommits, CompleteCommitsUnseen,
               CompleteRollsBack, FailCall, LoopEnds, group,
               WorkerCrash, AckFails, FailUnanswered, CallUnanswered
      <3>2. ASSUME NEW w \in Worker, Ack(w) PROVE acked' = acked \cup {worker[w].entry}
        BY <3>2 DEF Ack
      <3>3. ASSUME NEW j \in Job, NEW a \in Attempts, Dispatch(j, a) PROVE acked' = acked
        BY <3>3 DEF Dispatch, Publish, PublishFails, PublishUnanswered, MarkPublished,
                    MarkFails, group
      <3>4. CASE Service \/ ApiCrash \/ (\E j \in Job : Orphaned(j)) \/ UNCHANGED allVars
        BY <3>4 DEF Service, ApiCrash, Orphaned, allVars, pipeVars, group
      <3>5. QED
        BY <1>2, <3>1, <3>2, <3>3, <3>4 DEF PipeNext, Ack
    <2>2. Settled(stream[e].job, stream[e].attempt) /\ e \in 1..Len(stream)
      <3>1. CASE e \in acked
        BY <3>1 DEF PInv, AckSettled, PipeTypeOK
      <3>2. ASSUME NEW w \in Worker, At(w, "ack"), worker[w].entry = e
            PROVE  Settled(stream[e].job, stream[e].attempt) /\ e \in 1..Len(stream)
        BY <3>2, CallsOpened DEF PInv, AckSettled, JobOf, AttemptOf, At, Between
      <3>3. QED
        BY <2>1, <3>1, <3>2
    <2>3. /\ stream'[e] = stream[e] /\ stream[e].job \in Job
          /\ stream[e].attempt \in outbox[stream[e].job]
      BY <2>2, StreamGrows
    <2>4. \A j \in Job : \A a \in outbox[j] : Settled(j, a) => Settled(j, a)'
      BY SettledStays
    <2>5. QED
      BY <2>2, <2>3, <2>4 DEF Settled, Open, Active, GivenUp
  <1>3. QED
    BY <1>1, <1>2 DEF AckSettled

-----------------------------------------------------------------------------
(* The theorems *)

\* Empty tables, an empty stream and idle workers satisfy the invariant.
LEMMA PipeInitPInv == PipeInit => PInv
  <1> SUFFICES ASSUME PipeInit PROVE PInv
    OBVIOUS
  <1>1. IInv
    BY InitIInv DEF PipeInit
  <1>2. /\ Len(stream) = 0 /\ stream \in Seq(Entries)
        /\ \A w \in Worker : worker[w] = Idle
    BY DEF PipeInit
  <1>3. [status |-> "PENDING", tries |-> 0] \in OutboxRows
    BY PipelineConstantsOK DEF OutboxRows
  <1>4. Idle \in WorkerStates
    BY DEF PipeInit, Idle, WorkerStates, PCs
  <1>5. PipeTypeOK
    BY <1>2, <1>3, <1>4 DEF PipeInit, PipeTypeOK
  <1>6. TriesLeft
    BY PipelineConstantsOK DEF PipeInit, TriesLeft
  <1>7. StreamOpened /\ PublishedStreamed
    BY <1>2 DEF PipeInit, StreamOpened, PublishedStreamed
  <1>8. \A w \in Worker : worker[w].pc = "idle"
    BY <1>2 DEF Idle
  <1>9. WorkersPlaced /\ CompletingHoldsRow /\ CompletingAlone /\ AckSettled
    BY <1>8 DEF PipeInit, WorkersPlaced, Between, CompletingHoldsRow, CompletingAlone, AckSettled, At
  <1>10. ExecutedClaimed
    BY <1>8, ReportsKnown DEF ExecutedClaimed, Executing
  <1>11. QED
    BY <1>1, <1>5, <1>6, <1>7, <1>9, <1>10 DEF PInv

\* Every step keeps the invariant.
LEMMA PipeNextKeepsPInv == PInv /\ [PipeNext]_allVars => PInv'
  <1> SUFFICES ASSUME PInv, [PipeNext]_allVars PROVE PInv'
    OBVIOUS
  <1>1. IInv'
    BY StepRefines, NextKeepsIInv DEF PInv
  <1>2. mishaps' \in Nat
    <2>1. mishaps \in Nat /\ (\A kind : Mishap(kind) => mishaps' = mishaps + 1)
      BY DEF PInv, PipeTypeOK, Mishap
    <2>2. mishaps' = mishaps \/ \E kind : Mishap(kind)
      <3>1. ASSUME NEW w \in Worker, Step(w) \/ Trouble(w)
            PROVE  mishaps' = mishaps \/ \E kind : Mishap(kind)
        BY <3>1
           DEF Step, Trouble, Read, Reclaim, ClaimCall, ReportCall, ProviderCanceled,
               LocalError, CompleteStores, CompleteAnswered, CompleteRefused,
               CompleteCommits, CompleteCommitsUnseen,
               CompleteRollsBack, FailCall, Ack, LoopEnds,
               WorkerCrash, AckFails, FailUnanswered, CallUnanswered
      <3>2. ASSUME NEW j \in Job, NEW a \in Attempts, Dispatch(j, a)
            PROVE  mishaps' = mishaps \/ \E kind : Mishap(kind)
        BY <3>2 DEF Dispatch, Publish, PublishFails, PublishUnanswered, MarkPublished,
                    MarkFails
      <3>3. CASE Service \/ ApiCrash \/ (\E j \in Job : Orphaned(j)) \/ UNCHANGED allVars
        BY <3>3 DEF Service, ApiCrash, Orphaned, allVars, pipeVars
      <3>4. QED
        BY <3>1, <3>2, <3>3 DEF PipeNext
    <2>3. QED
      BY <2>1, <2>2
  <1>3. PipeTypeOK' /\ WorkersPlaced'
    BY <1>2, OutboxRowsKept, StreamGrows, WorkersKept DEF PipeTypeOK, GroupTyped
  <1>4. TriesLeft'
    BY OutboxRowsKept
  <1>5. QED
    BY <1>1, <1>3, <1>4, AnnouncementsKept, ExecutedClaimedKept, CompletingKept,
       AckSettledKept DEF PInv

\* The invariant holds throughout.
THEOREM PipelineInvariance == PipeSpec => []PInv
  <1>1. QED
    BY PipeInitPInv, PipeNextKeepsPInv, PTL DEF PipeSpec

\* Every variable of the pipeline keeps its type; in particular no outbox row is
\* tried more than MaxPublish times, however the dispatcher's writes fail.
THEOREM PipelineTypeCorrect == PipeSpec => []PipeTypeOK
  <1>1. PInv => PipeTypeOK
    BY DEF PInv
  <1>2. QED
    BY <1>1, PipelineInvariance, PTL

\* The pipeline implements GenerationJob, so every theorem about the service
\* holds of the service as the workers drive it.
THEOREM PipelineUsesService == PipeSpec => ServiceRefined
  <1>1. PipeInit => Init
    BY DEF PipeInit
  <1>2. QED
    BY <1>1, StepRefines, PipelineInvariance, PTL DEF PipeSpec, ServiceRefined, Spec

\* A message is acknowledged only when its attempt is over or was given up,
\* whatever other workers do with the same message.
THEOREM AcknowledgedIsSettled == PipeSpec => []SettledWhenAcked
  <1>1. PInv => SettledWhenAcked
    BY DEF PInv, AckSettled, Settled, GivenUp, SettledWhenAcked, Message
  <1>2. QED
    BY <1>1, PipelineInvariance, PTL

\* An open attempt is never forgotten.
THEOREM NoAttemptForgotten == PipeSpec => []AttemptNotForgotten
  <1>1. PInv => AttemptNotForgotten
    <2> SUFFICES ASSUME PInv, NEW j \in Job, NEW a \in Attempts, Open(j, a),
                        sent[j][a].status \notin {"PENDING", "FAILED"}
                 PROVE  \E e \in DOMAIN stream :
                          Message(e) = <<j, a>> /\ (e \notin acked \/ e \in abandoned)
      BY DEF AttemptNotForgotten
    <2>1. sent[j][a].status = "PUBLISHED"
      BY DEF PInv, PipeTypeOK, OutboxRows
    <2>2. PICK e \in 1..Len(stream) : Message(e) = <<j, a>>
      BY <2>1 DEF PInv, PublishedStreamed
    <2>3. DOMAIN stream = 1..Len(stream) /\ abandoned \subseteq 1..Len(stream)
      BY DEF PInv, PipeTypeOK
    <2>4. CASE e \notin acked
      BY <2>2, <2>3, <2>4
    <2>5. CASE e \in acked
      <3>1. GivenUp(j, a)
        BY <2>2, <2>5 DEF PInv, AckSettled, Settled, Message
      <3>2. QED
        BY <2>3, <3>1 DEF GivenUp
    <2>6. QED
      BY <2>4, <2>5
  <1>2. QED
    BY <1>1, PipelineInvariance, PTL

\* A worker that waits for complete's answer holds the row for its attempt.
THEOREM RowHeldWhileCompleting == PipeSpec => []CompletingHoldsRow
  <1>1. PInv => CompletingHoldsRow
    BY DEF PInv
  <1>2. QED
    BY <1>1, PipelineInvariance, PTL

-----------------------------------------------------------------------------
(* Announcements *)

(***************************************************************************)
(* Until something goes wrong, an entry's row is marked or about to be     *)
(* (MarkedOnce), so the row the dispatcher finds PENDING has no entry yet. *)
(***************************************************************************)
OneSending == \A x, y \in sending : x = y

MarkedOnce ==
  \A e \in 1..Len(stream) :
    \/ Message(e) \in sending
    \/ sent[stream[e].job][stream[e].attempt].status # "PENDING"

DistinctEntries == \A e, f \in 1..Len(stream) : Message(e) = Message(f) => e = f

Undisturbed == faults + mishaps = 0

AInv == Undisturbed => OneSending /\ MarkedOnce /\ DistinctEntries

\* Nothing that went wrong is undone.
LEMMA TroubleStays ==
  ASSUME PInv, [PipeNext]_allVars, Undisturbed'
  PROVE  Undisturbed /\ UNCHANGED <<faults, mishaps>>
  <1>1. faults \in Nat /\ mishaps \in Nat
    BY DEF PInv, IInv, TypeOK, PipeTypeOK
  <1>2. faults' = faults \/ faults' = faults + 1
    <2>1. ASSUME NEW j \in Job, Owners(j) PROVE faults' = faults
      BY <2>1 DEF Owners, Create, Cancel, RetryCheck, RetryCommit, RetryRollback
    <2>2. ASSUME NEW j \in Job, NEW a \in 1..job[j].attempt,
                 \/ Claim(j, a) \/ Fail(j, a) \/ CompletePut(j, a)
                 \/ \E stage \in ReportStages : ReportProgress(j, a, stage)
          PROVE  faults' = faults
      BY <2>2 DEF Claim, Fail, CompletePut, ReportProgress
    <2>3. ASSUME NEW j \in Job,
                 CompleteCanceled(j) \/ CompleteCommit(j) \/ CompleteUnanswered(j)
                   \/ CompleteRollback(j) \/ CompleteRollbackLeak(j)
          PROVE  faults' = faults \/ faults' = faults + 1
      BY <2>3 DEF CompleteCanceled, CompleteCommit, CompleteUnanswered, Delivers,
                  CompleteRollback, CompleteRollbackLeak
    <2>4. CASE Watcher
      BY <2>4 DEF Watcher, WatchScan, CreatedAges, StartedAges, WatchFail
    <2>5. CASE Crash \/ UNCHANGED vars
      BY <2>5 DEF Crash, vars
    <2>6. QED
      BY <2>1, <2>2, <2>3, <2>4, <2>5, StepRefines DEF Next, Workers
  <1>3. mishaps' = mishaps \/ mishaps' = mishaps + 1
    <2>1. ASSUME NEW w \in Worker, Step(w) PROVE mishaps' = mishaps
      BY <2>1
         DEF Step, Read, Reclaim, ClaimCall, ReportCall, ProviderCanceled, LocalError,
             CompleteStores, CompleteAnswered, CompleteRefused, CompleteCommits,
             CompleteCommitsUnseen, CompleteRollsBack, FailCall, Ack
    <2>2. ASSUME NEW w \in Worker, Trouble(w) PROVE mishaps' = mishaps + 1
      BY <2>2 DEF Trouble, LoopEnds, WorkerCrash, AckFails, FailUnanswered, CallUnanswered,
                  Mishap
    <2>3. ASSUME NEW j \in Job, NEW a \in Attempts, Dispatch(j, a)
          PROVE  mishaps' = mishaps \/ mishaps' = mishaps + 1
      BY <2>3 DEF Dispatch, Publish, PublishFails, PublishUnanswered, MarkPublished,
                  MarkFails, Mishap
    <2>4. CASE Service \/ ApiCrash \/ (\E j \in Job : Orphaned(j)) \/ UNCHANGED allVars
      BY <2>4 DEF Service, ApiCrash, Orphaned, allVars, pipeVars
    <2>5. QED
      BY <2>1, <2>2, <2>3, <2>4 DEF PipeNext
  <1>4. QED
    BY <1>1, <1>2, <1>3 DEF Undisturbed

\* The dispatcher announces a row that no entry announces.
LEMMA PublishAnnounces ==
  ASSUME PInv, [PipeNext]_allVars, OneSending, MarkedOnce, DistinctEntries,
         NEW j \in Job, NEW a \in Attempts, Publish(j, a)
  PROVE  OneSending' /\ MarkedOnce' /\ DistinctEntries'
  <1> DEFINE n == Len(stream)
  <1>1. /\ sending = {} /\ sent[j][a].status = "PENDING" /\ sent' = sent
        /\ Streamed(j, a) /\ sending' = {<<j, a>>}
    BY DEF Publish, Pending
  <1>2. stream \in Seq(Entries) /\ n \in Nat
    BY DEF PInv, PipeTypeOK
  <1>3. /\ Len(stream') = n + 1
        /\ \A e \in 1..n : stream'[e] = stream[e]
        /\ stream'[n + 1] = [job |-> j, attempt |-> a]
    <2> DEFINE new == [job |-> j, attempt |-> a]
    <2>1. new \in Entries
      BY DEF Entries
    <2>2. stream' = Append(stream, new)
      BY <1>1 DEF Streamed
    <2> HIDE DEF new
    <2>3. /\ Len(stream') = n + 1
          /\ \A e \in 1..n : stream'[e] = stream[e]
          /\ stream'[n + 1] = new
      BY <1>2, <2>1, <2>2
    <2>4. QED
      BY <2>3 DEF new
  <1>4. \A e \in 1..n : <<stream[e].job, stream[e].attempt>> # <<j, a>>
    BY <1>1 DEF MarkedOnce
  <1> HIDE DEF n
  <1>5. \A e \in 1..Len(stream') : e \in 1..n \/ e = n + 1
    BY <1>2, <1>3 DEF n
  <1>6. MarkedOnce'
    <2>1. SUFFICES ASSUME NEW e \in 1..Len(stream')
                   PROVE  \/ <<stream'[e].job, stream'[e].attempt>> \in sending'
                          \/ sent'[stream'[e].job][stream'[e].attempt].status # "PENDING"
      BY DEF MarkedOnce, Message
    <2>2. CASE e \in 1..n
      BY <1>1, <1>3, <2>2 DEF MarkedOnce, Message, n
    <2>3. CASE e = n + 1
      BY <1>1, <1>3, <2>3
    <2>4. QED
      BY <1>5, <2>1, <2>2, <2>3
  <1>7. DistinctEntries'
    <2>1. SUFFICES ASSUME NEW e \in 1..Len(stream'), NEW f \in 1..Len(stream'),
                          <<stream'[e].job, stream'[e].attempt>>
                            = <<stream'[f].job, stream'[f].attempt>>
                   PROVE  e = f
      BY DEF DistinctEntries, Message
    <2>2. CASE e \in 1..n /\ f \in 1..n
      BY <1>3, <2>1, <2>2 DEF DistinctEntries, Message, n
    <2>3. CASE e = n + 1 /\ f = n + 1
      BY <2>3
    <2>4. CASE e \in 1..n /\ f = n + 1
      BY <1>3, <1>4, <2>1, <2>4
    <2>5. CASE e = n + 1 /\ f \in 1..n
      BY <1>3, <1>4, <2>1, <2>5
    <2>6. QED
      BY <1>5, <2>2, <2>3, <2>4, <2>5
  <1>8. QED
    BY <1>1, <1>6, <1>7 DEF OneSending

\* The row that was published is marked; no other was.
LEMMA MarkAnnounces ==
  ASSUME PInv, OneSending, MarkedOnce, DistinctEntries,
         NEW j \in Job, NEW a \in Attempts, MarkPublished(j, a) \/ PublishFails(j, a)
  PROVE  OneSending' /\ MarkedOnce' /\ DistinctEntries'
  <1>1. stream' = stream /\ sending' \subseteq sending
    BY DEF MarkPublished, PublishFails
  <1>2. PICK status, tries :
          /\ Sets(j, a, status, tries)
          /\ \/ MarkPublished(j, a) /\ status = "PUBLISHED"
             \/ PublishFails(j, a)
    BY DEF MarkPublished, PublishFails, CountFailure
  <1>3. /\ \A k \in Job : \A b \in Attempts :
             <<k, b>> # <<j, a>> => sent'[k][b] = sent[k][b]
        /\ sent'[j][a].status = status
    <2>1. /\ sent \in [Job -> [Attempts -> OutboxRows]]
          /\ sent' = [sent EXCEPT ![j] = [sent[j] EXCEPT ![a] =
                        [status |-> status, tries |-> tries]]]
      BY <1>2 DEF PInv, PipeTypeOK, Sets
    <2>2. sent'[j] = [sent[j] EXCEPT ![a] = [status |-> status, tries |-> tries]]
      BY <2>1
    <2>3. sent[j] \in [Attempts -> OutboxRows]
      BY <2>1
    <2>4. sent'[j][a] = [status |-> status, tries |-> tries]
      BY <2>2, <2>3
    <2>5. \A k \in Job : \A b \in Attempts :
            <<k, b>> # <<j, a>> => sent'[k][b] = sent[k][b]
      BY <2>1, <2>2, <2>3
    <2>6. QED
      BY <2>4, <2>5
  <1>4. ASSUME NEW e \in 1..Len(stream)
        PROVE  \/ Message(e) \in sending'
               \/ sent'[stream[e].job][stream[e].attempt].status # "PENDING"
    <2>1. stream[e].job \in Job /\ stream[e].attempt \in Attempts
      <3>1. stream[e] \in Entries
        BY DEF PInv, PipeTypeOK
      <3>2. QED
        BY <3>1 DEF Entries
    <2>2. CASE Message(e) = <<j, a>>
      <3>1. CASE MarkPublished(j, a) /\ status = "PUBLISHED"
        BY <1>3, <2>2, <3>1 DEF Message
      <3>2. CASE PublishFails(j, a)
        BY <2>2, <3>2 DEF PublishFails, Pending, MarkedOnce, Message
      <3>3. QED
        BY <1>2, <3>1, <3>2
    <2>3. CASE Message(e) # <<j, a>>
      <3>1. Message(e) \notin sending
        BY <2>3 DEF MarkPublished, PublishFails, OneSending
      <3>2. QED
        BY <1>3, <2>1, <2>3, <3>1 DEF MarkedOnce, Message
    <2>4. QED
      BY <2>2, <2>3
  <1>5. QED
    BY <1>1, <1>4 DEF OneSending, MarkedOnce, DistinctEntries, Message

LEMMA AnnouncedStep == PInv /\ AInv /\ [PipeNext]_allVars => AInv'
  <1> SUFFICES ASSUME PInv, AInv, [PipeNext]_allVars, Undisturbed'
               PROVE  OneSending' /\ MarkedOnce' /\ DistinctEntries'
    BY DEF AInv
  <1>1. /\ Undisturbed /\ UNCHANGED <<faults, mishaps>>
        /\ faults \in Nat /\ mishaps \in Nat
        /\ OneSending /\ MarkedOnce /\ DistinctEntries
    BY TroubleStays DEF AInv, PInv, IInv, TypeOK, PipeTypeOK
  <1>2. CASE UNCHANGED <<sent, sending, stream>>
    BY <1>1, <1>2 DEF OneSending, MarkedOnce, DistinctEntries, Message
  <1>3. ASSUME NEW j \in Job, NEW a \in Attempts, Dispatch(j, a)
        PROVE  OneSending' /\ MarkedOnce' /\ DistinctEntries'
    <2>1. ~MarkFails(j, a) /\ ~PublishUnanswered(j, a)
      BY <1>1 DEF MarkFails, PublishUnanswered, Mishap
    <2>2. QED
      BY <1>1, <1>3, <2>1, PublishAnnounces, MarkAnnounces DEF Dispatch
  <1>4. CASE ApiCrash
    BY <1>1, <1>4 DEF ApiCrash, Crash
  <1>5. ASSUME NEW w \in Worker, Step(w) \/ Trouble(w)
        PROVE  UNCHANGED <<sent, sending, stream>>
    BY <1>5 DEF Step, Trouble, Read, Reclaim, ClaimCall, ReportCall, ProviderCanceled,
                LocalError, CompleteStores, CompleteAnswered, CompleteRefused,
                CompleteCommits, CompleteCommitsUnseen,
                CompleteRollsBack, FailCall, Ack, LoopEnds,
                WorkerCrash, AckFails, FailUnanswered, CallUnanswered, group
  <1>6. CASE Service \/ (\E j \in Job : Orphaned(j)) \/ UNCHANGED allVars
    BY <1>2, <1>6 DEF Service, Orphaned, allVars, pipeVars
  <1>7. QED
    BY <1>2, <1>3, <1>4, <1>5, <1>6 DEF PipeNext

\* Unless a publication's answer, the mark of a published row or the API itself
\* was lost, the dispatcher announces an attempt once.
THEOREM AnnouncementsOnce == PipeSpec => []AnnouncedOnce
  <1>1. PipeInit => AInv
    BY DEF PipeInit, AInv, OneSending, MarkedOnce, DistinctEntries
  <1>2. PipeSpec => []AInv
    BY <1>1, AnnouncedStep, PipelineInvariance, PTL DEF PipeSpec
  <1>3. PInv /\ AInv => AnnouncedOnce
    <2>1. PInv => /\ DOMAIN stream = 1..Len(stream)
                  /\ faults \in Nat /\ mishaps \in Nat
      BY DEF PInv, IInv, TypeOK, PipeTypeOK
    <2>2. QED
      BY <2>1 DEF AInv, Undisturbed, DistinctEntries, AnnouncedOnce
  <1>4. QED
    BY <1>2, <1>3, PipelineInvariance, PTL

\* What the owner of a job is promised holds with real workers, redeliveries and
\* crashes of either side behind the service.
THEOREM PipelineKeepsLifecycle == PipeSpec => LifecycleKept
  BY PipelineUsesService, ServiceKeepsLifecycle, PTL DEF ServiceRefined

\* Workers that deliver a job twice record one output for it, of its own attempt,
\* it has its asset unless the answer to its commit was lost, and no asset is
\* stored that no output names, unless something went wrong.
THEOREM PipelineOutputs == PipeSpec => [](OutputIffSucceeded /\ AssetsAccounted)
  BY PipelineUsesService, OutputsMatch, AssetsMatch, PTL DEF ServiceRefined
=============================================================================
