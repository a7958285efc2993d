------------------------ MODULE GenerationPipeline ------------------------
(***************************************************************************)
(* How an attempt of a generation job reaches a worker and how the worker  *)
(* drives it: the dispatcher that moves outbox rows to the Redis stream    *)
(* (internal/generation/dispatcher.go, publisher.go), the consumer group   *)
(* and its list of pending entries (apps/worker/main.py), and the handler  *)
(* of one message (apps/worker/processor.py).  The service behind the API  *)
(* is GenerationJob: every call a worker makes is an action of it.         *)
(*                                                                         *)
(* Delivery is at least once.  A row is published and then marked, an      *)
(* entry is handled and then acknowledged, and an entry that stays pending *)
(* for REDIS_PEL_IDLE_MS (5 minutes) is handed to another worker although  *)
(* handling one may take PROVIDER_POLL_TIMEOUT (15 minutes).  Time is not  *)
(* modelled: any pending entry may have been idle that long.               *)
(***************************************************************************)
EXTENDS GenerationJob

CONSTANTS
  Worker,         \* worker processes
  MaxPublish,     \* outboxMaxAttempts: 20 in the code
  ProviderCancels,  \* whether the provider may end a job as canceled
  Mishaps,        \* the kinds of mishap explored
  MaxMishaps      \* bound: mishaps of those kinds

ASSUME PipelineConstantsOK ==
  /\ ReportStages = Stages \ {"QUEUED", "COMPLETED"}
  /\ MaxPublish \in Nat \ {0}
  /\ ProviderCancels \in BOOLEAN
  /\ Mishaps \subseteq {"mark", "publish", "call", "fail", "ack", "crash", "loop"}
  /\ MaxMishaps \in Nat

VARIABLES
  sent,        \* generation_outbox.status and .attempts of each row
  sending,     \* the row DispatchOnce has published and not yet marked
  stream,      \* stream generation_jobs: the entries ever added
  lastRead,    \* the consumer group's last delivered entry
  acked,       \* the entries acknowledged; those delivered and not are pending
  worker,      \* what each worker is doing
  abandoned,   \* history: entries given up without telling the API
  mishaps      \* mishaps so far

group == <<lastRead, acked>>
pipeVars == <<sent, sending, stream, lastRead, acked, worker, abandoned, mishaps>>
allVars == <<vars, pipeVars>>

Mishap(kind) ==
  /\ kind \in Mishaps /\ mishaps < MaxMishaps
  /\ mishaps' = mishaps + 1

-----------------------------------------------------------------------------
(* The dispatcher: a single goroutine, one row after the other *)

Pending(j, a) == a \in outbox[j] /\ sent[j][a].status = "PENDING"

Streamed(j, a) == stream' = Append(stream, [job |-> j, attempt |-> a])

Sets(j, a, status, tries) ==
  sent' = [sent EXCEPT ![j][a] = [status |-> status, tries |-> tries]]

CountFailure_OneTooMany(j, a) ==
  LET tries == sent[j][a].tries + 1
  IN  Sets(j, a, IF tries > MaxPublish THEN "FAILED" ELSE "PENDING", tries)

\* markOutboxFailure
CountFailure(j, a) ==
  LET tries == sent[j][a].tries + 1
  IN  Sets(j, a, IF tries >= MaxPublish THEN "FAILED" ELSE "PENDING", tries)

\* publishOutbox: XADD answers ...
Publish(j, a) ==
  /\ sending = {} /\ Pending(j, a)
  /\ Streamed(j, a)
  /\ sending' = {<<j, a>>}
  /\ UNCHANGED <<vars, sent, group, worker, abandoned, mishaps>>

MarkPublished_NotMarked(j, a) ==
  /\ <<j, a>> \in sending
  /\ sending' = {}
  /\ UNCHANGED <<vars, sent, stream, group, worker, abandoned, mishaps>>

\* ... and the row is marked, or that write fails and the row is still
\* PENDING at the next tick.
MarkPublished(j, a) ==
  /\ <<j, a>> \in sending
  /\ Sets(j, a, "PUBLISHED", sent[j][a].tries)
  /\ sending' = {}
  /\ UNCHANGED <<vars, stream, group, worker, abandoned, mishaps>>

MarkFails(j, a) ==
  /\ <<j, a>> \in sending
  /\ Mishap("mark")
  /\ sending' = {}
  /\ UNCHANGED <<vars, sent, stream, group, worker, abandoned>>

\* XADD fails before Redis did anything, or only its answer is lost.
PublishFails(j, a) ==
  /\ sending = {} /\ Pending(j, a)
  /\ CountFailure(j, a)
  /\ UNCHANGED <<vars, sending, stream, group, worker, abandoned, mishaps>>

PublishUnanswered(j, a) ==
  /\ sending = {} /\ Pending(j, a)
  /\ Mishap("publish")
  /\ CountFailure(j, a)
  /\ Streamed(j, a)
  /\ UNCHANGED <<vars, sending, group, worker, abandoned>>

-----------------------------------------------------------------------------
(* A worker between messages: consume, reclaim_pending *)

Idle == [pc |-> "idle", entry |-> 0, todo |-> {}]

At(w, pc) == worker[w].pc = pc
Goes(w, pc) == worker' = [worker EXCEPT ![w].pc = pc]
JobOf(w) == stream[worker[w].entry].job
AttemptOf(w) == stream[worker[w].entry].attempt

Starts(w, e, todo) ==
  worker' = [worker EXCEPT ![w] = [pc |-> "claim", entry |-> e, todo |-> todo]]

\* The oldest of some entries.
First(e, entries) == e \in entries /\ \A f \in entries : e <= f

PEL == 1..lastRead \ acked

Read_Acknowledges(w) ==
  /\ At(w, "idle")
  /\ lastRead < Len(stream)
  /\ lastRead' = lastRead + 1
  /\ acked' = acked \cup {lastRead + 1}
  /\ Starts(w, lastRead + 1, {})
  /\ UNCHANGED <<vars, sent, sending, stream, abandoned, mishaps>>

\* XREADGROUP ">", one entry.
Read(w) ==
  /\ At(w, "idle")
  /\ lastRead < Len(stream)
  /\ lastRead' = lastRead + 1
  /\ Starts(w, lastRead + 1, {})
  /\ UNCHANGED <<vars, sent, sending, stream, acked, abandoned, mishaps>>

Reclaim_NotHandled(w) ==
  /\ At(w, "idle")
  /\ PEL # {}
  /\ UNCHANGED allVars

\* XAUTOCLAIM: the entries that have been pending long enough, whoever has
\* them, are handled one after the other.
Reclaim(w) ==
  /\ At(w, "idle")
  /\ \E entries \in SUBSET PEL : \E e \in entries :
       First(e, entries) /\ Starts(w, e, entries \ {e})
  /\ UNCHANGED <<vars, sent, sending, stream, group, abandoned, mishaps>>

\* XREADGROUP raises: nothing catches it, the consume task ends, and the
\* process lives on without it.
LoopEnds(w) ==
  /\ At(w, "idle")
  /\ Mishap("loop")
  /\ Goes(w, "stopped")
  /\ UNCHANGED <<vars, sent, sending, stream, group, abandoned>>

\* The process dies and is started again.
WorkerCrash(w) ==
  /\ ~At(w, "idle")
  /\ Mishap("crash")
  /\ worker' = [worker EXCEPT ![w] = Idle]
  /\ UNCHANGED <<vars, sent, sending, stream, group, abandoned>>

\* The end of handle_message: on with the next entry, if XAUTOCLAIM gave more.
Proceed(w) ==
  \/ worker[w].todo = {} /\ worker' = [worker EXCEPT ![w] = Idle]
  \/ \E e \in worker[w].todo :
       First(e, worker[w].todo) /\ Starts(w, e, worker[w].todo \ {e})

Ack(w) ==
  /\ At(w, "ack")
  /\ acked' = acked \cup {worker[w].entry}
  /\ Proceed(w)
  /\ UNCHANGED <<vars, sent, sending, stream, lastRead, abandoned, mishaps>>

\* XACK raises: logged, and the entry stays pending.
AckFails(w) ==
  /\ At(w, "ack")
  /\ Mishap("ack")
  /\ Proceed(w)
  /\ UNCHANGED <<vars, sent, sending, stream, group, abandoned>>

-----------------------------------------------------------------------------
(* JobProcessor.process: one message *)

\* The progress reports, in order: the stage each reports.
Reports ==
  [optimizing |-> "OPTIMIZING_PROMPT",
   optimized  |-> "OPTIMIZING_PROMPT",
   submitting |-> "SUBMITTING_PROVIDER",
   generating |-> "GENERATING",
   fetching   |-> "FETCHING_OUTPUT",
   storing    |-> "STORING_OUTPUT"]

\* What the worker does after each report that was not refused.  In the poll
\* loop it polls again, fetches the output, or fails the job because the
\* provider did or the deadline has passed.
After ==
  [optimizing |-> {"optimized"},
   optimized  |-> {"submitting"},
   submitting |-> {"generating"},
   generating |-> {"generating", "fetching", "failing"},
   fetching   |-> {"storing"},
   storing    |-> {"complete"}]

\* Reports that come after a local step that may raise: the check of the
\* prompt, the optimizer, the provider's submit, status and output.
Risky == {"optimizing", "optimized", "generating", "storing"}

Runs(row, a) == row.status = "RUNNING" /\ row.attempt = a

Report(w) == ReportProgress(JobOf(w), AttemptOf(w), Reports[worker[w].pc])

\* The job is neither canceled nor has the API refused the report (409).
ReportAccepted(w) ==
  LET row == job'[JobOf(w)]
  IN  Runs(row, AttemptOf(w)) \/ row.status = "SUCCEEDED"

GivesUp(w) == abandoned' = abandoned \cup {worker[w].entry}

\* A claim answered with SUCCEEDED or CANCELED, or refused, ends the message.
ClaimCall(w) ==
  /\ At(w, "claim")
  /\ Claim(JobOf(w), AttemptOf(w))
  /\ Goes(w, IF Runs(job'[JobOf(w)], AttemptOf(w)) THEN "optimizing" ELSE "ack")
  /\ UNCHANGED <<sent, sending, stream, group, abandoned, mishaps>>

ReportCall(w) ==
  /\ worker[w].pc \in DOMAIN Reports
  /\ Report(w)
  /\ \/ /\ ReportAccepted(w)
        /\ \E pc \in After[worker[w].pc] : Goes(w, pc)
     \/ ~ReportAccepted(w) /\ Goes(w, "ack")
  /\ UNCHANGED <<sent, sending, stream, group, abandoned, mishaps>>

\* The provider reports its job as canceled: taken for a canceled job, and the
\* API is not told.
ProviderCanceled(w) ==
  /\ ProviderCancels
  /\ At(w, "generating")
  /\ Report(w)
  /\ ReportAccepted(w)
  /\ Goes(w, "ack")
  /\ GivesUp(w)
  /\ UNCHANGED <<sent, sending, stream, group, mishaps>>

LocalError_NotReported(w) ==
  /\ worker[w].pc \in Risky
  /\ Goes(w, "ack")
  /\ UNCHANGED <<vars, sent, sending, stream, group, abandoned, mishaps>>

LocalError(w) ==
  /\ worker[w].pc \in Risky
  /\ Goes(w, "failing")
  /\ UNCHANGED <<vars, sent, sending, stream, group, abandoned, mishaps>>

\* complete: the file is being stored ...
CompleteStores(w) ==
  /\ At(w, "complete")
  /\ CompletePut(JobOf(w), AttemptOf(w))
  /\ Goes(w, "completing")
  /\ UNCHANGED <<sent, sending, stream, group, abandoned, mishaps>>

\* ... the job was canceled, has its output already, or is in another attempt ...
CompleteAnswered(w) ==
  LET j == JobOf(w) IN
  /\ At(w, "complete")
  /\ \/ CompleteCanceled(j)
     \/ /\ Unlocked(j) /\ ~Deliverable(job[j], AttemptOf(w))
        /\ job[j].cancelReq => job[j].status = "SUCCEEDED"
        /\ UNCHANGED vars
  /\ Goes(w, "ack")
  /\ UNCHANGED <<sent, sending, stream, group, abandoned, mishaps>>

\* ... or the file is refused, or cannot be stored.
CompleteRefused(w) ==
  /\ At(w, "complete")
  /\ Unlocked(JobOf(w)) /\ Deliverable(job[JobOf(w)], AttemptOf(w))
  /\ Goes(w, "failing")
  /\ UNCHANGED <<vars, sent, sending, stream, group, abandoned, mishaps>>

CompleteCommits(w) ==
  /\ At(w, "completing")
  /\ CompleteCommit(JobOf(w))
  /\ Goes(w, "ack")
  /\ UNCHANGED <<sent, sending, stream, group, abandoned, mishaps>>

\* The commit took effect but looked failed to the API: so it is answered (500).
CompleteCommitsUnseen(w) ==
  /\ At(w, "completing")
  /\ CompleteUnanswered(JobOf(w))
  /\ Goes(w, "failing")
  /\ UNCHANGED <<sent, sending, stream, group, abandoned, mishaps>>

CompleteRollsBack(w) ==
  /\ At(w, "completing")
  /\ CompleteRollback(JobOf(w)) \/ CompleteRollbackLeak(JobOf(w))
  /\ Goes(w, "failing")
  /\ UNCHANGED <<sent, sending, stream, group, abandoned, mishaps>>

FailCall_AsTimeout(w) ==
  LET j == JobOf(w) IN
  /\ At(w, "failing") /\ Unlocked(j)
  /\ Writes(j, FailedRow(job[j], AttemptOf(w), "GENERATION_TIMEOUT"))
  /\ Goes(w, "ack")
  /\ UNCHANGED <<outbox, outputs, assets, storing, retrying, watch, unanswered, faults>>
  /\ UNCHANGED <<sent, sending, stream, group, abandoned, mishaps>>

\* _fail: accepted or refused, the message is done with.
FailCall(w) ==
  /\ At(w, "failing")
  /\ Fail(JobOf(w), AttemptOf(w))
  /\ Goes(w, "ack")
  /\ UNCHANGED <<sent, sending, stream, group, abandoned, mishaps>>

\* The failure cannot be reported: logged, and the message is done with.
FailUnanswered(w) ==
  /\ At(w, "failing")
  /\ Mishap("fail")
  /\ Goes(w, "ack")
  /\ GivesUp(w)
  /\ UNCHANGED <<vars, sent, sending, stream, group>>

\* Any other call that times out or is answered with an error (500), before or
\* after it took effect.
CallUnanswered(w) ==
  /\ Mishap("call")
  /\ \/ worker[w].pc \in DOMAIN Reports /\ (Report(w) \/ UNCHANGED vars)
     \/ At(w, "claim") /\ (Claim(JobOf(w), AttemptOf(w)) \/ UNCHANGED vars)
     \/ At(w, "complete") /\ (CompletePut(JobOf(w), AttemptOf(w)) \/ UNCHANGED vars)
     \/ At(w, "completing") /\ UNCHANGED vars
  /\ Goes(w, "failing")
  /\ UNCHANGED <<sent, sending, stream, group, abandoned>>

-----------------------------------------------------------------------------
(* The API *)

\* A Complete whose worker is gone still ends.
Orphaned(j) ==
  /\ \A w \in Worker : At(w, "completing") => JobOf(w) # j
  /\ \/ CompleteCommit(j) \/ CompleteUnanswered(j)
     \/ CompleteRollback(j) \/ CompleteRollbackLeak(j)
  /\ UNCHANGED pipeVars

\* The API process dies and is started again.
ApiCrash ==
  /\ Crash
  /\ sending' = {}
  /\ worker' = [w \in Worker |-> IF At(w, "completing")
                                 THEN [worker[w] EXCEPT !.pc = "failing"]
                                 ELSE worker[w]]
  /\ UNCHANGED <<sent, stream, group, abandoned, mishaps>>

Service ==
  /\ (\E j \in Job : Owners(j)) \/ Watcher
  /\ UNCHANGED pipeVars

PipeInit ==
  /\ Init
  /\ sent = [j \in Job |-> [a \in Attempts |-> [status |-> "PENDING", tries |-> 0]]]
  /\ sending = {}
  /\ stream = <<>>
  /\ lastRead = 0
  /\ acked = {}
  /\ worker = [w \in Worker |-> Idle]
  /\ abandoned = {}
  /\ mishaps = 0

Dispatch(j, a) ==
  \/ Publish(j, a) \/ PublishFails(j, a) \/ PublishUnanswered(j, a)
  \/ MarkPublished(j, a) \/ MarkFails(j, a)

\* Everything a worker does of its own accord.
Step(w) ==
  \/ Read(w) \/ Reclaim(w)
  \/ ClaimCall(w) \/ ReportCall(w) \/ ProviderCanceled(w) \/ LocalError(w)
  \/ CompleteStores(w) \/ CompleteAnswered(w) \/ CompleteRefused(w)
  \/ CompleteCommits(w) \/ CompleteCommitsUnseen(w) \/ CompleteRollsBack(w)
  \/ FailCall(w) \/ Ack(w)

Trouble(w) ==
  \/ LoopEnds(w) \/ WorkerCrash(w) \/ AckFails(w)
  \/ FailUnanswered(w) \/ CallUnanswered(w)

PipeNext ==
  \/ Service
  \/ ApiCrash
  \/ \E j \in Job : Orphaned(j) \/ \E a \in Attempts : Dispatch(j, a)
  \/ \E w \in Worker : Step(w) \/ Trouble(w)

PipeSpec == PipeInit /\ [][PipeNext]_allVars

(***************************************************************************)
(* Fairness: the dispatcher ticks every second and its writes end; a       *)
(* worker keeps consuming and its calls are answered in the end, though    *)
(* another worker may hold the row they need for a while (SF, as in        *)
(* GenerationJob); polling ends at PROVIDER_POLL_TIMEOUT at the latest     *)
(* (the last SF).  Neither the owner nor the watcher is assumed to act.    *)
(***************************************************************************)
PipeFairness ==
  /\ WF_allVars(\E j \in Job, a \in Attempts : Dispatch(j, a))
  /\ \A j \in Job :
       /\ WF_allVars(Orphaned(j))
       /\ WF_allVars((RetryCommit(j) \/ RetryRollback(j)) /\ UNCHANGED pipeVars)
  /\ \A w \in Worker : SF_allVars(Step(w) /\ worker'[w] # worker[w])

FairPipeSpec == PipeSpec /\ PipeFairness

-----------------------------------------------------------------------------
(* Properties *)

PCs == {"idle", "claim", "complete", "completing", "failing", "ack", "stopped"}
         \cup DOMAIN Reports

Entries == [job : Job, attempt : Attempts]
OutboxRows == [status : {"PENDING", "PUBLISHED", "FAILED"}, tries : 0..MaxPublish]
WorkerStates == [pc : PCs, entry : 0..lastRead, todo : SUBSET (1..lastRead)]

PipeTypeOK ==
  /\ sent \in [Job -> [Attempts -> OutboxRows]]
  /\ sending \in SUBSET (Job \X Attempts)
  /\ stream \in Seq(Entries)
  /\ lastRead \in 0..Len(stream)
  /\ acked \in SUBSET (1..lastRead)
  /\ worker \in [Worker -> WorkerStates]
  /\ abandoned \in SUBSET (1..lastRead)
  /\ mishaps \in Nat

Message(e) == <<stream[e].job, stream[e].attempt>>

\* The attempt is the job's current one and has not ended.
Open(j, a) == Active(j) /\ job[j].attempt = a

\* No open attempt is forgotten: its outbox row still waits for the dispatcher
\* or has used up its tries, or the stream holds an entry for it that is not
\* acknowledged, or a worker gave it up without telling the API.  (The watcher
\* is the only thing that ends the attempts of the last two kinds of loss.)
AttemptNotForgotten ==
  \A j \in Job : \A a \in Attempts :
    Open(j, a) =>
      \/ sent[j][a].status \in {"PENDING", "FAILED"}
      \/ \E e \in DOMAIN stream :
           Message(e) = <<j, a>> /\ (e \notin acked \/ e \in abandoned)

\* An entry is acknowledged only when the attempt it announced is over,
\* whichever of its handlers, run by whichever workers, acknowledged it, unless
\* that handler gave it up.
SettledWhenAcked ==
  \A e \in acked :
    Open(stream[e].job, stream[e].attempt)
      => \E f \in abandoned : Message(f) = Message(e)

\* An attempt is announced more than once only after a mishap: the dispatcher
\* by itself does not publish a row again.
AnnouncedOnce ==
  \A e, f \in DOMAIN stream :
    Message(e) = Message(f) /\ e # f => faults + mishaps > 0

\* The worker that waits for complete's answer is the one whose attempt holds
\* the row; when two deliver the same attempt, one of them has to wait.
CompletingHoldsRow ==
  \A w \in Worker : At(w, "completing") => storing[JobOf(w)] = AttemptOf(w)

\* Seen from the service the pipeline is nothing but calls GenerationJob
\* allows, so everything shown there holds here.
ServiceRefined == Spec

\* Every attempt's message is handled and acknowledged in the end, though
\* workers die and calls and answers are lost, unless publishing it has failed
\* MaxPublish times.
Delivered ==
  \A j \in Job : \A a \in Attempts :
    a \in outbox[j] ~>
      \/ sent[j][a].status = "FAILED"
      \/ \E e \in acked : Message(e) = <<j, a>>

\* UNFINISHED_PHASES.md:431: an entry whose failure callback raised is not
\* acknowledged.
FailureKeptPending == abandoned \cap acked = {}
=============================================================================
