----------------------------- MODULE JobCreation -----------------------------
(***************************************************************************)
(* How a job comes to be (internal/generation: service.go, prompt.go).     *)
(* The user has a prompt optimized (PreviewPrompt), which leaves a preview *)
(* that lives for fifteen minutes and may be spent on one job; then he     *)
(* asks for the job, under an idempotency key, and may ask again.          *)
(*                                                                         *)
(* Service.Create is two steps, because its first read is outside of its   *)
(* transaction:                                                            *)
(*                                                                         *)
(*   - it looks for a job under the key and answers with that, or with a   *)
(*     conflict if that job was asked for with another content;            *)
(*   - otherwise its transaction locks the preview, counts the active      *)
(*     jobs, inserts job and outbox row and marks the preview consumed.    *)
(*                                                                         *)
(* The transaction is GenerationJob's Create together with the preview.    *)
(* A job is named after the request that creates it; requests with the     *)
(* same key, preview and content are repetitions of one another.  All      *)
(* other operations of the service interleave.                             *)
(***************************************************************************)
EXTENDS GenerationJob

CONSTANTS
  Preview, Key,
  Content,    \* what a request says besides key and preview
  Asked,      \* what each request asks for
  KeyPerUser  \* the unique index covers the user too, as the SQL migration
              \* makes it; the one AutoMigrate makes covers the key alone

Refusals == {"conflict", "unresolved", "consumed", "expired", "limit", "failed"}

ASSUME CreationConstantsOK ==
  /\ KeyPerUser \in BOOLEAN
  /\ Asked \in [Job -> [key : Key, preview : Preview, content : Content]]
  /\ Job \cap (Refusals \cup {"none"}) = {}

VARIABLES
  preview,    \* table generation_prompt_previews
  request,    \* the requests: waiting to be sent, in the transaction, answered
  raced       \* history: requests in whose way a repetition of them committed

creationVars == <<preview, request, raced>>
allCreationVars == <<vars, creationVars>>

-----------------------------------------------------------------------------
(* Requests *)

PreviewRow == [age : {"none", "fresh", "expired"}, consumed : BOOLEAN]

\* fresh: the preview had not expired at the time Create read the clock, after
\* the look-up and before the transaction.
Requests == [at : {"new", "open", "answered"}, fresh : BOOLEAN,
             got : Job \cup Refusals \cup {"none"}]

PreviewOf(j) == preview[Asked[j].preview]

SameKey(i, j) == Owner[i] = Owner[j] /\ Asked[i].key = Asked[j].key

\* hashRequest covers the preview's id and the content, not the key.
SameHash(i, j) ==
  Asked[i].preview = Asked[j].preview /\ Asked[i].content = Asked[j].content

Repeats(i, j) == SameKey(i, j) /\ SameHash(i, j)

\* What the look-up by user and key finds.
Keyed(j) == {i \in Job : Exists(i) /\ SameKey(i, j)}

\* What the unique index holds against the insert.
Colliding(j) ==
  {i \in Job : /\ Exists(i) /\ Asked[i].key = Asked[j].key
               /\ KeyPerUser => Owner[i] = Owner[j]}

Answers(j, got) ==
  request' = [request EXCEPT ![j] = [at |-> "answered", fresh |-> FALSE, got |-> got]]

\* What a request gets whose key has a job.
ReplyWith_AnyHash(j, i) == i

ReplyWith(j, i) == IF SameHash(i, j) THEN i ELSE "conflict"

CreationInit ==
  /\ Init
  /\ preview = [p \in Preview |-> [age |-> "none", consumed |-> FALSE]]
  /\ request = [j \in Job |-> [at |-> "new", fresh |-> FALSE, got |-> "none"]]
  /\ raced = {}

-----------------------------------------------------------------------------
(* Previews *)

\* The optimizer's answer is stored; without one nothing is.
PreviewPrompt(p) ==
  /\ preview[p].age = "none"
  /\ preview' = [preview EXCEPT ![p].age = "fresh"]
  /\ UNCHANGED <<vars, request, raced>>

PreviewExpires(p) ==
  /\ preview[p].age = "fresh"
  /\ preview' = [preview EXCEPT ![p].age = "expired"]
  /\ UNCHANGED <<vars, request, raced>>

-----------------------------------------------------------------------------
(* Create *)

CreateLookup_Skipped(j) ==
  /\ request[j].at = "new"
  /\ PreviewOf(j).age # "none"
  /\ request' = [request EXCEPT ![j].at = "open", ![j].fresh = PreviewOf(j).age = "fresh"]
  /\ UNCHANGED <<vars, preview, raced>>

\* The look-up by key, and the clock.  A request names a preview its user was
\* given; any other is refused like a consumed one.
CreateLookup(j) ==
  /\ request[j].at = "new"
  /\ PreviewOf(j).age # "none"
  /\ \/ \E i \in Keyed(j) : Answers(j, ReplyWith(j, i))
     \/ /\ Keyed(j) = {}
        /\ request' = [request EXCEPT ![j].at = "open",
                                      ![j].fresh = PreviewOf(j).age = "fresh"]
  /\ UNCHANGED <<vars, preview, raced>>

\* lockPromptPreview accepts the preview.
Accepted_Consumed(j) == request[j].at = "open" /\ request[j].fresh

Accepted(j) ==
  /\ request[j].at = "open"
  /\ request[j].fresh /\ ~PreviewOf(j).consumed

\* The locks on the owner's active jobs are granted.
Locks(j) == \A k \in ActiveOf(Owner[j]) : Unlocked(k)

AtLimit(j) == Cardinality(ActiveOf(Owner[j])) >= MaxActive

CreateCommit_NoLimit(j) ==
  /\ Accepted(j) /\ Colliding(j) = {}
  /\ Writes(j, CreatedRow)
  /\ outbox' = [outbox EXCEPT ![j] = @ \cup {1}]
  /\ UNCHANGED <<outputs, assets, storing, retrying, watch, unanswered, faults>>
  /\ preview' = [preview EXCEPT ![Asked[j].preview].consumed = TRUE]
  /\ Answers(j, j)
  /\ UNCHANGED raced

\* The transaction commits.  The database may have committed and its answer be
\* lost: Create then returns an error although the job is there.
CreateCommit(j) ==
  /\ Accepted(j) /\ Colliding(j) = {}
  /\ Create(j)
  /\ preview' = [preview EXCEPT ![Asked[j].preview].consumed = TRUE]
  /\ \E got \in {j, "failed"} : Answers(j, got)
  /\ raced' = raced \cup {i \in Job : request[i].at = "open" /\ Repeats(i, j) /\ i # j}

\* lockPromptPreview refuses, or the limit is reached.
CreateRefused(j) ==
  /\ request[j].at = "open"
  /\ \/ PreviewOf(j).consumed /\ Answers(j, "consumed")
     \/ ~PreviewOf(j).consumed /\ ~request[j].fresh /\ Answers(j, "expired")
     \/ Accepted(j) /\ Locks(j) /\ AtLimit(j) /\ Answers(j, "limit")
  /\ UNCHANGED <<vars, preview, raced>>

\* The insert meets a job under the key: the transaction is rolled back, and the
\* key looked up once more.  If that fails or finds nothing, the job being another
\* user's, the answer is that of a conflict all the same: "unresolved".
CreateDuplicate(j) ==
  /\ Accepted(j) /\ Locks(j) /\ ~AtLimit(j)
  /\ Colliding(j) # {}
  /\ \/ \E i \in Keyed(j) : Answers(j, ReplyWith(j, i))
     \/ Answers(j, "unresolved")
  /\ UNCHANGED <<vars, preview, raced>>

\* The look-up fails, or a statement of the transaction does and everything is
\* rolled back.
CreateFails(j) ==
  /\ request[j].at # "answered" /\ PreviewOf(j).age # "none"
  /\ Answers(j, "failed")
  /\ UNCHANGED <<vars, preview, raced>>

-----------------------------------------------------------------------------
(* The rest of the service *)

\* The process dies with the requests it was answering.
CreationCrash ==
  /\ Crash
  /\ request' = [j \in Job |->
       IF request[j].at = "open" THEN [at |-> "answered", fresh |-> FALSE, got |-> "failed"]
       ELSE request[j]]
  /\ UNCHANGED <<preview, raced>>

LaterStep(j) ==
  /\ \/ Cancel(j) \/ RetryCheck(j) \/ RetryCommit(j) \/ RetryRollback(j)
     \/ Workers(j)
  /\ UNCHANGED creationVars

WatcherStep == Watcher /\ UNCHANGED creationVars

CreationNext ==
  \/ \E p \in Preview : PreviewPrompt(p) \/ PreviewExpires(p)
  \/ \E j \in Job :
       \/ CreateLookup(j) \/ CreateCommit(j) \/ CreateRefused(j)
       \/ CreateDuplicate(j) \/ CreateFails(j)
       \/ LaterStep(j)
  \/ WatcherStep
  \/ CreationCrash

CreationSpec == CreationInit /\ [][CreationNext]_allCreationVars

-----------------------------------------------------------------------------
(* Properties *)

CreationTypeOK ==
  /\ preview \in [Preview -> PreviewRow]
  /\ request \in [Job -> Requests]
  /\ raced \in SUBSET Job
  /\ \A j \in Job : request[j].got = "none" <=> request[j].at # "answered"

\* An idempotency key names one job of its user.  Whoever is answered with a job
\* asked for that job, under its key and with its content, also when another
\* request created it; and a conflict that was looked up is one: another content
\* holds the key.  (Only after a collision that no look-up explains is a request
\* told of a conflict it may not have.)
KeyNamesOneJob ==
  /\ \A i, j \in Job : Exists(i) /\ Exists(j) /\ SameKey(i, j) => i = j
  /\ \A j \in Job :
       /\ request[j].got \in Job =>
            Exists(request[j].got) /\ Repeats(request[j].got, j)
       /\ request[j].got = "conflict" => \E i \in Keyed(j) : ~SameHash(i, j)

\* A preview is spent on one job, whatever keys it is tried with, and it is
\* spent only if that job is there: the transaction that fails gives it back.
PreviewSpentOnce ==
  /\ \A i, j \in Job :
       Exists(i) /\ Exists(j) /\ Asked[i].preview = Asked[j].preview => i = j
  /\ \A p \in Preview :
       preview[p].consumed <=> \E j \in Job : Exists(j) /\ Asked[j].preview = p

\* A repetition of a request that created a job is never told that the preview
\* is used up, even if the first answer was lost; except when the two were in
\* their transactions at the same time.
ReplayReturnsJobUnlessRaced ==
  \A i, j \in Job :
    Exists(i) /\ Repeats(i, j) /\ request[j].got = "consumed" => j \in raced

FateOf(r) ==
  CASE r.at # "answered"                -> "waiting"
    [] r.got \in Job                    -> "served"
    [] r.got = "conflict"               -> "conflict"
    [] r.got \in Refusals \ {"conflict"} -> "refused"

CreateRequests == INSTANCE IdempotentRequests
  WITH Call <- Job,
       KeyOf <- [j \in Job |-> <<Owner[j], Asked[j].key>>],
       BodyOf <- [j \in Job |-> <<Asked[j].preview, Asked[j].content>>],
       made <- {j \in Job : Exists(j)},
       fate <- [j \in Job |-> FateOf(request[j])],
       got <- [j \in Job |-> IF request[j].got \in Job THEN request[j].got ELSE j]

\* A user's key makes one job, for good, whatever fails in between, and who is
\* answered with a job or a conflict is told the truth about it.
JobKeysKept == CreateRequests!Spec

\* The creation of jobs, previews included, does to the job tables only what
\* the service's Create may do.
CreationRefined == Spec
=============================================================================
