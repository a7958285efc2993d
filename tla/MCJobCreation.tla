--------------------------- MODULE MCJobCreation ---------------------------
(* Instances of JobCreation for TLC. *)
EXTENDS JobCreation, TLC

CONSTANTS j1, j2, j3, j4, j5, u1, u2, k1, k2, p1, p2, p3, c1, c2

MCOwner == [j \in Job |-> IF j = j5 THEN u2 ELSE u1]

\* j1 and j2 are repetitions; j3 tries their preview under another key, j4 their
\* key with another preview; j5 is another user's request under the same key.
MCAsked ==
  (j1 :> [key |-> k1, preview |-> p1, content |-> c1]) @@
  (j2 :> [key |-> k1, preview |-> p1, content |-> c1]) @@
  (j3 :> [key |-> k2, preview |-> p1, content |-> c1]) @@
  (j4 :> [key |-> k1, preview |-> p2, content |-> c2]) @@
  (j5 :> [key |-> k1, preview |-> p3, content |-> c2])

\* Bound: the timeout does not pass.  What the watcher does to a job is checked
\* with GenerationJob; here a failed job is one a worker reports.
NoTimeout == \A j \in Job : job[j].createdAt = "young"

\* Bound: the other user has a job under the key before anybody else has a preview,
\* which is left in the queue, or he does not come at all.
OtherUserFirst ==
  \/ preview[p3].age = "none"
  \/ \A p \in Preview \ {p3} : preview[p].age = "none"
  \/ request[j5].got = j5 /\ job[j5].status = "QUEUED" /\ preview[p3].age = "fresh"

\* Bound: a running job is not canceled, and its Complete is answered truly.
PlainRuns ==
  unanswered = {} /\ \A j \in Job : job[j].cancelReq => job[j].status # "RUNNING"

Symmetry == Permutations({j1, j2})
=============================================================================
