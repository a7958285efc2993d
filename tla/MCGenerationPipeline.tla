----------------------- MODULE MCGenerationPipeline -----------------------
(* Instances of GenerationPipeline for TLC. *)
EXTENDS GenerationPipeline, TLC

CONSTANTS j1, u1, w1, w2

MCOwner == [j \in Job |-> u1]
MCStages == Stages \ {"QUEUED", "COMPLETED"}

NoneFailed == faults = 0 /\ \A j \in Job : \A a \in outbox[j] : sent[j][a].tries = 0
OneAtATime == Cardinality({w \in Worker : worker[w].pc # "idle"}) <= 1
FirstAttempt == \A j \in Job : outbox[j] \subseteq {1}

\* Bound: two workers are busy at once only while no publication and no instance
\* of the API has failed, and after another mishap in the first attempt only;
\* of a failure of the API and another mishap one is explored.
Bound ==
  \/ NoneFailed /\ (mishaps = 0 \/ FirstAttempt)
  \/ OneAtATime /\ faults + mishaps <= 1

Symmetry == Permutations(Worker)
=============================================================================
