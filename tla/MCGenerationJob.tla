-------------------------- MODULE MCGenerationJob --------------------------
(* Instances of GenerationJob for TLC. *)
EXTENDS GenerationJob, TLC

CONSTANTS j1, j2, u1

MCOwner == [j \in Job |-> u1]
=============================================================================
