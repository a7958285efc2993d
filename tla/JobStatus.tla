----------------------------- MODULE JobStatus -----------------------------
(***************************************************************************)
(* The states of a generation job and the transitions the API's table      *)
(* allows (internal/generation/status.go).  NONE stands for a job that no  *)
(* Create has inserted yet.                                                *)
(***************************************************************************)

Statuses == {"QUEUED", "RUNNING", "SUCCEEDED", "FAILED", "CANCELED"}

Stages == {"QUEUED", "OPTIMIZING_PROMPT", "SUBMITTING_PROVIDER", "GENERATING",
           "FETCHING_OUTPUT", "STORING_OUTPUT", "COMPLETED"}

\* A job that still counts against its owner's limit.
ActiveStatuses == {"QUEUED", "RUNNING"}

Transitions ==
  ({"QUEUED"}  \X {"RUNNING", "FAILED", "CANCELED"})   \cup
  ({"RUNNING"} \X {"SUCCEEDED", "FAILED", "CANCELED"}) \cup
  ({"FAILED"}  \X {"QUEUED"})

\* FAILED -> QUEUED additionally needs the caller to be a retry.
ValidTransition(from, to, retry) ==
  /\ <<from, to>> \in Transitions
  /\ (from = "FAILED" /\ to = "QUEUED") => retry
=============================================================================
