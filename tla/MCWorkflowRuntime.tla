------------------------- MODULE MCWorkflowRuntime --------------------------
(* Instances of WorkflowRuntime for TLC.                                   *)
EXTENDS WorkflowRuntime

MCOneTenant == [j \in 1..NumJobs |-> "t1"]
\* One tick for every retry, where the length of the wait is not in question.
MCShortBackoff == [a \in 1..MaxAttempts |-> 1]
=============================================================================
