---------------------------- MODULE WorkflowClaims ----------------------------
(***************************************************************************)
(* What comments and documents of the repository say of a workflow run and *)
(* the code does not do.  Each claim is checked by a run of its own that   *)
(* finds a counterexample; the claim's source is quoted above it.          *)
(***************************************************************************)
EXTENDS MCWorkflow

\* step-executor.ts:149: "WorkflowDO manages retry backoff via alarms - we ack
\* the queue message".  A step that waits for its retry is sent to the executors
\* again, unless it stops being running otherwise.
RetryIsDispatched ==
  \A s \in AllSteps :
    run.step[s] = "running" /\ run.att[s] > 1
      ~> queue[s] > 0 \/ run.step[s] # "running"

=============================================================================
