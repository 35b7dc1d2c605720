----------------------------- MODULE RunLifecycle -----------------------------
(***************************************************************************)
(* What a run promises to everybody who only sees its status: the abstract *)
(* specification that both engines implement, StepExecutor (WorkflowDO)    *)
(* and AtlasWorkflow, its successor.                                       *)
(*                                                                         *)
(* live is the status the object answers with, durable the status it has   *)
(* saved, and undone says whether a compensation step was ever started as  *)
(* far as the object remembers.  A status moves along VALID_TRANSITIONS    *)
(* (workflow-do.ts), an end is saved in the very step that reaches it, and *)
(* an eviction falls back on what was saved.                               *)
(***************************************************************************)

VARIABLES live, durable, undone

lifecycleVars == <<live, durable, undone>>

Ended == {"completed", "failed"}

Transitions == {<<"running", "completed">>, <<"running", "failed">>,
                <<"running", "compensating">>, <<"compensating", "failed">>}

LifecycleInit == live = "none" /\ durable = "none" /\ undone = FALSE

\* handleStart: the run exists, and may be over at once (all steps skipped).
Begin == /\ live = "none"
         /\ live' \in {"running", "completed"}
         /\ durable' = live'
         /\ undone' = FALSE

\* A transition; undoing starts with the transition to compensating.
Move == /\ <<live, live'>> \in Transitions
        /\ durable' \in (IF live' \in Ended THEN {live'} ELSE {durable, live, live'})
        /\ undone' = (undone \/ live' = "compensating")

\* The run as it is in memory is saved.
Checkpoint == live # "none" /\ durable' = live /\ UNCHANGED <<live, undone>>

\* Memory is lost.  Only the start of the undoing can be forgotten.
Forget == /\ durable # "none"
          /\ live' = durable /\ UNCHANGED durable
          /\ undone' = (durable \in {"compensating", "failed"} /\ undone)

LifecycleNext == Begin \/ Move \/ Checkpoint \/ Forget

LifecycleSpec == LifecycleInit /\ [][LifecycleNext]_lifecycleVars

=============================================================================
