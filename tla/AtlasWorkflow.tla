----------------------------- MODULE AtlasWorkflow -----------------------------
(***************************************************************************)
(* A JML run on Cloudflare Workflows: AtlasWorkflow.run()                  *)
(* (ai-orchestrator/src/workflow/atlas-workflow.ts), the rows and adapters *)
(* its steps write to, and the route that terminates it.                   *)
(*                                                                         *)
(* The platform keeps the outcome of every step.do and, after a crash,     *)
(* runs the code again from its start with the outcomes it has; the code   *)
(* then stands where it stood.  So its position is durable, and a crash    *)
(* loses the attempt under way and nothing else.  An attempt's call may    *)
(* reach its adapter after the attempt was given up.                       *)
(***************************************************************************)
EXTENDS JmlSteps

CONSTANTS
  Jobs,       \* the classifications a run may be started for
  Attempts,   \* the platform's attempts at a step of definition.steps,
  UndoAttempts, \* at a compensation, and
  RecordAttempts, \* at the three steps that write the run's row
  MaxFaults   \* bound: failed, lost and timed-out attempts and crashes

ASSUME JobAssumption ==
  /\ Jobs \subseteq JobType
  /\ Attempts \in Nat \ {0} /\ UndoAttempts \in Nat \ {0} /\ RecordAttempts \in Nat \ {0}
  /\ MaxFaults \in Nat

VARIABLES
  job,      \* what the run was started for
  status,   \* the instance's status
  phase,    \* the part of run() the code is in
  pos,      \* the step of that part, from 1
  at,       \* where the step stands
  try,      \* the attempt at it, from 1
  done,     \* stepsCompleted
  settled,  \* the compensations that have an outcome
  late,     \* calls of attempts that were given up, on their way to an adapter
  access,   \* the apps the user has an account in
  row,      \* status of the run's row in workflow_runs
  faults    \* how many there were

vars == <<job, status, phase, pos, at, try, done, settled, late, access, row, faults>>

Statuses == {"none", "running", "complete", "errored", "terminated"}
Phases   == {"start", "main", "complete", "undo", "fail"}
Places   == {"asleep", "ready", "calling", "answered"}

Record == Step("record", NoApp, "record")
Cur == CASE phase = "main" -> Main(job)[pos]
         [] phase = "undo" -> Undo(job)[pos]
         [] OTHER          -> Record

Limit == CASE phase = "main" -> Attempts
           [] phase = "undo" -> UndoAttempts
           [] OTHER          -> RecordAttempts

CanReach == Cur = Record \/ Reaches(Cur)

Calls == {"provision", "deprovision"} \X Apps
Applied(op, app) == access' = CASE op = "provision"   -> access \cup {app}
                                [] op = "deprovision" -> access \ {app}
                                [] OTHER              -> access

-----------------------------------------------------------------------------
(* The course of run() *)

Stand(ph, n) ==
  /\ phase' = ph /\ pos' = n /\ try' = 1
  /\ at' = IF ph = "main" /\ Delayed(job, n) THEN "asleep" ELSE "ready"

End(how) == status' = how /\ UNCHANGED <<phase, pos, at, try>>

\* The catch block, from its start or from one compensation to the next
ToUndo(n) ==
  /\ UNCHANGED status
  /\ IF n <= Len(Undo(job)) THEN Stand("undo", n) ELSE Stand("fail", 1)

Settle == settled' = IF phase = "undo" THEN settled \cup {pos} ELSE settled

\* Mutant: a compensation that failed ends the catch block's loop.
UndoStopsAtFailure ==
  /\ Settle /\ UNCHANGED done
  /\ \/ phase \in {"main", "complete"} /\ ToUndo(1)
     \/ phase = "undo" /\ UNCHANGED status /\ Stand("fail", 1)
     \/ phase \in {"start", "fail"} /\ End("errored")

\* The attempts are used up.  The first step is outside the try block, the last
\* one in the catch block.
StepFails ==
  /\ Settle /\ UNCHANGED done
  /\ \/ phase \in {"main", "complete"} /\ ToUndo(1)
     \/ phase = "undo" /\ ToUndo(pos + 1)
     \/ phase \in {"start", "fail"} /\ End("errored")

\* Mutant: the catch block does not throw the error again.
ErrorSwallowed ==
  /\ Settle /\ done' = IF phase = "main" THEN done + 1 ELSE done
  /\ \/ phase = "start" /\ UNCHANGED status /\ Stand("main", 1)
     \/ phase = "main" /\ UNCHANGED status
        /\ IF pos < Len(Main(job)) THEN Stand("main", pos + 1) ELSE Stand("complete", 1)
     \/ phase = "undo" /\ ToUndo(pos + 1)
     \/ phase \in {"complete", "fail"} /\ End("complete")

StepSucceeds ==
  /\ Settle /\ done' = IF phase = "main" THEN done + 1 ELSE done
  /\ \/ phase = "start" /\ UNCHANGED status /\ Stand("main", 1)
     \/ phase = "main" /\ UNCHANGED status
        /\ IF pos < Len(Main(job)) THEN Stand("main", pos + 1) ELSE Stand("complete", 1)
     \/ phase = "complete" /\ End("complete")
     \/ phase = "undo" /\ ToUndo(pos + 1)
     \/ phase = "fail" /\ End("errored")

\* Mutant: the platform never runs out of attempts.
RetryForEver == at' = "ready" /\ UNCHANGED <<status, phase, pos, try, done, settled>>

\* Mutant: the last attempt is never made.
AttemptFailsLastSpared ==
  \/ try + 1 < Limit /\ try' = try + 1 /\ at' = "ready" /\ UNCHANGED <<status, phase, pos, done, settled>>
  \/ try + 1 >= Limit /\ StepFails

AttemptFails ==
  \/ try < Limit /\ try' = try + 1 /\ at' = "ready" /\ UNCHANGED <<status, phase, pos, done, settled>>
  \/ try >= Limit /\ StepFails

Running == status = "running"
Fault   == faults < MaxFaults /\ faults' = faults + 1

\* The attempt's call is on its way and nobody waits for it any more.  A statement
\* for the row is not: D1 answers or fails long before a step's timeout.
Abandon ==
  LET c == <<Cur.op, Cur.app>>
  IN late' = IF at = "calling" /\ c \in Calls THEN [late EXCEPT ![c] = @ + 1] ELSE late

-----------------------------------------------------------------------------
(* Steps *)

\* executeJmlWorkflow creates the instance
Create ==
  /\ status = "none" /\ status' = "running"
  /\ UNCHANGED <<job, phase, pos, at, try, done, settled, late, access, row, faults>>

\* and then inserts the run's row.
InsertRow ==
  /\ status # "none" /\ row = "absent" /\ row' = "running"
  /\ UNCHANGED <<job, status, phase, pos, at, try, done, settled, late, access, faults>>

\* step.sleep is over.
Wake ==
  /\ Running /\ at = "asleep" /\ at' = "ready"
  /\ UNCHANGED <<job, status, phase, pos, try, done, settled, late, access, row, faults>>

\* dispatchStep: the handler throws before its call, or makes it.
Dispatch ==
  /\ Running /\ at = "ready"
  /\ \/ CanReach /\ at' = "calling" /\ UNCHANGED <<status, phase, pos, try, done, settled>>
     \/ ~CanReach /\ AttemptFails
  /\ UNCHANGED <<job, late, access, row, faults>>

\* Mutant: the row gets the instance's word for the end, which its CHECK refuses.
RowInOtherWords ==
  IF row = "absent" THEN "absent"
  ELSE CASE phase = "start"    -> "running"
         [] phase = "complete" -> "complete"
         [] phase = "fail"     -> "failed"
         [] OTHER              -> row

\* The UPDATE finds no row before InsertRow.
RowAfter ==
  IF row = "absent" THEN "absent"
  ELSE CASE phase = "start"    -> "running"
         [] phase = "complete" -> "completed"
         [] phase = "fail"     -> "failed"
         [] OTHER              -> row

\* The call has its effect, on the user's account or on the row.
Take ==
  /\ Running /\ at = "calling" /\ at' = "answered"
  /\ Applied(Cur.op, Cur.app)
  /\ row' = RowAfter
  /\ UNCHANGED <<job, status, phase, pos, try, done, settled, late, faults>>

\* Mutant: an attempt counts as done when its call was sent.
SucceedEarly ==
  /\ Running /\ at \in {"calling", "answered"} /\ StepSucceeds /\ Abandon
  /\ UNCHANGED <<job, access, row, faults>>

Succeed ==
  /\ Running /\ at = "answered" /\ StepSucceeds
  /\ UNCHANGED <<job, late, access, row, faults>>

\* The call is refused, or it was not and the answer says so or is lost.
Refuse ==
  /\ Running /\ at \in {"calling", "answered"} /\ Fault /\ AttemptFails
  /\ UNCHANGED <<job, late, access, row>>

\* The step's timeout passes.
TimeOut ==
  /\ Running /\ at = "calling" /\ Fault /\ Abandon /\ AttemptFails
  /\ UNCHANGED <<job, access, row>>

\* The isolate is lost; run() is replayed up to the step it was in.
Crash ==
  /\ Running /\ at \in {"calling", "answered"} /\ Fault /\ Abandon
  /\ at' = "ready"
  /\ UNCHANGED <<job, status, phase, pos, try, done, settled, access, row>>

\* POST /workflows/:id/cancel
Terminate ==
  /\ Running /\ status' = "terminated" /\ Abandon
  /\ UNCHANGED <<job, phase, pos, at, try, done, settled, access, row, faults>>

\* An abandoned call reaches its adapter.
Land ==
  \E c \in Calls :
    /\ late[c] > 0
    /\ late' = [late EXCEPT ![c] = @ - 1]
    /\ Applied(c[1], c[2])
    /\ UNCHANGED <<job, status, phase, pos, at, try, done, settled, row, faults>>

-----------------------------------------------------------------------------
(* The run *)

AppsIn(apps) == {apps[n] : n \in DOMAIN apps}

Init ==
  /\ job \in Jobs
  /\ status = "none" /\ phase = "start" /\ pos = 1 /\ at = "ready" /\ try = 1
  /\ done = 0 /\ settled = {} /\ late = [c \in Calls |-> 0]
  /\ access = AppsIn(job.revoke)
  /\ row = "absent" /\ faults = 0

Progress == Wake \/ Dispatch \/ Take \/ Succeed

Next == \/ Create \/ InsertRow \/ Progress
        \/ Refuse \/ TimeOut \/ Crash \/ Terminate \/ Land

Spec == Init /\ [][Next]_vars

\* The platform goes on with every instance, and adapters answer.
FairSpec == Spec /\ WF_vars(Progress)

-----------------------------------------------------------------------------
(* Properties *)

\* The types of the instance, of its calls and of what they write to.
AtlasTypeOK ==
  /\ job \in Jobs /\ status \in Statuses /\ phase \in Phases
  /\ pos \in Nat \ {0} /\ at \in Places /\ try \in Nat \ {0}
  /\ done \in Nat /\ settled \subseteq Nat /\ late \in [Calls -> Nat] /\ access \subseteq Apps
  /\ row \in {"absent", "running", "completed", "failed"} /\ faults \in Nat

Undoing == phase \in {"undo", "fail"} /\ Undo(job) # <<>>

Live == CASE status = "none"     -> "none"
          [] status = "running"  -> IF Undoing THEN "compensating" ELSE "running"
          [] status = "complete" -> "completed"
          [] OTHER               -> "failed"

\* The engine that replaces WorkflowDO keeps the promises of the one it replaces:
\* its runs move through the same statuses, in memory and storage at once (header
\* of atlas-workflow.ts).
Lifecycle == INSTANCE RunLifecycle WITH live <- Live, durable <- Live, undone <- Undoing
ImplementsLifecycle == Lifecycle!LifecycleSpec

\* What a completed run was for has happened in the adapters, whatever was lost,
\* repeated or late: a joiner has every account, a leaver has none.  And the row
\* does not say so earlier.
CompletedIsEffective ==
  status = "complete" \/ row = "completed" =>
    /\ Joins(job) => AppsIn(job.provision) \subseteq access
    /\ job.action = "leaver" => AppsIn(job.revoke) \cap access = {}

\* A run that ends in its catch block has tried every compensation: one that fails
\* keeps no other from being tried ("continue other compensations").
EveryUndoTried ==
  status = "errored" /\ phase = "fail" => settled = DOMAIN Undo(job)

\* Every run ends, since every step has its attempts.
RunEnds == status = "running" ~> status \in {"complete", "errored", "terminated"}

\* A run of the kinds whose handlers all reach their calls survives every
\* combination of failures, time-outs and crashes that is smaller than the
\* attempts of one step.
FaultsAreRetried ==
  status = "errored" /\ (Joins(job) \/ (job.action = "leaver" /\ job.credentials = 0)) =>
    faults >= Attempts \/ faults >= RecordAttempts

\* docs/JML_ENGINE.md:29: "Compensation: previously successful steps with
\* compensators run reverse ops".  A failed run leaves no account behind that one
\* of its successful steps had provisioned.
RollbackReverses ==
  status = "errored" =>
    \A n \in 1 .. done :
      Main(job)[n].op = "provision" => Main(job)[n].app \notin access

=============================================================================
