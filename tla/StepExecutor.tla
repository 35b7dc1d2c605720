----------------------------- MODULE StepExecutor -----------------------------
(***************************************************************************)
(* A workflow run end to end: the WorkflowDO, the step-tasks queue with    *)
(* at-least-once delivery, and the executors that consume it               *)
(* (ai-orchestrator/src/lib/step-executor.ts, the queue() handler of       *)
(* ai-orchestrator/src/index.ts).  The faults of the platform are actions  *)
(* with a budget each, so that a configuration says which faults it has.   *)
(***************************************************************************)
EXTENDS WorkflowDO

CONSTANTS
  MaxFailures,      \* step handlers that may report an error
  MaxRedeliveries,  \* deliveries the queue may repeat
  MaxLosses,        \* messages the queue may drop
  MaxEvictions,     \* evictions of the object
  MayCancel         \* whether somebody may cancel the run

ASSUME BudgetAssumption ==
  /\ MaxFailures \in Nat /\ MaxRedeliveries \in Nat
  /\ MaxLosses \in Nat /\ MaxEvictions \in Nat
  /\ MayCancel \in BOOLEAN

VARIABLE spent   \* how much of each budget is used

vars == <<run, stored, delayKey, alarm, thread, queue, dlq, row, spent>>

Budget == [failures |-> MaxFailures, redeliveries |-> MaxRedeliveries,
           losses |-> MaxLosses, evictions |-> MaxEvictions]
Spend(what) == spent[what] < Budget[what] /\ spent' = [spent EXCEPT ![what] = @ + 1]

-----------------------------------------------------------------------------
(* The step-tasks queue *)

Take(s) == queue' = [queue EXCEPT ![s] = @ - 1]

\* The message is taken, or the queue will deliver it once more.
Receive(s) ==
  /\ queue[s] > 0
  /\ \/ Take(s) /\ UNCHANGED spent
     \/ Spend("redeliveries") /\ UNCHANGED queue

\* The message is given up after max_retries deliveries.
Lose(s) ==
  /\ queue[s] > 0
  /\ Take(s)
  /\ Spend("losses")
  /\ UNCHANGED <<run, stored, delayKey, alarm, thread, dlq, row>>

-----------------------------------------------------------------------------
(* executeStepTask *)

\* GET /status, then: unknown step, acknowledged; a completion of attempt 1 in
\* the history, to be reported again; a step that is not running, acknowledged;
\* or the step's handler is run.
Deliver(w, s) ==
  /\ thread[w].pc = "idle" /\ run.status # "none"
  /\ Receive(s)
  /\ LET next == IF run.step[s] # "absent" /\ <<s, 1>> \in run.hist THEN "replay"
                 ELSE IF run.step[s] = "running" THEN "handler" ELSE "idle"
     IN IF next = "idle" THEN UNCHANGED thread ELSE Suspend(w, next, s, {})
  /\ UNCHANGED <<run, stored, delayKey, alarm, dlq, row>>

\* The cached result is posted again, outside the executor's try block.
Replay(w) ==
  /\ thread[w].pc = "replay"
  /\ CompleteCall(w, thread[w].step, "cached")
  /\ UNCHANGED spent

HandlerSucceeds(w) ==
  /\ thread[w].pc = "handler"
  /\ CompleteCall(w, thread[w].step, "complete")
  /\ UNCHANGED spent

HandlerFails(w) ==
  /\ thread[w].pc = "handler"
  /\ Spend("failures")
  /\ FailCall(w, thread[w].step)

\* /complete was rejected: the catch block reports a failure of the step.
\* Any other rejected request makes the queue retry the message.
Rejected(w) ==
  /\ thread[w].pc = "threw"
  /\ \/ /\ thread[w].call = "complete"
        /\ FailCall(w, thread[w].step)
     \/ /\ thread[w].call # "complete"
        /\ Publish(thread[w].step)
        /\ Return(w)
        /\ UNCHANGED <<run, stored, delayKey, alarm, dlq, row>>
  /\ UNCHANGED spent

Execute(w) == HandlerSucceeds(w) \/ HandlerFails(w) \/ Replay(w) \/ Rejected(w)

-----------------------------------------------------------------------------
(* The whole system *)

Eviction     == Evict /\ run.status # "none" /\ Spend("evictions")
Cancellation == MayCancel /\ Cancel /\ UNCHANGED spent
Handlers     == \/ Start \/ RecordRun \/ AlarmFires \/ ResumeAlarm
                \/ \E t \in Threads : Resume(t)
Object       == Handlers /\ UNCHANGED spent
Clock        == Tick /\ UNCHANGED spent

\* Nothing is left to do: every handler and executor is idle, no message and
\* no alarm is pending.
Quiet == /\ \A t \in Threads : thread[t].pc = "idle"
         /\ \A s \in AllSteps : queue[s] = 0
         /\ alarm = NoTime
Stopped == run.status # "none" /\ Quiet /\ UNCHANGED vars

SystemInit == Init /\ spent = [failures |-> 0, redeliveries |-> 0, losses |-> 0, evictions |-> 0]

Next ==
  \/ Object
  \/ Clock
  \/ Eviction
  \/ Cancellation
  \/ \E w \in Executors : Execute(w) \/ \E s \in AllSteps : Deliver(w, s)
  \/ \E s \in AllSteps : Lose(s)
  \/ Stopped

Spec == SystemInit /\ [][Next]_vars

\* Handlers that wait for an answer resume, executors run what they took, the
\* queue delivers, the alarm fires and time passes.  Nobody has to cancel, fail,
\* lose or evict anything.
Fairness ==
  /\ WF_vars(Object)
  /\ WF_vars(Clock)
  /\ \A w \in Executors :
       /\ WF_vars(HandlerSucceeds(w) \/ Replay(w) \/ Rejected(w))
       /\ \A s \in AllSteps : WF_vars(Deliver(w, s))

FairSpec == Spec /\ Fairness

-----------------------------------------------------------------------------
(* Properties.  Which run checks which, and under which faults, is in README. *)

Undone(r) == \E c \in Comps : r.step[c] # "absent"

\* The status of a run behaves as RunLifecycle says: VALID_TRANSITIONS hold for
\* the object's memory and for its storage together, whatever handlers
\* interleave and whenever the object is evicted (transition(), every put).
Lifecycle == INSTANCE RunLifecycle WITH
               live <- run.status, durable <- stored.status, undone <- Undone(run)
ImplementsLifecycle == Lifecycle!LifecycleSpec

\* A run that completed never has a compensation step, neither in memory nor
\* in storage: no handler that overlaps the last completion can undo a run that
\* is reported as done (runCompensations, handleStepComplete).
NeverUndoCompleted ==
  \A r \in {run, stored} : Undone(r) => r.status \in {"compensating", "failed"}

\* The D1 row claims an outcome only when the object's storage has that same
\* outcome, even if the object is evicted between the two writes
\* (handleStepComplete: put before updateRunProgress).
RowIsBacked == row \in Terminal => stored.status = row

\* Without parallel steps a step is only touched when every step before it is
\* settled, also while a completion is halfway through its awaits.
InOrder ==
  \A s, q \in Steps :
    q < s /\ run.step[s] # "pending" => run.step[q] \in {"completed", "skipped"}

\* While a run is undone, none of its forward steps is marked running: the
\* timeout that started the undoing withdrew the step that was.
NoForwardWhileUndoing ==
  run.status = "compensating" => In(run, Steps, "running") = {}

\* A run in progress is never left alone: when no handler is inside the object,
\* an alarm is armed or a running step is still with the queue or an executor, so
\* that no loss of a message strands the run (scheduleNextDeadlineAlarm after
\* every dispatch, and the alarm's own dead ends).
NeverStranded ==
  /\ run.status \in {"running", "compensating"}
  /\ \A t \in Threads : thread[t].pc \notin Inside
  => \/ alarm # NoTime
     \/ \E s \in In(run, AllSteps, "running") :
          queue[s] > 0 \/ \E w \in Executors : thread[w].step = s

\* A grace period that is running has its wake-up: the delay key is in storage
\* and the alarm is armed no later than it (advanceToNextStep, alarm()).
GraceHasAlarm ==
  \A s \in Steps :
    run.step[s] = "waiting" /\ run.status = "running" /\ thread[Alarm].pc = "idle" =>
      delayKey[s] # NoTime /\ alarm # NoTime /\ alarm <= delayKey[s]

\* A run that has ended starts no forward step: no handler that was suspended when
\* the run ended dispatches one on resuming (advanceToNextStep, alarm()).  Of
\* compensation steps this is false, see WorkflowClaims.
EndedStartsNothing ==
  [][run.status \in Terminal =>
       \A s \in Steps : run'.step[s] = "running" => run.step[s] = "running"]_vars

\* A completed run has only completed and skipped forward steps: none is
\* pending, waiting, running, timed out or dead-lettered (handleStepComplete,
\* "Check if all regular steps are done").
CompletedMeansDone ==
  run.status = "completed" =>
    \A s \in Steps : run.step[s] \in {"completed", "skipped"}

\* Every run ends.
RunEnds == (run.status = "running") ~> (run.status \in Terminal)
=============================================================================
