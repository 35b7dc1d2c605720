------------------------------ MODULE WorkflowDO ------------------------------
(***************************************************************************)
(* The WorkflowDO Durable Object: one run of a joiner, mover or leaver     *)
(* workflow (ai-orchestrator/src/workflow/workflow-do.ts).                 *)
(*                                                                         *)
(* The object is single threaded, but its handlers are coroutines: while   *)
(* one awaits D1, R2 or the queue, the object accepts the next request or  *)
(* alarm, and all of them share the in-memory run.  An action is the code  *)
(* a handler executes between two such awaits.  Awaits on the object's own *)
(* storage close its input gate, so no action boundary falls there.        *)
(*                                                                         *)
(* Time is kept as countdowns in ticks; NoTime is "not set", 0 is "due".   *)
(***************************************************************************)
EXTENDS Integers, FiniteSets

CONSTANTS
  NSteps,         \* definition.steps, in order, are 1 .. NSteps
  NComps,         \* definition.onFailure entries are numbered after them
  Parallel,       \* the steps with parallel = true
  Conditional,    \* the steps with a condition on the run's context
  Delay,          \* delayMs of each step, in ticks, 0 when it has none
  Timeout,        \* timeoutMs of each step and compensation, 0 for none
  MaxRetries,     \* retryConfig.maxRetries of each step and compensation
  Backoff,        \* the wait before a retry, in ticks
  GlobalTimeout,  \* definition.globalTimeoutMs, in ticks
  ForeignKeys,    \* whether the database enforces foreign keys (D1 does)
  Executors       \* invocations of the step-tasks queue consumer

Steps    == 1 .. NSteps
Comps    == (NSteps + 1) .. (NSteps + NComps)
AllSteps == 1 .. (NSteps + NComps)

ASSUME SizeAssumption == NSteps \in Nat \ {0} /\ NComps \in Nat

ASSUME DefinitionAssumption ==
  /\ Parallel \subseteq Steps
  /\ Conditional \subseteq Steps
  /\ Delay \in [Steps -> Nat]
  /\ Timeout \in [AllSteps -> Nat]
  /\ MaxRetries \in [AllSteps -> Nat]
  /\ Backoff \in Nat \ {0}
  /\ GlobalTimeout \in Nat \ {0}
  /\ ForeignKeys \in BOOLEAN

ASSUME ExecutorAssumption == "starter" \notin Executors /\ "alarm" \notin Executors

NoTime  == -1
NoStep  == 0
Starter == "starter"   \* the caller of /start, which then records the run in D1
Alarm   == "alarm"     \* the platform's invocation of alarm()
Threads == Executors \cup {Starter, Alarm}

RunStatus  == {"none", "running", "compensating", "completed", "failed"}
Terminal   == {"completed", "failed"}
StepStatus == {"absent", "pending", "waiting", "running", "completed",
               "skipped", "failed", "dlq"}

\* Where a handler stands.  "handler", "replay", "threw" and "insert" are
\* outside the object: the executor runs the step's handler, is about to report
\* a cached result, has had its request rejected; the starter has its answer.
\* Every other pc but "idle" is an await inside the object.
Outside == {"idle", "handler", "replay", "threw", "insert"}
Inside  == {"progress", "evidence", "final", "failEvidence", "failDlq",
            "advance", "compensate", "alarmPublish", "alarmDlq"}
Calls   == {"none", "complete", "cached", "fail"}

VARIABLES
  run,       \* this.state, the run in memory
  stored,    \* the run under storage key "state"
  delayKey,  \* storage keys "delay:<stepId>", as countdowns
  alarm,     \* the object's single alarm, as a countdown
  thread,    \* the coroutine of every executor, of the starter and of alarm()
  queue,     \* step-task messages of each step in the queue (all say attempt 1)
  dlq,       \* rows of each step in D1's dead_letter_queue
  row        \* status of the run's row in D1's workflow_runs

doVars == <<run, stored, delayKey, alarm, thread, queue, dlq, row>>

-----------------------------------------------------------------------------
(* The run and its transitions *)

NewRun == [status |-> "running",
           step   |-> [s \in AllSteps |-> IF s \in Steps THEN "pending" ELSE "absent"],
           att    |-> [s \in AllSteps |-> 0],
           due    |-> [s \in AllSteps |-> NoTime],
           hist   |-> {}]

NoRun == [NewRun EXCEPT !.status = "none"]

\* Mutant: transition() no longer consults the table.
CanGoUnchecked(r, new) == r.status # "none"

\* VALID_TRANSITIONS; "queued" lives only inside handleStart's first segment.
CanGo(r, new) ==
  \/ r.status = "running" /\ new \in {"completed", "failed", "compensating"}
  \/ r.status = "compensating" /\ new = "failed"

In(r, S, status) == {s \in S : r.step[s] = status}

\* Mutant: the last step is overlooked.
PendingButLast(r) == In(r, Steps \ {NSteps}, "pending")

Pending(r) == In(r, Steps, "pending")

\* Mutant: only completed compensations count as done.
CompsDoneIfCompleted(r) == In(r, Comps, "completed") = Comps

\* "every compensation step is neither running nor pending", over the
\* compensation steps the run has so far
CompsDone(r) == In(r, Comps, "running") = {}

\* A step is marked running for its first attempt, with its deadline.
Begun(r, s) ==
  [r EXCEPT !.step[s] = "running",
            !.att[s]  = 1,
            !.due[s]  = IF Timeout[s] > 0 THEN Timeout[s] ELSE @]

Publish(s) == queue' = [queue EXCEPT ![s] = @ + 1]

IdleThread == [pc |-> "idle", step |-> NoStep, todo |-> {}, call |-> "none"]

\* The handler suspends at an await, ends, or ends with an exception that
\* rejects the caller's fetch (fetch() returns the handlers' promises un-awaited,
\* so its own try block does not catch what they throw).
Suspend(t, pc, s, todo) ==
  thread' = [thread EXCEPT ![t] = [@ EXCEPT !.pc = pc, !.step = s, !.todo = todo]]
Return(t) ==
  thread' = [thread EXCEPT ![t] =
               IF t = Starter THEN [IdleThread EXCEPT !.pc = "insert"] ELSE IdleThread]
Throw(t)  == thread' = [thread EXCEPT ![t] = [@ EXCEPT !.pc = "threw", !.todo = {}]]

\* A handler that publishes step s goes on belonging to the step its executor
\* reports on, if it has one: that is the step of a later failure report.
Own(t, s) == IF t \in Executors THEN thread[t].step ELSE s

Save(r) == run' = r /\ stored' = r

First(s, S) == s \in S /\ \A q \in S : s <= q

\* Mutant: deadlines of steps that are not running count too.
DeadlinesOfAll(r) == {r.due[s] : s \in {q \in AllSteps : r.due[q] # NoTime}}

\* Mutant: the alarm is not moved.
ArmNothing(r, al) == alarm' = al

\* scheduleNextDeadlineAlarm: the single alarm moves to the earliest deadline.
Deadlines(r)   == {r.due[s] : s \in {q \in In(r, AllSteps, "running") : r.due[q] # NoTime}}
ArmDeadline(r, al) ==
  IF Deadlines(r) = {} THEN alarm' = al
  ELSE alarm' \in {d \in Deadlines(r) : \A e \in Deadlines(r) : d <= e}

-----------------------------------------------------------------------------
(* advanceToNextStep: r is the run in memory, st the run saved so far and al
   the alarm when it is called *)

\* One turn of the dispatch loop.  A delayed step ends the whole function.
Dispatch(t, r, st, al, batch) ==
  \E s \in batch :
    /\ First(s, batch)
    /\ \/ /\ Delay[s] > 0
          /\ Save([r EXCEPT !.step[s] = "waiting", !.due[s] = Delay[s] + Timeout[s]])
          /\ delayKey' = [delayKey EXCEPT ![s] = Delay[s]]
          /\ alarm' = Delay[s]
          /\ Return(t)
          /\ UNCHANGED <<queue, dlq, row>>
       \/ /\ Delay[s] = 0
          /\ run' = Begun(r, s) /\ stored' = st /\ alarm' = al
          /\ Publish(s)
          /\ Suspend(t, "advance", Own(t, s), batch \ {s})
          /\ UNCHANGED <<delayKey, dlq, row>>

\* Mutant: the loop does not stop at a step that is not parallel.
CollectedAlways(S, s) == TRUE

\* The loop that collects the batch stops after the first step that is not
\* parallel, which joins the batch; a step whose condition fails is skipped.
Collected(S, s) == \A q \in S : q < s => q \in Parallel

\* Nothing is pending or running after the skips.
Over(r) == In(r, AllSteps, "pending") \cup In(r, AllSteps, "running") = {}

Advance(t, r, st, al) ==
  \E falsy \in SUBSET Conditional :
    LET live  == Pending(r) \ falsy
        batch == {s \in live : Collected(live, s)}
        skip  == {s \in Pending(r) \cap falsy : Collected(live, s)}
        next  == [r EXCEPT !.step = [s \in AllSteps |-> IF s \in skip THEN "skipped" ELSE @[s]]]
    IN \/ batch # {} /\ Dispatch(t, next, st, al, batch)
       \/ /\ batch = {} /\ Over(next) /\ CanGo(next, "completed")
          /\ Save([next EXCEPT !.status = "completed"])
          /\ alarm' = NoTime
          /\ Return(t)
          /\ UNCHANGED <<delayKey, queue, dlq, row>>
       \/ /\ batch = {} /\ ~(Over(next) /\ CanGo(next, "completed"))
          /\ run' = next /\ stored' = st /\ alarm' = al
          /\ IF Over(next) THEN Throw(t) ELSE Return(t)
          /\ UNCHANGED <<delayKey, queue, dlq, row>>

\* A publish was acknowledged: the next step of the batch, or the end.
ContinueAdvance(t) ==
  /\ thread[t].pc = "advance"
  /\ \/ thread[t].todo # {} /\ Dispatch(t, run, stored, alarm, thread[t].todo)
     \/ /\ thread[t].todo = {}
        /\ Save(run)
        /\ ArmDeadline(run, alarm)
        /\ Return(t)
        /\ UNCHANGED <<delayKey, queue, dlq, row>>

-----------------------------------------------------------------------------
(* runCompensations: all onFailure steps are pushed and published in turn *)

PushComp(t, r, st, todo) ==
  \E c \in todo :
    /\ First(c, todo)
    /\ run' = Begun(r, c) /\ stored' = st
    /\ Publish(c)
    /\ Suspend(t, "compensate", Own(t, c), todo \ {c})

\* The caller has saved r; the transition throws unless the run is running.
Compensate(t, r) ==
  \/ /\ CanGo(r, "compensating")
     /\ PushComp(t, [r EXCEPT !.status = "compensating"], r, Comps)
  \/ /\ ~CanGo(r, "compensating")
     /\ Save(r)
     /\ Throw(t)
     /\ UNCHANGED queue

ContinueCompensate(t) ==
  /\ thread[t].pc = "compensate"
  /\ \/ /\ thread[t].todo # {}
        /\ PushComp(t, run, stored, thread[t].todo)
        /\ UNCHANGED alarm
     \/ /\ thread[t].todo = {}
        /\ ArmDeadline(run, alarm)
        /\ Save(run)
        /\ Return(t)
        /\ UNCHANGED queue
  /\ UNCHANGED <<delayKey, dlq, row>>

-----------------------------------------------------------------------------
(* POST /start *)

Start ==
  /\ run.status = "none" /\ thread[Starter].pc = "idle"
  /\ Advance(Starter, NewRun, NewRun, GlobalTimeout)

\* executeJmlWorkflow inserts the run's row once /start has answered.
RecordRun ==
  /\ thread[Starter].pc = "insert"
  /\ row' = "running"
  /\ thread' = [thread EXCEPT ![Starter] = IdleThread]
  /\ UNCHANGED <<run, stored, delayKey, alarm, queue, dlq>>

-----------------------------------------------------------------------------
(* POST /step/:id/complete, called by executor t *)

\* Unless the step is running, the answer is "already completed", 404 or 409,
\* and the executor acknowledges the message in each case.
CompleteCall(t, s, call) ==
  /\ IF run.step[s] = "running"
     THEN /\ run' = [run EXCEPT !.step[s] = "completed"]
          /\ thread' = [thread EXCEPT ![t] =
               [pc |-> "progress", step |-> s, todo |-> {}, call |-> call]]
     ELSE UNCHANGED run /\ Return(t)
  /\ UNCHANGED <<stored, delayKey, alarm, queue, dlq, row>>

\* steps_done is in D1: the completion enters the history and the run is saved.
RecordCompletion(t) ==
  /\ thread[t].pc = "progress"
  /\ LET s == thread[t].step IN
       /\ Save([run EXCEPT !.hist = @ \cup {<<s, run.att[s]>>}])
       /\ Suspend(t, "evidence", s, {})
  /\ UNCHANGED <<delayKey, alarm, queue, dlq, row>>

\* Mutant: the end of the run is not saved before the row is written.
EndWithUnsaved(t, status) ==
  /\ CanGo(run, status)
  /\ run' = [run EXCEPT !.status = status]
  /\ alarm' = NoTime
  /\ Suspend(t, "final", thread[t].step, {})
  /\ UNCHANGED <<stored, delayKey, queue, dlq, row>>

\* The run ends with this completion, if its status still allows it.
EndWith(t, status) ==
  /\ \/ /\ CanGo(run, status)
        /\ Save([run EXCEPT !.status = status])
        /\ alarm' = NoTime
        /\ Suspend(t, "final", thread[t].step, {})
     \/ /\ ~CanGo(run, status)
        /\ Throw(t)
        /\ UNCHANGED <<run, stored, alarm>>
  /\ UNCHANGED <<delayKey, queue, dlq, row>>

\* The evidence is emitted: what is next for the run?
FinishCompletion(t) ==
  /\ thread[t].pc = "evidence"
  /\ LET isComp  == thread[t].step \in Comps
         wait    == IF isComp THEN ~CompsDone(run) ELSE In(run, Steps, "running") # {}
     IN \/ wait /\ Return(t) /\ UNCHANGED <<run, stored, delayKey, alarm, queue, dlq, row>>
        \/ ~wait /\ isComp /\ EndWith(t, "failed")
        \/ ~wait /\ ~isComp /\ Pending(run) = {} /\ EndWith(t, "completed")
        \/ ~wait /\ ~isComp /\ Pending(run) # {} /\ Advance(t, run, stored, alarm)

\* updateRunProgress(status): an UPDATE, which finds no row before RecordRun.
WriteFinal(t) ==
  /\ thread[t].pc = "final"
  /\ row' = IF row = "absent" THEN "absent"
            ELSE IF thread[t].step \in Comps THEN "failed" ELSE "completed"
  /\ Return(t)
  /\ UNCHANGED <<run, stored, delayKey, alarm, queue, dlq>>

-----------------------------------------------------------------------------
(* POST /step/:id/fail, called by executor t *)

\* No guard on the step's status.  While retries are left the step goes back to
\* running and the alarm is set to the backoff; nothing is published.
FailCall(t, s) ==
  LET failed == [run EXCEPT !.att[s] = @ + 1]
  IN /\ \/ /\ run.step[s] = "absent"
           /\ Return(t)
           /\ UNCHANGED <<run, stored, alarm>>
        \/ /\ run.step[s] # "absent" /\ failed.att[s] <= MaxRetries[s]
           /\ Save([failed EXCEPT !.step[s] = "running"])
           /\ alarm' = Backoff
           /\ Return(t)
        \/ /\ run.step[s] # "absent" /\ failed.att[s] > MaxRetries[s]
           /\ run' = [failed EXCEPT !.step[s] = "dlq"]
           /\ thread' = [thread EXCEPT ![t] =
                [pc |-> "failEvidence", step |-> s, todo |-> {}, call |-> "fail"]]
           /\ UNCHANGED <<stored, alarm>>
     /\ UNCHANGED <<delayKey, queue, dlq, row>>

EmitFailure(t) ==
  /\ thread[t].pc = "failEvidence"
  /\ Suspend(t, "failDlq", thread[t].step, {})
  /\ UNCHANGED <<run, stored, delayKey, alarm, queue, dlq, row>>

\* sendToDeadLetter: the INSERT names the run as its event_id and a handler as
\* its agent_id.  Both columns are foreign keys, and no event has the id of a run,
\* so a database that enforces them refuses the row; the error is only logged.
DeadLetter(s) == dlq' = IF ForeignKeys THEN dlq ELSE [dlq EXCEPT ![s] = @ + 1]

\* The dead letter is written or refused: compensate, fail the run, or wait for the other
\* compensation steps.
FinishFailure(t) ==
  /\ thread[t].pc = "failDlq"
  /\ LET s   == thread[t].step
         end == IF s \in Comps THEN CompsDone(run) ELSE NComps = 0
     IN /\ DeadLetter(s)
        /\ \/ /\ end /\ CanGo(run, "failed")
              /\ Save([run EXCEPT !.status = "failed"])
              /\ alarm' = NoTime
              /\ Return(t)
              /\ UNCHANGED queue
           \/ /\ end /\ ~CanGo(run, "failed")
              /\ Throw(t)
              /\ UNCHANGED <<run, stored, alarm, queue>>
           \/ /\ ~end /\ s \in Comps
              /\ Save(run)
              /\ Return(t)
              /\ UNCHANGED <<alarm, queue>>
           \/ /\ ~end /\ s \in Steps
              /\ alarm' = NoTime
              /\ Compensate(t, run)
  /\ UNCHANGED <<delayKey, row>>

-----------------------------------------------------------------------------
(* POST /cancel *)

Cancel ==
  /\ run.status \in {"running", "compensating"}
  /\ Save([run EXCEPT !.status = "failed"])
  /\ alarm' = NoTime
  /\ UNCHANGED <<delayKey, thread, queue, dlq, row>>

-----------------------------------------------------------------------------
(* alarm(): al is the object's alarm so far, which firing has cleared *)

\* hit: some step timed out.  A running run then compensates or fails and the
\* handler returns; a compensating run ends or re-arms the alarm.
AlarmEnd(r, hit, al) ==
  \/ /\ r.status = "running" /\ hit /\ NComps > 0
     /\ Compensate(Alarm, r)
     /\ alarm' = al
  \/ /\ \/ r.status = "running" /\ hit /\ NComps = 0
        \/ r.status = "compensating" /\ CompsDone(r)
     /\ Save([r EXCEPT !.status = "failed"])
     /\ alarm' = al
     /\ Return(Alarm)
     /\ UNCHANGED queue
  \/ /\ r.status = "compensating" /\ ~CompsDone(r)
     /\ Save(r)
     /\ ArmDeadline(r, al)
     /\ Return(Alarm)
     /\ UNCHANGED queue
  \/ /\ r.status \in Terminal \/ (r.status = "running" /\ ~hit)
     /\ Save(r)
     /\ alarm' = al
     /\ Return(Alarm)
     /\ UNCHANGED queue

\* Timed-out compensation steps are failed and dead-lettered one after another.
TimeOut(r, st, al, late) ==
  \E c \in late :
    /\ First(c, late)
    /\ run' = [r EXCEPT !.step[c] = "failed"] /\ stored' = st /\ alarm' = al
    /\ Suspend(Alarm, "alarmDlq", c, late \ {c})
    /\ UNCHANGED queue

\* Check all running steps against their deadlines.
Overdue(r) == {s \in In(r, AllSteps, "running") : r.due[s] = 0}

\* Mutant: a late forward step stays running.
FailLateForgets(r, late) == r

\* Mutant: a late forward step gets a status outside the StepStatus union.
FailLateRenamed(r, late) ==
  [r EXCEPT !.step = [s \in AllSteps |-> IF s \in late \cap Steps THEN "timed_out" ELSE @[s]]]

FailLate(r, late) ==
  [r EXCEPT !.step = [s \in AllSteps |-> IF s \in late \cap Steps THEN "failed" ELSE @[s]]]

CheckDeadlines(r, st, al) ==
  LET late == Overdue(r)
      next == FailLate(r, late)
  IN \/ /\ r.status \notin {"running", "compensating"}
        /\ run' = r /\ stored' = st /\ alarm' = al
        /\ Return(Alarm)
        /\ UNCHANGED queue
     \/ /\ r.status \in {"running", "compensating"}
        /\ \/ late \cap Comps = {} /\ AlarmEnd(next, late # {}, al)
           \/ late \cap Comps # {} /\ TimeOut(next, st, al, late \cap Comps)

\* Delayed steps whose target has passed are dispatched first, whatever the
\* status of the run.
DispatchDelayed(r, st, al, todo) ==
  LET ready == {s \in todo : delayKey'[s] = 0}
  IN \/ \E s \in ready :
          /\ First(s, ready)
          /\ run' = [r EXCEPT !.step[s] = "running", !.att[s] = 1]
          /\ stored' = st /\ alarm' = al
          /\ Publish(s)
          /\ Suspend(Alarm, "alarmPublish", s, {q \in todo : s < q})
     \/ ready = {} /\ CheckDeadlines(r, st, al)

AlarmFires ==
  /\ run.status # "none" /\ alarm = 0 /\ thread[Alarm].pc = "idle"
  /\ UNCHANGED <<delayKey, dlq, row>>
  /\ DispatchDelayed(run, stored, NoTime, In(run, Steps, "waiting"))

AlarmPublished ==
  /\ thread[Alarm].pc = "alarmPublish"
  /\ delayKey' = [delayKey EXCEPT ![thread[Alarm].step] = NoTime]
  /\ DispatchDelayed(run, run, alarm, thread[Alarm].todo)
  /\ UNCHANGED <<dlq, row>>

AlarmDeadLettered ==
  /\ thread[Alarm].pc = "alarmDlq"
  /\ DeadLetter(thread[Alarm].step)
  /\ \/ thread[Alarm].todo # {} /\ TimeOut(run, stored, alarm, thread[Alarm].todo)
     \/ thread[Alarm].todo = {} /\ AlarmEnd(run, TRUE, alarm)
  /\ UNCHANGED <<delayKey, row>>

-----------------------------------------------------------------------------
(* The object *)

Init ==
  /\ run = NoRun /\ stored = NoRun
  /\ delayKey = [s \in Steps |-> NoTime]
  /\ alarm = NoTime
  /\ thread = [t \in Threads |-> IdleThread]
  /\ queue = [s \in AllSteps |-> 0]
  /\ dlq = [s \in AllSteps |-> 0]
  /\ row = "absent"

\* A handler resumes after one of its awaits.
Resume(t) ==
  \/ ContinueAdvance(t)
  \/ ContinueCompensate(t)
  \/ RecordCompletion(t)
  \/ FinishCompletion(t)
  \/ WriteFinal(t)
  \/ EmitFailure(t)
  \/ FinishFailure(t)

ResumeAlarm == AlarmPublished \/ AlarmDeadLettered

\* The clock: every countdown that has not reached zero goes down by one.  alarm()
\* reads the time once, before it publishes: its publications take less than a tick.
Down(c) == IF c > 0 THEN c - 1 ELSE c
Countdowns == {alarm} \cup {delayKey[s] : s \in Steps}
                      \cup {run.due[s] : s \in AllSteps} \cup {stored.due[s] : s \in AllSteps}

Tick ==
  /\ thread[Alarm].pc # "alarmPublish"
  /\ \E c \in Countdowns : c > 0
  /\ alarm' = Down(alarm)
  /\ delayKey' = [s \in Steps |-> Down(delayKey[s])]
  /\ run' = [run EXCEPT !.due = [s \in AllSteps |-> Down(@[s])]]
  /\ stored' = [stored EXCEPT !.due = [s \in AllSteps |-> Down(@[s])]]
  /\ UNCHANGED <<thread, queue, dlq, row>>

\* The object is evicted: its memory and the handlers in it are gone, callers
\* see their request rejected, and an alarm that was being handled fires again.
Evict ==
  /\ run' = stored
  /\ thread' = [t \in Threads |->
       IF thread[t].pc \notin Inside THEN thread[t]
       ELSE IF t \in Executors THEN [thread[t] EXCEPT !.pc = "threw", !.todo = {}]
       ELSE IdleThread]
  /\ alarm' = IF thread[Alarm].pc \in Inside /\ alarm = NoTime THEN 0 ELSE alarm
  /\ UNCHANGED <<stored, delayKey, queue, dlq, row>>

-----------------------------------------------------------------------------
(* Properties of the object *)

RunType ==
  [status : RunStatus,
   step   : [AllSteps -> StepStatus],
   att    : [AllSteps -> Nat],
   due    : [AllSteps -> Nat \cup {NoTime}],
   hist   : SUBSET (AllSteps \X Nat)]

ThreadType ==
  [pc : Inside \cup Outside, step : AllSteps \cup {NoStep},
   todo : SUBSET AllSteps, call : Calls]

\* The type of the object's state, its alarm, queue and D1 rows.
TypeOK ==
  /\ run \in RunType
  /\ stored \in RunType
  /\ delayKey \in [Steps -> Nat \cup {NoTime}]
  /\ alarm \in Nat \cup {NoTime}
  /\ thread \in [Threads -> ThreadType]
  /\ queue \in [AllSteps -> Nat]
  /\ dlq \in [AllSteps -> Nat]
  /\ row \in {"absent", "running", "completed", "failed"}

=============================================================================
