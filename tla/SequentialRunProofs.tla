-------------------------- MODULE SequentialRunProofs --------------------------
(***************************************************************************)
(* Proofs about StepExecutor for workflows without parallel steps, as long *)
(* as the queue repeats no delivery and the object is not evicted: the     *)
(* joiner and leaver definitions on an undisturbed platform, for every     *)
(* number of steps and executors, whatever handlers fail, time out or are  *)
(* retried and whatever messages are lost.                                 *)
(*                                                                         *)
(* The inductive invariant InTurn says that the forward steps take turns.  *)
(* At most one of them is Current, and its message is a token: it is in    *)
(* the queue or with one thread, never both, and only the thread that      *)
(* holds it, or the alarm, may move the step.  Order, completion and the   *)
(* bound on the grace period follow from it.                               *)
(*                                                                         *)
(* The second half, from Lively on, is the safety side of progress.  As    *)
(* long as a run is not over somebody sees to it: an alarm is set, a       *)
(* message is under way, or a thread still has to record an outcome, to    *)
(* publish the next step or to set the alarm.  Lively names who, for a     *)
(* running run (Watched) and for one being undone (Pursued), and gives     *)
(* NeverStranded.                                                          *)
(***************************************************************************)
EXTENDS WorkflowDOProofs, WellFoundedInduction

Sequential == Parallel = {} /\ MaxRedeliveries = 0 /\ MaxEvictions = 0

\* No handler reports a failure, or no step may be retried.  The count of attempts is
\* one when it is first compared, after an increment, so that maxRetries = 1 still
\* means no retry.
NeverRetried == MaxFailures = 0 \/ \A s \in Steps : MaxRetries[s] <= 1

Settled == {"completed", "skipped"}

\* The current step is waiting, running, failed or dead-lettered, or its
\* completion is being recorded.
Busy(r, s) == r.step[s] \in {"waiting", "running", "failed", "dlq"}
Done(r, s) == /\ r.step[s] = "completed" /\ r.status = "running"
              /\ \A q \in Steps : s < q => r.step[q] = "pending"
Current(r, s) == Busy(r, s) \/ Done(r, s)

\* What the message of a step says of the step, wherever the message is.
Open(r, s) == /\ r.step[s] \in {"running", "failed", "dlq"}
              /\ r.step[s] = "running" => r.status = "running"

\* The thread has the message of the step.
Held == {"handler", "replay", "threw", "progress", "evidence", "failEvidence", "failDlq"}
Holds(th, s) == th.step = s /\ th.pc \in Held

RunSeq(r) ==
  /\ \A s \in Steps : r.step[s] # "absent"
  /\ \A s, q \in Steps : q < s /\ r.step[s] # "pending" => r.step[q] \in Settled
  /\ \A s \in Steps : r.step[s] = "waiting" => r.status = "running"
  /\ r.status = "completed" => \A s \in Steps : r.step[s] \in Settled
  /\ r.status = "none" => \A s \in Steps : r.step[s] = "pending"
  /\ NeverRetried =>
       \A s \in Steps :
         /\ r.step[s] \in {"running", "failed", "dlq"} => r.att[s] >= 1
         /\ r.step[s] = "running" => r.status = "running"

HolderOK(th, r) ==
  \/ th.pc \in {"handler", "replay"} /\ Open(r, th.step)
  \/ th.pc \in {"threw", "failEvidence", "failDlq"} /\ th.call = "fail" /\ r.step[th.step] = "dlq"
  \/ th.pc \in {"progress", "evidence"} /\ Done(r, th.step)

ThreadSeq(th, r) ==
  /\ th.pc \in Held /\ th.step \in Steps => HolderOK(th, r)
  /\ th.pc \in {"progress", "evidence", "failEvidence", "failDlq"} /\ th.step \in Comps => Undone(r)
  /\ th.pc = "threw" /\ th.step \in Comps => r.status = "failed"
  /\ th.pc = "advance" => th.todo = {}
  /\ th.pc = "alarmPublish" => /\ th.todo = {} /\ th.step \in Steps
                               /\ r.step[th.step] \notin {"pending", "waiting"}

TokenSeq(th, q, r) ==
  \A s \in Steps :
    /\ q[s] > 0 => Open(r, s) /\ q[s] = 1 /\ \A t \in Threads : ~Holds(th[t], s)
    /\ \A t, u \in Threads : Holds(th[t], s) /\ Holds(th[u], s) => t = u

GraceSeq(r, dk, al) ==
  \A s \in Steps : r.step[s] = "waiting" => dk[s] # NoTime /\ al = dk[s]

InTurn ==
  /\ RunSeq(run)
  /\ \A t \in Threads : ThreadSeq(thread[t], run)
  /\ TokenSeq(thread, queue, run)
  /\ GraceSeq(run, delayKey, alarm)

-----------------------------------------------------------------------------
(* One step is current *)

LEMMA StepNumbers == Steps \subseteq Int /\ Steps \subseteq AllSteps
  BY StepSets, SizeAssumption DEF Steps

LEMMA Trichotomy ==
  ASSUME NEW s \in Steps, NEW q \in Steps
  PROVE  q < s \/ q = s \/ s < q
  BY StepNumbers

LEMMA OneCurrent ==
  ASSUME NEW r, RunSeq(r), NEW s \in Steps, NEW q \in Steps, Current(r, s), Current(r, q)
  PROVE  s = q
<1>1. ASSUME NEW a \in Steps, NEW b \in Steps, Current(r, a), Current(r, b), a < b PROVE FALSE
  BY <1>1 DEF RunSeq, Current, Busy, Done, Settled
<1> QED
  BY <1>1, StepNumbers

LEMMA HeldIsCurrent ==
  ASSUME NEW r, NEW th, ThreadSeq(th, r), NEW s \in Steps, Holds(th, s)
  PROVE  Current(r, s)
  BY DEF ThreadSeq, Holds, HolderOK, Current, Busy, Open

\* No step goes back to pending or waiting, and a failed run stays failed.
Onward(r, r2) ==
  /\ \A s \in Steps :
       r.step[s] \notin {"pending", "waiting"} => r2.step[s] \notin {"pending", "waiting"}
  /\ r.status = "failed" => r2.status = "failed"

LEMMA FreeKeeps ==
  ASSUME NEW r, NEW r2, NEW th, ThreadSeq(th, r), \A s \in Steps : ~Holds(th, s),
         Undone(r) => Undone(r2), Onward(r, r2)
  PROVE  ThreadSeq(th, r2)
  BY DEF ThreadSeq, Onward, Holds

\* Threads that are done with their message.
LEMMA RestingSeq ==
  ASSUME NEW r, NEW th, th.pc \in {"idle", "insert", "compensate", "final", "alarmDlq"}
  PROVE  ThreadSeq(th, r) /\ \A s \in Steps : ~Holds(th, s)
  BY DEF ThreadSeq, Holds, Held

LEMMA HolderFacts ==
  ASSUME IInv, InTurn, NEW t \in Threads, NEW s \in Steps, Holds(thread[t], s)
  PROVE  /\ Current(run, s)
         /\ \A q \in Steps : queue[q] = 0
         /\ \A u \in Threads \ {t}, q \in Steps : ~Holds(thread[u], q)
         /\ \A q \in Steps \ {s} : ~Current(run, q)
<1>1. Current(run, s)
  BY HeldIsCurrent DEF InTurn
<1>2. \A q \in Steps \ {s} : ~Current(run, q)
  BY <1>1, OneCurrent DEF InTurn
<1>3. \A u \in Threads, q \in Steps : Holds(thread[u], q) => q = s /\ u = t
  BY <1>2, HeldIsCurrent DEF InTurn, TokenSeq
<1>4. ASSUME NEW q \in Steps, queue[q] > 0 PROVE FALSE
  <2>1. Current(run, q) /\ q # s
    BY <1>4 DEF InTurn, TokenSeq, Open, Current, Busy
  <2> QED
    BY <1>2, <2>1
<1>5. \A q \in Steps : queue[q] \in Nat
  BY StepNumbers, IInvFacts
<1> QED
  BY <1>1, <1>2, <1>3, <1>4, <1>5

\* A waiting step has no message, and nobody else has one.
LEMMA WaitingFacts ==
  ASSUME IInv, InTurn, NEW s \in Steps, run.step[s] = "waiting"
  PROVE  /\ \A q \in Steps : queue[q] = 0
         /\ \A u \in Threads, q \in Steps : ~Holds(thread[u], q)
         /\ \A q \in Steps \ {s} : ~Current(run, q)
         /\ run.status = "running"
<1>1. Current(run, s) /\ run.status = "running"
  BY DEF InTurn, RunSeq, Current, Busy
<1>2. \A q \in Steps \ {s} : ~Current(run, q)
  BY <1>1, OneCurrent DEF InTurn
<1>3. ASSUME NEW u \in Threads, NEW q \in Steps, Holds(thread[u], q) PROVE FALSE
  <2>1. q = s /\ ThreadSeq(thread[u], run)
    BY <1>2, <1>3, HeldIsCurrent DEF InTurn
  <2> QED
    BY <1>3, <2>1 DEF ThreadSeq, HolderOK, Holds, Open, Done
<1>4. ASSUME NEW q \in Steps, queue[q] > 0 PROVE FALSE
  BY <1>2, <1>4 DEF InTurn, TokenSeq, Open, Current, Busy
<1>5. \A q \in Steps : queue[q] \in Nat
  BY StepNumbers, IInvFacts
<1> QED
  BY <1>1, <1>2, <1>3, <1>4, <1>5

\* Nor has anybody a message while all steps are settled or pending and nobody
\* records a completion.
LEMMA UnstartedFacts ==
  ASSUME IInv, InTurn, run.status = "none"
  PROVE  /\ \A q \in Steps : queue[q] = 0
         /\ \A u \in Threads, q \in Steps : ~Holds(thread[u], q)
         /\ \A q \in Steps : run.step[q] = "pending"
<1>1. \A q \in Steps : run.step[q] = "pending" /\ ~Current(run, q)
  BY DEF InTurn, RunSeq, Current, Busy, Done
<1>2. \A u \in Threads, q \in Steps : ~Holds(thread[u], q)
  BY <1>1, HeldIsCurrent DEF InTurn
<1>3. ASSUME NEW q \in Steps, queue[q] > 0 PROVE FALSE
  BY <1>1, <1>3 DEF InTurn, TokenSeq, Open
<1>4. \A q \in Steps : queue[q] \in Nat
  BY StepNumbers, IInvFacts
<1> QED
  BY <1>1, <1>2, <1>3, <1>4

-----------------------------------------------------------------------------
(* The three ways in which a thread moves *)

LEMMA SuspendTo ==
  ASSUME IInv, NEW t \in Threads, NEW pc, NEW s, NEW todo, Suspend(t, pc, s, todo)
  PROVE  \E th : /\ thread' = [thread EXCEPT ![t] = th]
                 /\ th.pc = pc /\ th.step = s /\ th.todo = todo /\ th.call = thread[t].call
<1> DEFINE th == [thread[t] EXCEPT !.pc = pc, !.step = s, !.todo = todo]
<1>1. thread' = [thread EXCEPT ![t] = th]
  BY DEF IInv, Suspend
<1>2. thread[t] \in ThreadType
  BY IInvFacts
<1>3. th.pc = pc /\ th.step = s /\ th.todo = todo /\ th.call = thread[t].call
  BY <1>2 DEF ThreadType
<1> QED
  BY <1>1, <1>3

LEMMA ReturnTo ==
  ASSUME NEW t \in Threads, Return(t)
  PROVE  \E th : thread' = [thread EXCEPT ![t] = th] /\ th.pc \in {"idle", "insert"}
<1> DEFINE th == IF t = Starter THEN [IdleThread EXCEPT !.pc = "insert"] ELSE IdleThread
<1>1. thread' = [thread EXCEPT ![t] = th]
  BY DEF Return
<1>2. th.pc \in {"idle", "insert"}
  BY DEF IdleThread
<1> QED
  BY <1>1, <1>2

LEMMA ReturnSeq ==
  ASSUME NEW t \in Threads, Return(t), NEW r
  PROVE  \E th : /\ thread' = [thread EXCEPT ![t] = th] /\ ThreadSeq(th, r)
                 /\ \A s \in Steps : ~Holds(th, s)
  BY ReturnTo, RestingSeq

LEMMA ThrowTo ==
  ASSUME IInv, NEW t \in Threads, Throw(t)
  PROVE  \E th : /\ thread' = [thread EXCEPT ![t] = th]
                 /\ th.pc = "threw" /\ th.step = thread[t].step /\ th.call = thread[t].call
<1> DEFINE th == [thread[t] EXCEPT !.pc = "threw", !.todo = {}]
<1>1. thread' = [thread EXCEPT ![t] = th]
  BY DEF IInv, Throw
<1>2. thread[t] \in ThreadType
  BY IInvFacts
<1>3. th.pc = "threw" /\ th.step = thread[t].step /\ th.call = thread[t].call
  BY <1>2 DEF ThreadType
<1> QED
  BY <1>1, <1>3

-----------------------------------------------------------------------------
(* Two kinds of action.  The thread that has the turn may do anything that
   leaves the steps in turn: nobody else relies on them. *)

LEMMA TurnKeeps ==
  ASSUME IInv, InTurn, NEW t \in Threads,
         \A u \in Threads \ {t}, q \in Steps : ~Holds(thread[u], q),
         NEW th, thread' = [thread EXCEPT ![t] = th],
         RunSeq(run'), ThreadSeq(th, run'), GraceSeq(run', delayKey', alarm'),
         Undone(run) => Undone(run'), Onward(run, run'),
         \A q \in Steps : queue'[q] > 0 => Open(run', q) /\ queue'[q] = 1 /\ ~Holds(th, q)
  PROVE  InTurn'
<1>1. \A u \in Threads : thread'[u] = IF u = t THEN th ELSE thread[u]
  BY DEF IInv
<1>2. \A u \in Threads : ThreadSeq(thread'[u], run')
  <2>1. ASSUME NEW u \in Threads, u # t PROVE ThreadSeq(thread'[u], run')
    <3>1. ThreadSeq(thread[u], run) /\ \A q \in Steps : ~Holds(thread[u], q)
      BY <2>1 DEF InTurn
    <3>2. ThreadSeq(thread[u], run')
      BY <3>1, FreeKeeps
    <3> QED
      BY <1>1, <2>1, <3>2
  <2> QED
    BY <1>1, <2>1
<1>3. \A u \in Threads, q \in Steps : Holds(thread'[u], q) => u = t
  BY <1>1
<1>4. TokenSeq(thread', queue', run')
  BY <1>1, <1>3 DEF TokenSeq
<1> QED
  BY <1>2, <1>4 DEF InTurn

\* Everybody else may only time the running step out, ending or undoing the run
\* because of it, or end a run that is being undone.
Calm(r, r2) ==
  /\ \A s \in Steps : /\ \/ r2.step[s] = r.step[s]
                         \/ r.step[s] = "running" /\ r2.step[s] = "failed"
                      /\ r2.att[s] = r.att[s]
  /\ Undone(r) => Undone(r2)
  /\ \/ r2.status = r.status
     \/ r.status = "compensating" /\ r2.status = "failed"
     \/ /\ r.status = "running" /\ r2.status \in {"compensating", "failed"}
        /\ \E s \in Steps : r.step[s] = "running" /\ r2.step[s] = "failed"

LEMMA CalmRun ==
  ASSUME NEW r, NEW r2, RunSeq(r), Calm(r, r2)
  PROVE  RunSeq(r2)
<1>1. CASE r2.status = r.status
  BY <1>1 DEF RunSeq, Calm, Settled
<1>2. CASE r.status = "compensating" /\ r2.status = "failed"
  BY <1>2 DEF RunSeq, Calm, Settled
<1>3. CASE /\ r.status = "running" /\ r2.status \in {"compensating", "failed"}
           /\ \E s \in Steps : r.step[s] = "running" /\ r2.step[s] = "failed"
  <2>1. PICK s \in Steps : r.step[s] = "running" /\ r2.step[s] = "failed"
    BY <1>3
  <2>2. \A q \in Steps \ {s} : r.step[q] \notin {"waiting", "running"}
    BY <2>1, OneCurrent DEF Current, Busy
  <2>3. \A q \in Steps : r2.step[q] \notin {"waiting", "running"}
    BY <2>1, <2>2 DEF Calm
  <2> QED
    BY <1>3, <2>3 DEF RunSeq, Calm, Settled
<1> QED
  BY <1>1, <1>2, <1>3 DEF Calm

LEMMA CalmOpen ==
  ASSUME NEW r, NEW r2, RunSeq(r), Calm(r, r2), NEW s \in Steps, Open(r, s)
  PROVE  Open(r2, s)
<1>1. CASE r2.status = r.status \/ r.step[s] # "running" \/ r2.step[s] = "failed"
  BY <1>1 DEF Calm, Open
<1>2. CASE r.status = "compensating" /\ r2.status = "failed"
  BY <1>2 DEF Calm, Open
<1>3. CASE r.step[s] = "running" /\ \E q \in Steps : r.step[q] = "running" /\ r2.step[q] = "failed"
  <2>1. r2.step[s] = "failed"
    BY <1>3, OneCurrent DEF Current, Busy
  <2> QED
    BY <2>1 DEF Open
<1> QED
  BY <1>1, <1>2, <1>3 DEF Calm

LEMMA CalmDone ==
  ASSUME NEW r, NEW r2, RunSeq(r), Calm(r, r2), NEW s \in Steps, Done(r, s)
  PROVE  Done(r2, s)
<1>1. ASSUME NEW q \in Steps, r.step[q] = "running" PROVE FALSE
  <2>1. q = s
    BY <1>1, OneCurrent DEF Current, Busy
  <2> QED
    BY <1>1, <2>1 DEF Done
<1> QED
  BY <1>1 DEF Calm, Done

LEMMA CalmThread ==
  ASSUME NEW r, NEW r2, RunSeq(r), Calm(r, r2), NEW th, ThreadSeq(th, r)
  PROVE  ThreadSeq(th, r2)
<1>1. ASSUME th.step \in Steps, HolderOK(th, r) PROVE HolderOK(th, r2)
  <2>1. CASE th.pc \in {"handler", "replay"} /\ Open(r, th.step)
    BY <1>1, <2>1, CalmOpen DEF HolderOK
  <2>2. CASE /\ th.pc \in {"threw", "failEvidence", "failDlq"} /\ th.call = "fail"
             /\ r.step[th.step] = "dlq"
    BY <1>1, <2>2 DEF HolderOK, Calm
  <2>3. CASE th.pc \in {"progress", "evidence"} /\ Done(r, th.step)
    BY <1>1, <2>3, CalmDone DEF HolderOK
  <2> QED
    BY <1>1, <2>1, <2>2, <2>3 DEF HolderOK
<1> QED
  BY <1>1 DEF ThreadSeq, Calm

LEMMA CalmKeeps ==
  ASSUME IInv, InTurn, Calm(run, run'), NEW t \in Threads,
         NEW th, thread' = [thread EXCEPT ![t] = th], ThreadSeq(th, run),
         queue' \in [AllSteps -> Nat],
         \A s \in Steps : /\ queue'[s] <= queue[s]
                          /\ Holds(th, s) => Holds(thread[t], s) \/ queue'[s] < queue[s],
         GraceSeq(run', delayKey', alarm')
  PROVE  InTurn'
<1>1. \A u \in Threads : thread'[u] = IF u = t THEN th ELSE thread[u]
  BY DEF IInv
<1>2. RunSeq(run')
  BY CalmRun DEF InTurn
<1>3. \A u \in Threads : ThreadSeq(thread'[u], run')
  BY <1>1, CalmThread DEF InTurn
<1>4. ASSUME NEW s \in Steps
      PROVE  /\ queue'[s] > 0 =>
                  /\ Open(run', s) /\ queue'[s] = 1
                  /\ \A u \in Threads : ~Holds(thread'[u], s)
             /\ \A u, v \in Threads : Holds(thread'[u], s) /\ Holds(thread'[v], s) => u = v
  <2>1. queue[s] \in Nat /\ queue'[s] \in Nat
    BY StepNumbers, IInvFacts
  <2>2. /\ queue'[s] <= queue[s]
        /\ Holds(th, s) => Holds(thread[t], s) \/ queue'[s] < queue[s]
    OBVIOUS
  <2>3. /\ queue[s] > 0 => Open(run, s) /\ queue[s] = 1 /\ \A u \in Threads : ~Holds(thread[u], s)
        /\ \A u, v \in Threads : Holds(thread[u], s) /\ Holds(thread[v], s) => u = v
    BY DEF InTurn, TokenSeq
  <2>4. queue'[s] > 0 => Open(run', s)
    BY <2>1, <2>2, <2>3, CalmOpen DEF InTurn
  <2>5. CASE queue[s] = 0
    BY <1>1, <2>1, <2>2, <2>3, <2>4, <2>5
  <2>6. CASE queue[s] > 0
    BY <1>1, <2>1, <2>2, <2>3, <2>4, <2>6
  <2> QED
    BY <2>1, <2>5, <2>6
<1>5. TokenSeq(thread', queue', run')
  BY <1>4 DEF TokenSeq
<1> QED
  BY <1>2, <1>3, <1>5 DEF InTurn

-----------------------------------------------------------------------------
(* advanceToNextStep, called with r in memory: without parallel steps it
   dispatches the first step that is left, or completes the run *)

LEMMA Least ==
  ASSUME NEW S \in SUBSET Nat, S # {}
  PROVE  \E s \in S : \A q \in S : s <= q
<1> DEFINE R == OpToRel(<, Nat)
<1>1. IsWellFoundedOn(R, Nat)
  BY NatLessThanWellFounded
<1>2. \A x, y \in Nat : x < y => <<x, y>> \in R
  BY DEF OpToRel
<1> HIDE DEF R
<1>3. PICK s \in S : \A q \in S : ~ (<<q, s>> \in R)
  BY <1>1, WFMin
<1>4. \A q \in S : q \in Nat /\ s \in Nat /\ ~(q < s)
  BY <1>2, <1>3
<1> QED
  BY <1>4

\* The run after the skips: r with some pending steps skipped.
Skipped(r, next) ==
  /\ next \in RunType
  /\ next.status = r.status /\ next.att = r.att /\ next.due = r.due
  /\ \A c \in Comps : next.step[c] = r.step[c]
  /\ \A q \in Steps : \/ next.step[q] = r.step[q]
                      \/ r.step[q] = "pending" /\ next.step[q] = "skipped"

\* s is the first step that is left.
NextUp(r, next, s) ==
  /\ next.step[s] = "pending" /\ \A q \in Steps : q < s => next.step[q] \in Settled
  /\ \A q \in Steps : s < q => next.step[q] = r.step[q]

Waits(t, next, s) ==
  /\ Delay[s] > 0
  /\ Save([next EXCEPT !.step[s] = "waiting", !.due[s] = Delay[s] + Timeout[s]])
  /\ delayKey' = [delayKey EXCEPT ![s] = Delay[s]]
  /\ alarm' = Delay[s]
  /\ Return(t)
  /\ UNCHANGED queue

Begins(t, next, s) ==
  /\ Delay[s] = 0
  /\ run' = Begun(next, s)
  /\ Publish(s)
  /\ Suspend(t, "advance", Own(t, s), {})

Completes(t, next) ==
  /\ \A s \in Steps : next.step[s] \in Settled
  /\ Save([next EXCEPT !.status = "completed"])
  /\ alarm' = NoTime
  /\ Return(t)
  /\ UNCHANGED queue

LEMMA AdvanceCases ==
  ASSUME Parallel = {}, NEW t, NEW r, SafeRun(r), r.status = "running",
         \A s \in Steps : r.step[s] \in Settled \cup {"pending"},
         NEW st, NEW al, Advance(t, r, st, al)
  PROVE  \E next :
           /\ Skipped(r, next)
           /\ \/ \E s \in Steps : NextUp(r, next, s) /\ (Waits(t, next, s) \/ Begins(t, next, s))
              \/ Completes(t, next)
<1>0. r \in RunType /\ ~Undone(r)
  BY DEF SafeRun
<1>1. PICK falsy \in SUBSET Conditional :
        LET live  == Pending(r) \ falsy
            batch == {s \in live : Collected(live, s)}
            skip  == {s \in Pending(r) \cap falsy : Collected(live, s)}
            next  == [r EXCEPT !.step = [s \in AllSteps |-> IF s \in skip THEN "skipped" ELSE @[s]]]
        IN \/ batch # {} /\ Dispatch(t, next, st, al, batch)
           \/ /\ batch = {} /\ Over(next) /\ CanGo(next, "completed")
              /\ Save([next EXCEPT !.status = "completed"])
              /\ alarm' = NoTime
              /\ Return(t)
              /\ UNCHANGED <<delayKey, queue, dlq, row>>
           \/ /\ batch = {} /\ ~(Over(next) /\ CanGo(next, "completed"))
              /\ run' = next /\ stored' = st /\ alarm' = al
              /\ IF Over(next) THEN Throw(t) ELSE Return(t)
              /\ UNCHANGED <<delayKey, queue, dlq, row>>
  BY DEF Advance
<1> DEFINE live  == Pending(r) \ falsy
           batch == {s \in live : Collected(live, s)}
           skip  == {s \in Pending(r) \cap falsy : Collected(live, s)}
           step2 == [s \in AllSteps |-> IF s \in skip THEN "skipped" ELSE r.step[s]]
           next  == [r EXCEPT !.step = step2]
<1>2. /\ next \in RunType /\ next.status = r.status /\ next.step = step2
      /\ next.att = r.att /\ next.due = r.due
  BY <1>0 DEF RunType, StepStatus
<1>3. live \subseteq Steps /\ skip \subseteq Steps /\ \A s \in skip : r.step[s] = "pending"
  BY DEF Pending, In
<1>4. \A s \in live : r.step[s] = "pending" /\ s \notin skip
  BY DEF Pending, In
<1>5. \A s \in Steps : r.step[s] = "pending" => s \in live \/ s \in Pending(r) \cap falsy
  BY DEF Pending, In
<1>6. Skipped(r, next)
  BY <1>2, <1>3, StepSets DEF Skipped
<1>7. ASSUME NEW s \in batch
      PROVE  /\ s \in Steps /\ next.step[s] = "pending"
             /\ \A q \in live : s <= q
             /\ \A q \in Steps : q < s => next.step[q] \in Settled
             /\ \A q \in Steps : s < q => next.step[q] = r.step[q]
             /\ batch \ {s} = {}
  <2>1. s \in live /\ s \in Steps /\ \A q \in live : ~(q < s)
    BY <1>3 DEF Collected
  <2>2. \A q \in live : s <= q
    BY <1>3, <2>1, StepNumbers
  <2>3. next.step[s] = "pending"
    BY <1>2, <1>4, <2>1, StepNumbers
  <2>4. ASSUME NEW q \in Steps, q < s PROVE next.step[q] \in Settled
    <3>1. q \notin live
      BY <2>1, <2>4
    <3>2. CASE r.step[q] = "pending"
      <4>1. q \in Pending(r) \cap falsy
        BY <1>5, <3>1, <3>2
      <4>2. \A p \in live : ~(p < q)
        BY <1>3, <2>1, <2>4, StepNumbers
      <4>3. q \in skip
        BY <4>1, <4>2 DEF Collected
      <4> QED
        BY <1>2, <4>3, StepNumbers DEF Settled
    <3>3. CASE r.step[q] # "pending"
      BY <1>2, <1>3, <3>3, StepNumbers DEF Settled
    <3> QED
      BY <3>2, <3>3
  <2>5. ASSUME NEW q \in Steps, s < q PROVE q \notin skip
    BY <2>1, <2>5 DEF Collected
  <2>6. ASSUME NEW q \in batch, q # s PROVE FALSE
    <3>1. q \in live /\ \A p \in live : ~(p < q)
      BY <2>6 DEF Collected
    <3> QED
      BY <1>3, <2>1, <2>6, <3>1, StepNumbers
  <2> QED
    BY <1>2, <2>1, <2>2, <2>3, <2>4, <2>5, <2>6, StepNumbers
<1>8. ASSUME batch = {} PROVE Over(next) /\ CanGo(next, "completed") /\ \A s \in Steps : next.step[s] \in Settled
  <2>1. live = {}
    <3> SUFFICES ASSUME live # {} PROVE FALSE
      OBVIOUS
    <3>1. live \in SUBSET Nat
      BY <1>3, SizeAssumption DEF Steps
    <3> HIDE DEF live
    <3>2. PICK s \in live : \A q \in live : s <= q
      BY <3>1, Least
    <3>3. Collected(live, s)
      BY <3>1, <3>2 DEF Collected
    <3>4. s \in batch
      BY <3>2, <3>3
    <3> QED
      BY <1>8, <3>4
  <2>2. \A s \in Steps : r.step[s] = "pending" => s \in skip
    BY <1>5, <2>1 DEF Collected
  <2>3. \A s \in Steps : next.step[s] \in Settled
    BY <1>2, <2>2, StepNumbers DEF Settled
  <2>4. \A c \in Comps : next.step[c] = "absent"
    BY <1>0, <1>6 DEF Undone, Skipped
  <2> HIDE DEF next
  <2>5. Over(next)
    BY <2>3, <2>4, StepSets DEF Over, In, Settled
  <2> QED
    BY <1>2, <2>3, <2>5 DEF CanGo
<1>9. \/ batch # {} /\ Dispatch(t, next, st, al, batch)
      \/ /\ batch = {} /\ Over(next) /\ CanGo(next, "completed")
         /\ Save([next EXCEPT !.status = "completed"])
         /\ alarm' = NoTime
         /\ Return(t)
         /\ UNCHANGED <<delayKey, queue, dlq, row>>
      \/ /\ batch = {} /\ ~(Over(next) /\ CanGo(next, "completed"))
         /\ run' = next /\ stored' = st /\ alarm' = al
         /\ IF Over(next) THEN Throw(t) ELSE Return(t)
         /\ UNCHANGED <<delayKey, queue, dlq, row>>
  BY <1>1
<1> HIDE DEF live, batch, skip, step2, next
<1>10. CASE Dispatch(t, next, st, al, batch)
  <2>1. PICK s \in batch :
          \/ /\ Delay[s] > 0
             /\ Save([next EXCEPT !.step[s] = "waiting", !.due[s] = Delay[s] + Timeout[s]])
             /\ delayKey' = [delayKey EXCEPT ![s] = Delay[s]]
             /\ alarm' = Delay[s]
             /\ Return(t)
             /\ UNCHANGED <<queue, dlq, row>>
          \/ /\ Delay[s] = 0
             /\ run' = Begun(next, s)
             /\ Publish(s)
             /\ Suspend(t, "advance", Own(t, s), batch \ {s})
    BY <1>10 DEF Dispatch
  <2>2. /\ s \in Steps /\ next.step[s] = "pending"
        /\ \A q \in Steps : q < s => next.step[q] \in Settled
        /\ \A q \in Steps : s < q => next.step[q] = r.step[q]
        /\ batch \ {s} = {}
    BY <1>7
  <2> QED
    BY <1>6, <2>1, <2>2 DEF NextUp, Waits, Begins
<1> QED
  BY <1>6, <1>8, <1>9, <1>10 DEF Completes

LEMMA AdvanceInTurn ==
  ASSUME IInv, Parallel = {}, NEW t \in Threads, NEW r, SafeRun(r), RunSeq(r),
         r.status = "running", \A s \in Steps : r.step[s] \in Settled \cup {"pending"},
         \A s \in Steps : queue[s] = 0,
         NEW st, NEW al, Advance(t, r, st, al)
  PROVE  /\ RunSeq(run') /\ Onward(r, run') /\ GraceSeq(run', delayKey', alarm')
         /\ \A q \in Steps : queue'[q] > 0 => Open(run', q) /\ queue'[q] = 1
         /\ \E th : /\ thread' = [thread EXCEPT ![t] = th] /\ ThreadSeq(th, run')
                    /\ \A q \in Steps : ~Holds(th, q)
<1>1. PICK next :
        /\ Skipped(r, next)
        /\ \/ \E s \in Steps : NextUp(r, next, s) /\ (Waits(t, next, s) \/ Begins(t, next, s))
           \/ Completes(t, next)
  BY AdvanceCases
<1>2. next \in RunType /\ next.status = "running"
  BY <1>1 DEF Skipped
<1>3. \A s \in Steps : next.step[s] \in Settled \cup {"pending"}
  BY <1>1 DEF Skipped, Settled
<1>4. Onward(r, next)
  BY <1>1 DEF Skipped, Onward
<1>5. ASSUME NEW s \in Steps, NextUp(r, next, s)
      PROVE  /\ next.step[s] = "pending" /\ \A q \in Steps : q < s => next.step[q] \in Settled
             /\ \A q \in Steps : s < q => next.step[q] = "pending"
  <2>1. r.step[s] = "pending"
    BY <1>1, <1>5 DEF Skipped, NextUp
  <2> QED
    BY <1>5, <2>1 DEF RunSeq, Settled, NextUp
<1>6. ASSUME NEW s \in Steps, NextUp(r, next, s), Waits(t, next, s)
      PROVE  /\ RunSeq(run') /\ Onward(next, run') /\ GraceSeq(run', delayKey', alarm')
             /\ \A q \in Steps : queue'[q] > 0 => Open(run', q) /\ queue'[q] = 1
             /\ \E th : /\ thread' = [thread EXCEPT ![t] = th] /\ ThreadSeq(th, run')
                        /\ \A q \in Steps : ~Holds(th, q)
  <2>1. /\ next.step[s] = "pending" /\ \A q \in Steps : q < s => next.step[q] \in Settled
        /\ \A q \in Steps : s < q => next.step[q] = "pending"
    BY <1>5, <1>6
  <2>2. /\ run'.status = "running" /\ run'.att = next.att
        /\ \A q \in Steps : run'.step[q] = IF q = s THEN "waiting" ELSE next.step[q]
    BY <1>2, <1>6, StepNumbers DEF Waits, Save, RunType
  <2>3. RunSeq(run')
    BY <1>2, <1>3, <2>1, <2>2, StepNumbers DEF RunSeq, Settled
  <2>4. Onward(next, run')
    BY <1>2, <2>1, <2>2 DEF Onward
  <2>5. GraceSeq(run', delayKey', alarm')
    <3>1. delayKey'[s] = Delay[s] /\ Delay[s] # NoTime
      BY <1>6, IInvFacts, DefinitionAssumption DEF Waits, NoTime
    <3>2. \A q \in Steps : run'.step[q] = "waiting" => q = s
      BY <1>3, <2>2 DEF Settled
    <3> QED
      BY <1>6, <3>1, <3>2 DEF GraceSeq, Waits
  <2>6. Return(t) /\ \A q \in Steps : queue'[q] = 0
    BY <1>6 DEF Waits
  <2> QED
    BY <2>3, <2>4, <2>5, <2>6, ReturnSeq
<1>7. ASSUME NEW s \in Steps, NextUp(r, next, s), Begins(t, next, s)
      PROVE  /\ RunSeq(run') /\ Onward(next, run') /\ GraceSeq(run', delayKey', alarm')
             /\ \A q \in Steps : queue'[q] > 0 => Open(run', q) /\ queue'[q] = 1
             /\ \E th : /\ thread' = [thread EXCEPT ![t] = th] /\ ThreadSeq(th, run')
                        /\ \A q \in Steps : ~Holds(th, q)
  <2>1. /\ next.step[s] = "pending" /\ \A q \in Steps : q < s => next.step[q] \in Settled
        /\ \A q \in Steps : s < q => next.step[q] = "pending"
    BY <1>5, <1>7
  <2>2. /\ run'.status = "running" /\ \A q \in Steps \ {s} : run'.att[q] = next.att[q]
        /\ run'.att[s] = 1
        /\ \A q \in Steps : run'.step[q] = IF q = s THEN "running" ELSE next.step[q]
    BY <1>2, <1>7, StepNumbers DEF Begins, Begun, RunType
  <2>3. RunSeq(run')
    BY <1>2, <1>3, <2>1, <2>2, StepNumbers DEF RunSeq, Settled
  <2>4. Onward(next, run')
    BY <1>2, <2>1, <2>2 DEF Onward
  <2>5. GraceSeq(run', delayKey', alarm')
    BY <1>3, <2>2 DEF GraceSeq, Settled
  <2>6. \A q \in Steps : queue'[q] = IF q = s THEN 1 ELSE 0
    BY <1>7, IInvFacts, StepNumbers DEF Begins, Publish
  <2>7. \A q \in Steps : queue'[q] > 0 => Open(run', q) /\ queue'[q] = 1
    BY <2>2, <2>6 DEF Open
  <2>8. PICK th : thread' = [thread EXCEPT ![t] = th] /\ th.pc = "advance" /\ th.todo = {}
    BY <1>7, SuspendTo DEF Begins
  <2>9. ThreadSeq(th, run') /\ \A q \in Steps : ~Holds(th, q)
    BY <2>8 DEF ThreadSeq, Holds, Held
  <2> QED
    BY <2>3, <2>4, <2>5, <2>7, <2>8, <2>9
<1>8. ASSUME Completes(t, next)
      PROVE  /\ RunSeq(run') /\ Onward(next, run') /\ GraceSeq(run', delayKey', alarm')
             /\ \A q \in Steps : queue'[q] > 0 => Open(run', q) /\ queue'[q] = 1
             /\ \E th : /\ thread' = [thread EXCEPT ![t] = th] /\ ThreadSeq(th, run')
                        /\ \A q \in Steps : ~Holds(th, q)
  <2>1. run'.status = "completed" /\ run'.step = next.step
    BY <1>2, <1>8 DEF Completes, Save, RunType
  <2>2. RunSeq(run') /\ Onward(next, run') /\ GraceSeq(run', delayKey', alarm')
    BY <1>2, <1>8, <2>1 DEF Completes, RunSeq, Onward, GraceSeq, Settled
  <2>3. Return(t) /\ \A q \in Steps : queue'[q] = 0
    BY <1>8 DEF Completes
  <2> QED
    BY <2>2, <2>3, ReturnSeq
<1>9. Onward(next, run') => Onward(r, run')
  BY <1>4 DEF Onward
<1> QED
  BY <1>1, <1>6, <1>7, <1>8, <1>9

-----------------------------------------------------------------------------
(* Handlers that resume *)

LEMMA GraceKeeps ==
  ASSUME InTurn, UNCHANGED <<delayKey, alarm>>,
         \A s \in Steps : run'.step[s] = "waiting" => run.step[s] = "waiting"
  PROVE  GraceSeq(run', delayKey', alarm')
  BY DEF InTurn, GraceSeq

\* A run that is undone or has ended has no grace period.
LEMMA GraceOver ==
  ASSUME NEW r, RunSeq(r), r.status # "running", NEW dk, NEW al
  PROVE  GraceSeq(r, dk, al)
  BY DEF RunSeq, GraceSeq

LEMMA UndoneOver ==
  ASSUME IInv, Undone(run)
  PROVE  run.status \in {"compensating", "failed"}
  BY DEF IInv, RunPair, SafeRun

LEMMA WaitingAlone ==
  ASSUME IInv, InTurn, NEW s \in Steps, run.step[s] = "waiting"
  PROVE  Deadlines(run) = {}
<1>1. run.status = "running" /\ \A q \in Steps : run.step[q] # "running"
  BY WaitingFacts DEF Current, Busy
<1>2. \A c \in Comps : run.step[c] # "running"
  BY <1>1, UndoneOver DEF Undone
<1>3. In(run, AllSteps, "running") = {}
  BY <1>1, <1>2, StepSets DEF In
<1> QED
  BY <1>3 DEF Deadlines

LEMMA CalmSame ==
  ASSUME NEW r, NEW r2, r2.step = r.step, r2.att = r.att, r2.status = r.status
  PROVE  Calm(r, r2)
  BY DEF Calm, Undone

\* No message was published or taken.
LEMMA QueueSame ==
  ASSUME IInv, UNCHANGED queue
  PROVE  queue' \in [AllSteps -> Nat] /\ \A s \in Steps : queue'[s] <= queue[s]
<1>1. queue \in [AllSteps -> Nat] /\ queue' = queue
  BY IInvFacts
<1>2. \A s \in Steps : queue[s] \in Nat
  BY <1>1, StepNumbers
<1>3. \A s \in Steps : queue[s] <= queue[s]
  BY <1>2
<1> QED
  BY <1>1, <1>3

LEMMA ContinueAdvanceInTurn ==
  ASSUME IInv, InTurn, NEW t \in Threads, ContinueAdvance(t)
  PROVE  InTurn'
<1>1. thread[t].todo = {}
  BY DEF ContinueAdvance, InTurn, ThreadSeq
<1>2. Save(run) /\ ArmDeadline(run, alarm) /\ Return(t) /\ UNCHANGED <<delayKey, queue>>
  BY <1>1 DEF ContinueAdvance
<1>3. Calm(run, run')
  BY <1>2, CalmSame DEF Save
<1>4. GraceSeq(run', delayKey', alarm')
  <2>1. ASSUME NEW s \in Steps, run.step[s] = "waiting" PROVE alarm' = alarm
    BY <1>2, <2>1, WaitingAlone DEF ArmDeadline
  <2> QED
    BY <1>2, <2>1 DEF InTurn, GraceSeq, Save
<1>5. PICK th : /\ thread' = [thread EXCEPT ![t] = th] /\ ThreadSeq(th, run)
                /\ \A s \in Steps : ~Holds(th, s)
  BY <1>2, ReturnSeq
<1>6. queue' \in [AllSteps -> Nat] /\ \A s \in Steps : queue'[s] <= queue[s]
  BY <1>2, QueueSame
<1> QED
  BY <1>3, <1>4, <1>5, <1>6, CalmKeeps

LEMMA BegunCalm ==
  ASSUME NEW r \in RunType, NEW c \in Comps
  PROVE  Calm(r, Begun(r, c))
<1>1. /\ Begun(r, c).step = [r.step EXCEPT ![c] = "running"]
      /\ Begun(r, c).status = r.status /\ Undone(Begun(r, c))
  BY BegunFacts, BegunComp, StepSets
<1>2. \A s \in Steps : Begun(r, c).att[s] = r.att[s]
  BY StepSets DEF Begun, RunType
<1>3. \A s \in Steps : Begun(r, c).step[s] = r.step[s]
  BY <1>1, StepSets DEF RunType
<1> QED
  BY <1>1, <1>2, <1>3 DEF Calm

\* The message of a compensation does not matter here.
LEMMA OtherMessage ==
  ASSUME IInv, NEW c \in Comps, Publish(c)
  PROVE  queue' \in [AllSteps -> Nat] /\ \A s \in Steps : queue'[s] = queue[s]
  BY IInvFacts, StepSets, PublishType DEF Publish

LEMMA PushCompFacts ==
  ASSUME IInv, NEW t \in Threads, NEW r \in RunType, NEW st, NEW todo \in SUBSET Comps,
         PushComp(t, r, st, todo), NEW r2
  PROVE  /\ Calm(r, run')
         /\ run'.status = r.status /\ run' \in RunType
         /\ queue' \in [AllSteps -> Nat] /\ \A s \in Steps : queue'[s] = queue[s]
         /\ \E th : /\ thread' = [thread EXCEPT ![t] = th] /\ ThreadSeq(th, r2)
                    /\ \A s \in Steps : ~Holds(th, s)
<1>1. PICK c \in todo : /\ run' = Begun(r, c) /\ Publish(c)
                        /\ Suspend(t, "compensate", Own(t, c), todo \ {c})
  BY DEF PushComp
<1>2. c \in Comps
  OBVIOUS
<1>3. Calm(r, run')
  BY <1>1, BegunCalm
<1>4. PICK th : thread' = [thread EXCEPT ![t] = th] /\ th.pc = "compensate"
  BY <1>1, SuspendTo
<1>5. ThreadSeq(th, r2) /\ \A s \in Steps : ~Holds(th, s)
  BY <1>4, RestingSeq
<1>6. run'.status = r.status /\ run' \in RunType
  BY <1>1, BegunComp
<1> QED
  BY <1>1, <1>3, <1>4, <1>5, <1>6, OtherMessage

LEMMA ContinueCompensateInTurn ==
  ASSUME IInv, InTurn, NEW t \in Threads, ContinueCompensate(t)
  PROVE  InTurn'
<1>0. /\ thread[t].todo \in SUBSET Comps /\ Undone(run) /\ run.status # "running"
      /\ run \in RunType
  BY IInvFacts, UndoneOver DEF ContinueCompensate, ThreadOK
<1>1. CASE PushComp(t, run, stored, thread[t].todo)
  <2>1. Calm(run, run') /\ run'.status = run.status
    BY <1>0, <1>1, PushCompFacts
  <2>2. queue' \in [AllSteps -> Nat] /\ \A s \in Steps : queue'[s] = queue[s]
    BY <1>0, <1>1, PushCompFacts
  <2>3. PICK th : /\ thread' = [thread EXCEPT ![t] = th] /\ ThreadSeq(th, run)
                  /\ \A s \in Steps : ~Holds(th, s)
    BY <1>0, <1>1, PushCompFacts
  <2>4. GraceSeq(run', delayKey', alarm')
    BY <1>0, <2>1, GraceOver, CalmRun DEF InTurn
  <2>5. \A s \in Steps : queue'[s] <= queue[s]
    BY <2>2, IInvFacts, StepNumbers
  <2> QED
    BY <2>1, <2>2, <2>3, <2>4, <2>5, CalmKeeps
<1>2. CASE Save(run) /\ Return(t) /\ UNCHANGED queue
  <2>1. Calm(run, run') /\ run' = run
    BY <1>2, CalmSame DEF Save
  <2>2. GraceSeq(run', delayKey', alarm')
    BY <1>0, <2>1, GraceOver DEF InTurn
  <2>3. PICK th : /\ thread' = [thread EXCEPT ![t] = th] /\ ThreadSeq(th, run)
                  /\ \A s \in Steps : ~Holds(th, s)
    BY <1>2, ReturnSeq
  <2>4. queue' \in [AllSteps -> Nat] /\ \A s \in Steps : queue'[s] <= queue[s]
    BY <1>2, QueueSame
  <2> QED
    BY <2>1, <2>2, <2>3, <2>4, CalmKeeps
<1> QED
  BY <1>1, <1>2 DEF ContinueCompensate

LEMMA RecordCompletionInTurn ==
  ASSUME IInv, InTurn, NEW t \in Threads, RecordCompletion(t)
  PROVE  InTurn'
<1> DEFINE s == thread[t].step
           r2 == [run EXCEPT !.hist = @ \cup {<<s, run.att[s]>>}]
<1>1. /\ thread[t].pc = "progress" /\ Save(r2) /\ Suspend(t, "evidence", s, {})
      /\ UNCHANGED <<delayKey, alarm, queue>>
  BY DEF RecordCompletion
<1>2. run'.step = run.step /\ run'.att = run.att /\ run'.status = run.status
  BY <1>1, IInvFacts DEF RunType, Save
<1>3. Calm(run, run')
  BY <1>2, CalmSame
<1>4. GraceSeq(run', delayKey', alarm')
  BY <1>1, <1>2, GraceKeeps
<1>5. PICK th : thread' = [thread EXCEPT ![t] = th] /\ th.pc = "evidence" /\ th.step = thread[t].step
  BY <1>1, SuspendTo
<1>6. ThreadSeq(th, run) /\ \A q \in Steps : Holds(th, q) => Holds(thread[t], q)
  BY <1>1, <1>5 DEF InTurn, ThreadSeq, HolderOK, Holds, Held
<1>7. queue' \in [AllSteps -> Nat] /\ \A q \in Steps : queue'[q] <= queue[q]
  BY <1>1, QueueSame
<1> QED
  BY <1>3, <1>4, <1>5, <1>6, <1>7, CalmKeeps

LEMMA WriteFinalInTurn ==
  ASSUME IInv, InTurn, NEW t \in Threads, WriteFinal(t)
  PROVE  InTurn'
<1>1. Return(t) /\ UNCHANGED <<run, delayKey, alarm, queue>>
  BY DEF WriteFinal
<1>2. Calm(run, run') /\ GraceSeq(run', delayKey', alarm')
  BY <1>1, CalmSame, GraceKeeps
<1>3. PICK th : /\ thread' = [thread EXCEPT ![t] = th] /\ ThreadSeq(th, run)
                /\ \A s \in Steps : ~Holds(th, s)
  BY <1>1, ReturnSeq
<1>4. queue' \in [AllSteps -> Nat] /\ \A s \in Steps : queue'[s] <= queue[s]
  BY <1>1, QueueSame
<1> QED
  BY <1>2, <1>3, <1>4, CalmKeeps

LEMMA EmitFailureInTurn ==
  ASSUME IInv, InTurn, NEW t \in Threads, EmitFailure(t)
  PROVE  InTurn'
<1>1. /\ thread[t].pc = "failEvidence" /\ Suspend(t, "failDlq", thread[t].step, {})
      /\ UNCHANGED <<run, delayKey, alarm, queue>>
  BY DEF EmitFailure
<1>2. Calm(run, run') /\ GraceSeq(run', delayKey', alarm')
  BY <1>1, CalmSame, GraceKeeps
<1>3. PICK th : /\ thread' = [thread EXCEPT ![t] = th] /\ th.pc = "failDlq"
                /\ th.step = thread[t].step /\ th.call = thread[t].call
  BY <1>1, SuspendTo
<1>4. ThreadSeq(thread[t], run)
  BY DEF InTurn
<1>5. ThreadSeq(th, run)
  BY <1>1, <1>3, <1>4 DEF ThreadSeq, HolderOK, Held
<1>6. \A q \in Steps : Holds(th, q) => Holds(thread[t], q)
  BY <1>1, <1>3 DEF Holds, Held
<1>7. queue' \in [AllSteps -> Nat] /\ \A q \in Steps : queue'[q] <= queue[q]
  BY <1>1, QueueSame
<1> QED
  BY <1>2, <1>3, <1>5, <1>6, <1>7, CalmKeeps

-----------------------------------------------------------------------------
(* The requests of the executors *)

\* The thread that has the message of a forward step has the turn.
LEMMA TurnOf ==
  ASSUME IInv, InTurn, NEW t \in Threads, thread[t].pc \in Held, thread[t].step \in Steps
  PROVE  /\ HolderOK(thread[t], run) /\ Current(run, thread[t].step)
         /\ \A q \in Steps : queue[q] = 0
         /\ \A u \in Threads \ {t}, q \in Steps : ~Holds(thread[u], q)
         /\ \A q \in Steps \ {thread[t].step} : ~Current(run, q)
<1>1. Holds(thread[t], thread[t].step)
  BY DEF Holds
<1>2. HolderOK(thread[t], run)
  BY DEF InTurn, ThreadSeq
<1> QED
  BY <1>1, <1>2, HolderFacts

\* Without a message to hold, the thread returns and nothing else happens.
LEMMA ReturnInTurn ==
  ASSUME IInv, InTurn, NEW t \in Threads, Return(t), UNCHANGED <<delayKey, alarm, queue>>,
         run'.step = run.step, run'.att = run.att, run'.status = run.status
  PROVE  InTurn'
<1>1. Calm(run, run') /\ GraceSeq(run', delayKey', alarm')
  BY CalmSame, GraceKeeps
<1>2. PICK th : /\ thread' = [thread EXCEPT ![t] = th] /\ ThreadSeq(th, run)
                /\ \A s \in Steps : ~Holds(th, s)
  BY ReturnSeq
<1>3. queue' \in [AllSteps -> Nat] /\ \A s \in Steps : queue'[s] <= queue[s]
  BY QueueSame
<1> QED
  BY <1>1, <1>2, <1>3, CalmKeeps

\* An action that moves only compensations, of a run that is undone.
LEMMA CompMoves ==
  ASSUME IInv, InTurn, NEW t \in Threads, Undone(run), UNCHANGED delayKey, run'.status = run.status,
         Undone(run'), \A s \in Steps : run'.step[s] = run.step[s] /\ run'.att[s] = run.att[s],
         NEW th, thread' = [thread EXCEPT ![t] = th], ThreadSeq(th, run),
         \A s \in Steps : ~Holds(th, s),
         queue' \in [AllSteps -> Nat], \A s \in Steps : queue'[s] <= queue[s]
  PROVE  InTurn'
<1>1. Calm(run, run')
  BY DEF Calm
<1>2. RunSeq(run') /\ run'.status # "running"
  BY <1>1, CalmRun, UndoneOver DEF InTurn
<1>3. GraceSeq(run', delayKey', alarm')
  BY <1>2, GraceOver
<1> QED
  BY <1>1, <1>3, CalmKeeps

\* A thread that works on a compensation.
LEMMA CompThread ==
  ASSUME NEW th, NEW r, th.step \in Comps, Undone(r),
         th.pc \in {"handler", "replay", "threw", "progress", "evidence", "failEvidence", "failDlq"},
         th.pc = "threw" => r.status = "failed"
  PROVE  ThreadSeq(th, r) /\ \A s \in Steps : ~Holds(th, s)
  BY StepSets DEF ThreadSeq, Holds

\* The current step moves on, and the steps around it stay.
LEMMA MoveRun ==
  ASSUME NEW r, RunSeq(r), NEW s \in Steps, r.step[s] \in {"running", "failed", "dlq"},
         NEW v \in {"running", "dlq", "completed"}, NEW r2, r2.status = r.status,
         \A q \in Steps : r2.step[q] = IF q = s THEN v ELSE r.step[q],
         \A q \in Steps : r.att[q] >= 1 => r2.att[q] >= 1,
         v = "running" => ~NeverRetried
  PROVE  /\ RunSeq(r2) /\ Onward(r, r2)
         /\ \A q \in Steps : s < q => r2.step[q] = "pending"
<1>1. \A q \in Steps : /\ s < q => r.step[q] = "pending"
                       /\ q < s => r.step[q] \in Settled
  BY DEF RunSeq, Settled
<1>2. r.status # "none" /\ r.status # "completed"
  BY DEF RunSeq, Settled
<1>3. \A p, q \in Steps : q < p /\ r2.step[p] # "pending" => r2.step[q] \in Settled
  BY <1>1, StepNumbers DEF RunSeq, Settled
<1>4. \A q \in Steps : r2.step[q] # "absent" /\ (r2.step[q] = "waiting" => r2.status = "running")
  BY DEF RunSeq
<1>5. NeverRetried =>
        \A q \in Steps :
          /\ r2.step[q] \in {"running", "failed", "dlq"} => r2.att[q] >= 1
          /\ r2.step[q] = "running" => r2.status = "running"
  BY DEF RunSeq
<1>6. RunSeq(r2)
  BY <1>2, <1>3, <1>4, <1>5 DEF RunSeq
<1>7. Onward(r, r2)
  BY DEF Onward
<1>8. \A q \in Steps : s < q => r2.step[q] = "pending"
  BY <1>1, StepNumbers
<1> QED
  BY <1>6, <1>7, <1>8

LEMMA CompleteInTurn ==
  ASSUME IInv, InTurn, NEW t \in Threads, thread[t].pc \in {"handler", "replay"},
         NEW call, CompleteCall(t, thread[t].step, call)
  PROVE  InTurn'
<1> DEFINE s == thread[t].step
           th == [pc |-> "progress", step |-> s, todo |-> {}, call |-> call]
<1>0. s \in AllSteps /\ thread[t].pc \in Held /\ UNCHANGED <<delayKey, alarm, queue>>
  BY IInvFacts DEF ThreadOK, Held, CompleteCall
<1>1. CASE run.step[s] # "running"
  <2>1. UNCHANGED run /\ Return(t)
    BY <1>1 DEF CompleteCall
  <2> QED
    BY <1>0, <2>1, ReturnInTurn
<1>2. CASE run.step[s] = "running"
  <2>1. run' = [run EXCEPT !.step[s] = "completed"] /\ thread' = [thread EXCEPT ![t] = th]
    BY <1>2 DEF CompleteCall
  <2>2. /\ run'.status = run.status /\ run'.att = run.att
        /\ \A q \in AllSteps : run'.step[q] = IF q = s THEN "completed" ELSE run.step[q]
    BY <1>0, <2>1, IInvFacts DEF RunType
  <2>3. queue' \in [AllSteps -> Nat] /\ \A q \in Steps : queue'[q] <= queue[q]
    BY <1>0, QueueSame
  <2>4. th.pc = "progress" /\ th.step = s /\ th.todo = {}
    OBVIOUS
  <2> HIDE DEF th
  <2>5. CASE s \in Comps
    <3>1. Undone(run) /\ Undone(run')
      BY <1>0, <1>2, <2>2, <2>5 DEF Undone
    <3>2. ThreadSeq(th, run) /\ \A q \in Steps : ~Holds(th, q)
      BY <2>4, <2>5, <3>1, CompThread
    <3>3. \A q \in Steps : run'.step[q] = run.step[q] /\ run'.att[q] = run.att[q]
      BY <2>2, <2>5, StepSets
    <3> QED
      BY <1>0, <2>1, <2>2, <2>3, <3>1, <3>2, <3>3, CompMoves
  <2>6. CASE s \in Steps
    <3>1. /\ HolderOK(thread[t], run) /\ \A q \in Steps : queue[q] = 0
          /\ \A u \in Threads \ {t}, q \in Steps : ~Holds(thread[u], q)
          /\ \A q \in Steps \ {s} : ~Current(run, q)
      BY <1>0, <2>6, TurnOf
    <3>2. run.status = "running" /\ RunSeq(run)
      BY <1>2, <3>1 DEF HolderOK, Open, InTurn, Done
    <3>3. \A q \in Steps : /\ run'.step[q] = IF q = s THEN "completed" ELSE run.step[q]
                           /\ run.att[q] >= 1 => run'.att[q] >= 1
      BY <2>2, StepNumbers
    <3>4. /\ RunSeq(run') /\ Onward(run, run')
          /\ \A q \in Steps : s < q => run'.step[q] = "pending"
      BY <1>2, <2>2, <2>6, <3>2, <3>3, MoveRun
    <3>5. Done(run', s)
      BY <2>2, <2>6, <3>2, <3>3, <3>4 DEF Done
    <3>6. ThreadSeq(th, run')
      BY <2>4, <2>6, <3>5, StepSets DEF ThreadSeq, HolderOK
    <3>7. GraceSeq(run', delayKey', alarm')
      BY <1>0, <2>2, GraceKeeps, StepNumbers
    <3>8. Undone(run) => Undone(run')
      BY <2>2, <2>6, StepSets DEF Undone
    <3>9. \A q \in Steps : queue'[q] > 0 => Open(run', q) /\ queue'[q] = 1 /\ ~Holds(th, q)
      BY <1>0, <3>1
    <3> QED
      BY <2>1, <3>1, <3>4, <3>6, <3>7, <3>8, <3>9, TurnKeeps
  <2> QED
    BY <1>0, <2>5, <2>6, StepSets
<1> QED
  BY <1>1, <1>2

LEMMA FailInTurn ==
  ASSUME IInv, InTurn, NEW t \in Threads,
         \/ thread[t].pc = "handler" /\ MaxFailures # 0
         \/ thread[t].pc = "threw" /\ thread[t].call = "complete",
         FailCall(t, thread[t].step)
  PROVE  InTurn'
<1> DEFINE s == thread[t].step
           failed == [run EXCEPT !.att[s] = @ + 1]
           th == [pc |-> "failEvidence", step |-> s, todo |-> {}, call |-> "fail"]
<1>0. /\ s \in AllSteps /\ thread[t].pc \in Held /\ UNCHANGED <<delayKey, queue>>
      /\ MaxRetries[s] \in Nat
  BY IInvFacts, DefinitionAssumption DEF ThreadOK, Held, FailCall
<1>1. /\ failed \in RunType /\ failed.status = run.status /\ failed.step = run.step
      /\ run.att[s] \in Nat /\ failed.att[s] = run.att[s] + 1
      /\ failed.att = [run.att EXCEPT ![s] = @ + 1]
  BY <1>0, IInvFacts DEF RunType
<1>2. CASE run.step[s] = "absent" /\ Return(t) /\ UNCHANGED <<run, stored, alarm>>
  BY <1>0, <1>2, ReturnInTurn
<1>3. CASE \/ run' = [failed EXCEPT !.step[s] = "running"] /\ Return(t) /\ failed.att[s] <= MaxRetries[s]
           \/ run' = [failed EXCEPT !.step[s] = "dlq"] /\ thread' = [thread EXCEPT ![t] = th]
  <2> HIDE DEF failed
  <2>1. PICK v \in {"running", "dlq"} :
          /\ run' = [failed EXCEPT !.step[s] = v]
          /\ v = "running" => Return(t) /\ failed.att[s] <= MaxRetries[s]
          /\ v = "dlq" => thread' = [thread EXCEPT ![t] = th]
    BY <1>3
  <2>2. /\ run'.status = run.status /\ run'.att = failed.att
        /\ \A q \in AllSteps : run'.step[q] = IF q = s THEN v ELSE run.step[q]
    BY <1>0, <1>1, <2>1 DEF RunType
  <2>3. \A q \in Steps : run'.att[q] = IF q = s THEN run.att[s] + 1 ELSE run.att[q]
    BY <1>0, <1>1, <2>2, StepNumbers, IInvFacts DEF RunType
  <2>4. queue' \in [AllSteps -> Nat] /\ \A q \in Steps : queue'[q] <= queue[q]
    BY <1>0, QueueSame
  <2>5. PICK th2 : /\ thread' = [thread EXCEPT ![t] = th2]
                   /\ \/ th2.pc \in {"idle", "insert"}
                      \/ /\ th2.pc = "failEvidence" /\ th2.step = s /\ th2.call = "fail"
                         /\ v = "dlq"
    <3>1. th.pc = "failEvidence" /\ th.step = s /\ th.call = "fail"
      OBVIOUS
    <3> HIDE DEF th
    <3> QED
      BY <2>1, <3>1, ReturnTo
  <2>6. CASE s \in Comps /\ run.step[s] # "absent"
    <3>1. Undone(run) /\ Undone(run')
      BY <1>0, <2>2, <2>6 DEF Undone
    <3>2. ThreadSeq(th2, run) /\ \A q \in Steps : ~Holds(th2, q)
      BY <2>5, <2>6, <3>1, CompThread, RestingSeq
    <3>3. \A q \in Steps : run'.step[q] = run.step[q] /\ run'.att[q] = run.att[q]
      BY <2>2, <2>3, <2>6, StepSets
    <3> QED
      BY <1>0, <2>2, <2>4, <2>5, <3>1, <3>2, <3>3, CompMoves
  <2>7. CASE s \in Steps
    <3>1. /\ HolderOK(thread[t], run) /\ \A q \in Steps : queue[q] = 0
          /\ \A u \in Threads \ {t}, q \in Steps : ~Holds(thread[u], q)
          /\ \A q \in Steps \ {s} : ~Current(run, q)
      BY <1>0, <2>7, TurnOf
    <3>2. run.step[s] \in {"running", "failed", "dlq"} /\ RunSeq(run)
      BY <3>1 DEF HolderOK, Open, InTurn
    <3>3. \A q \in Steps : /\ run'.step[q] = IF q = s THEN v ELSE run.step[q]
                           /\ run.att[q] >= 1 => run'.att[q] >= 1
      <4>1. \A q \in Steps : run'.step[q] = IF q = s THEN v ELSE run.step[q]
        BY <2>2, StepNumbers
      <4>2. ASSUME NEW q \in Steps, run.att[q] >= 1 PROVE run'.att[q] >= 1
        <5>1. run.att[s] >= 1 => run.att[s] + 1 >= 1
          BY <1>1
        <5> QED
          BY <2>3, <4>2, <5>1
      <4> QED
        BY <4>1, <4>2
    <3>4. v = "running" => ~NeverRetried
      <4> SUFFICES ASSUME v = "running", NeverRetried PROVE FALSE
        OBVIOUS
      <4>1. run.att[s] + 1 <= MaxRetries[s]
        BY <1>1, <2>1
      <4>2. MaxRetries[s] <= 1
        BY <2>7, <3>1 DEF NeverRetried, HolderOK
      <4>3. run.att[s] >= 1
        BY <2>7, <3>2 DEF RunSeq
      <4> QED
        BY <1>0, <1>1, <4>1, <4>2, <4>3
    <3>5. RunSeq(run') /\ Onward(run, run')
      BY <2>2, <2>7, <3>2, <3>3, <3>4, MoveRun
    <3>6. ThreadSeq(th2, run')
      BY <2>2, <2>5, <2>7, RestingSeq, StepSets DEF ThreadSeq, HolderOK
    <3>7. GraceSeq(run', delayKey', alarm')
      <4>1. \A q \in Steps : run'.step[q] # "waiting"
        BY <2>2, <2>7, <3>1, StepNumbers DEF Current, Busy
      <4> QED
        BY <4>1 DEF GraceSeq
    <3>8. Undone(run) => Undone(run')
      BY <2>2, <2>7, StepSets DEF Undone
    <3>9. \A q \in Steps : queue'[q] > 0 => Open(run', q) /\ queue'[q] = 1 /\ ~Holds(th2, q)
      BY <1>0, <3>1
    <3> QED
      BY <2>5, <3>1, <3>5, <3>6, <3>7, <3>8, <3>9, TurnKeeps
  <2>8. s \in Comps => run.step[s] # "absent" \/ (run.step[s] = "absent" /\ Return(t) /\ UNCHANGED <<run, stored, alarm>>)
    BY DEF FailCall
  <2> QED
    BY <1>0, <1>2, <2>6, <2>7, <2>8, StepSets
<1> QED
  BY <1>2, <1>3 DEF FailCall, Save

\* The budgets are counters; one that is zero is never spent.
SpentOK == spent \in [failures : Nat, redeliveries : Nat, losses : Nat, evictions : Nat]

LEMMA ExecuteInTurn ==
  ASSUME IInv, SpentOK, InTurn, NEW w \in Executors, Execute(w)
  PROVE  InTurn'
<1>0. w \in Threads /\ thread[w] \in ThreadType /\ ThreadOK(thread[w], run, stored)
  BY ThreadNames, IInvFacts
<1>1. CASE HandlerSucceeds(w) \/ Replay(w)
  BY <1>0, <1>1, CompleteInTurn DEF HandlerSucceeds, Replay
<1>2. CASE HandlerFails(w)
  <2>1. MaxFailures # 0
    BY <1>2 DEF HandlerFails, Spend, SpentOK, Budget
  <2> QED
    BY <1>0, <1>2, <2>1, FailInTurn DEF HandlerFails
<1>3. CASE Rejected(w) /\ thread[w].call = "complete"
  BY <1>0, <1>3, FailInTurn DEF Rejected
<1>4. CASE Rejected(w) /\ thread[w].call # "complete"
  <2> DEFINE s == thread[w].step
  <2>1. /\ thread[w].pc = "threw" /\ thread[w].pc \in Held /\ s \in AllSteps
        /\ Publish(s) /\ Return(w) /\ UNCHANGED <<run, delayKey, alarm>>
    BY <1>0, <1>4 DEF Rejected, Held, ThreadOK
  <2>2. Calm(run, run') /\ GraceSeq(run', delayKey', alarm')
    BY <2>1, CalmSame, GraceKeeps
  <2>3. PICK th : /\ thread' = [thread EXCEPT ![w] = th] /\ ThreadSeq(th, run)
                  /\ \A q \in Steps : ~Holds(th, q)
    BY <1>0, <2>1, ReturnSeq
  <2>4. CASE s \in Comps
    <3>1. queue' \in [AllSteps -> Nat] /\ \A q \in Steps : queue'[q] = queue[q]
      BY <2>1, <2>4, OtherMessage
    <3>2. \A q \in Steps : queue'[q] <= queue[q]
      BY <3>1, IInvFacts, StepNumbers
    <3> QED
      BY <1>0, <2>2, <2>3, <3>1, <3>2, CalmKeeps
  <2>5. CASE s \in Steps
    <3>1. /\ HolderOK(thread[w], run) /\ \A q \in Steps : queue[q] = 0
          /\ \A u \in Threads \ {w}, q \in Steps : ~Holds(thread[u], q)
      BY <1>0, <2>1, <2>5, TurnOf
    <3>2. run.step[s] = "dlq"
      BY <2>1, <3>1 DEF HolderOK
    <3>3. \A q \in Steps : queue'[q] = IF q = s THEN 1 ELSE 0
      BY <2>1, <3>1, IInvFacts, StepNumbers DEF Publish
    <3>4. Open(run', s)
      BY <2>1, <3>2 DEF Open
    <3>5. \A q \in Steps : queue'[q] > 0 => Open(run', q) /\ queue'[q] = 1 /\ ~Holds(th, q)
      BY <2>3, <3>3, <3>4
    <3>6. RunSeq(run') /\ ThreadSeq(th, run') /\ Onward(run, run') /\ (Undone(run) => Undone(run'))
      BY <2>1, <2>3 DEF InTurn, Onward
    <3> QED
      BY <1>0, <2>2, <2>3, <3>1, <3>5, <3>6, TurnKeeps
  <2> QED
    BY <2>1, <2>4, <2>5, StepSets
<1> QED
  BY <1>1, <1>2, <1>3, <1>4 DEF Execute, Rejected

LEMMA DeliverInTurn ==
  ASSUME IInv, SpentOK, MaxRedeliveries = 0, InTurn, NEW w \in Executors, NEW s \in AllSteps,
         Deliver(w, s)
  PROVE  InTurn'
<1>0. w \in Threads /\ thread[w] \in ThreadType
  BY ThreadNames, IInvFacts
<1>1. queue[s] > 0 /\ Take(s) /\ UNCHANGED <<run, delayKey, alarm>>
  BY DEF Deliver, Receive, Spend, SpentOK, Budget
<1>2. queue' = [queue EXCEPT ![s] = @ - 1] /\ queue \in [AllSteps -> Nat]
  BY <1>1, IInvFacts DEF Take
<1>3. /\ queue' \in [AllSteps -> Nat] /\ queue'[s] < queue[s]
      /\ \A q \in Steps : queue'[q] <= queue[q]
  BY <1>1, <1>2, StepNumbers
<1>4. Calm(run, run') /\ GraceSeq(run', delayKey', alarm')
  BY <1>1, CalmSame, GraceKeeps
<1>5. PICK th : /\ thread' = [thread EXCEPT ![w] = th]
                /\ th = thread[w] \/ (th.pc \in {"handler", "replay"} /\ th.step = s)
  <2>1. CASE UNCHANGED thread
    BY <2>1 DEF IInv
  <2>2. CASE \E next \in {"handler", "replay"} : Suspend(w, next, s, {})
    BY <1>0, <2>2, SuspendTo
  <2> QED
    BY <2>1, <2>2 DEF Deliver
<1>6. ThreadSeq(th, run)
  <2>1. CASE th = thread[w]
    BY <1>0, <2>1 DEF InTurn
  <2>2. CASE th.pc \in {"handler", "replay"} /\ th.step = s
    <3>1. s \in Steps => Open(run, s)
      BY <1>1 DEF InTurn, TokenSeq
    <3> QED
      BY <2>2, <3>1 DEF ThreadSeq, HolderOK
  <2> QED
    BY <1>5, <2>1, <2>2
<1>7. \A q \in Steps : Holds(th, q) => Holds(thread[w], q) \/ queue'[q] < queue[q]
  BY <1>3, <1>5 DEF Holds
<1> QED
  BY <1>0, <1>3, <1>4, <1>5, <1>6, <1>7, CalmKeeps

LEMMA LoseInTurn ==
  ASSUME IInv, InTurn, NEW s \in AllSteps, Lose(s)
  PROVE  InTurn'
<1>1. /\ queue[s] > 0 /\ queue' = [queue EXCEPT ![s] = @ - 1] /\ queue \in [AllSteps -> Nat]
      /\ UNCHANGED <<run, delayKey, alarm, thread>>
  BY IInvFacts DEF Lose, Take
<1>2. queue' \in [AllSteps -> Nat] /\ \A q \in Steps : queue'[q] <= queue[q]
  BY <1>1, StepNumbers
<1>3. Calm(run, run') /\ GraceSeq(run', delayKey', alarm')
  BY <1>1, CalmSame, GraceKeeps
<1>4. thread' = [thread EXCEPT ![Alarm] = thread[Alarm]] /\ ThreadSeq(thread[Alarm], run)
  BY <1>1, ThreadNames DEF IInv, InTurn
<1> QED
  BY <1>2, <1>3, <1>4, ThreadNames, CalmKeeps

-----------------------------------------------------------------------------
(* The end of a completion and of a failure *)

\* The run stops, or stays as it is, at a step that has failed.
LEMMA StopRun ==
  ASSUME NEW r, RunSeq(r), NEW s \in Steps, r.step[s] \in {"failed", "dlq"},
         NEW r2, \A q \in Steps : r2.step[q] = r.step[q] /\ r2.att[q] = r.att[q],
         r2.status \in {"compensating", "failed", r.status},
         r.status = "failed" => r2.status = "failed"
  PROVE  /\ RunSeq(r2) /\ Onward(r, r2)
         /\ \A q \in Steps : r2.step[q] # "waiting"
<1>1. \A q \in Steps : r.step[q] \notin {"waiting", "running"}
  BY OneCurrent DEF Current, Busy
<1>2. r.status # "none" /\ r.status # "completed"
  BY DEF RunSeq, Settled
<1> QED
  BY <1>1, <1>2 DEF RunSeq, Onward

LEMMA FinishCompletionInTurn ==
  ASSUME IInv, InTurn, Parallel = {}, NEW t \in Threads, FinishCompletion(t)
  PROVE  InTurn'
<1> DEFINE s == thread[t].step
<1>0. /\ thread[t].pc = "evidence" /\ thread[t].pc \in Held /\ s \in AllSteps
      /\ run \in RunType /\ SafeRun(run) /\ RunSeq(run)
  BY IInvFacts DEF FinishCompletion, ThreadOK, Held, RunPair, InTurn
<1>1. CASE Return(t) /\ UNCHANGED <<run, stored, delayKey, alarm, queue, dlq, row>>
  BY <1>1, ReturnInTurn
<1>2. CASE s \in Comps /\ EndWith(t, "failed")
  <2>1. Undone(run) /\ run.status # "running"
    BY <1>0, <1>2, UndoneOver DEF InTurn, ThreadSeq
  <2>2. UNCHANGED <<delayKey, queue>>
    BY <1>2 DEF EndWith
  <2>3. queue' \in [AllSteps -> Nat] /\ \A q \in Steps : queue'[q] <= queue[q]
    BY <2>2, QueueSame
  <2>4. CASE /\ CanGo(run, "failed") /\ Save([run EXCEPT !.status = "failed"])
             /\ Suspend(t, "final", s, {})
    <3>1. run'.status = "failed" /\ run'.step = run.step /\ run'.att = run.att
      BY <1>0, <2>4 DEF Save, RunType
    <3>2. Calm(run, run')
      BY <2>1, <2>4, <3>1 DEF Calm, CanGo, Undone
    <3>3. GraceSeq(run', delayKey', alarm')
      BY <1>0, <3>1, <3>2, CalmRun, GraceOver
    <3>4. PICK th : thread' = [thread EXCEPT ![t] = th] /\ th.pc = "final"
      BY <2>4, SuspendTo
    <3>5. ThreadSeq(th, run) /\ \A q \in Steps : ~Holds(th, q)
      BY <3>4, RestingSeq
    <3> QED
      BY <2>3, <3>2, <3>3, <3>4, <3>5, CalmKeeps
  <2>5. CASE ~CanGo(run, "failed") /\ Throw(t) /\ UNCHANGED run
    <3>1. PICK th : thread' = [thread EXCEPT ![t] = th] /\ th.pc = "threw" /\ th.step = s
      BY <2>5, ThrowTo
    <3>2. run.status = "failed"
      BY <2>1, <2>5, UndoneOver DEF CanGo
    <3>3. ThreadSeq(th, run) /\ \A q \in Steps : ~Holds(th, q)
      BY <1>2, <2>1, <3>1, <3>2, CompThread
    <3> QED
      BY <2>1, <2>2, <2>3, <2>5, <3>1, <3>3, CompMoves
  <2> QED
    BY <1>2, <2>4, <2>5 DEF EndWith
<1>3. CASE s \in Steps
  <2>1. /\ HolderOK(thread[t], run) /\ \A q \in Steps : queue[q] = 0
        /\ \A u \in Threads \ {t}, q \in Steps : ~Holds(thread[u], q)
    BY <1>0, <1>3, TurnOf
  <2>2. Done(run, s)
    BY <1>0, <2>1 DEF HolderOK
  <2>3. run.status = "running" /\ \A q \in Steps : run.step[q] \in Settled \cup {"pending"}
    <3>1. \A q \in Steps : q < s => run.step[q] \in Settled
      BY <1>0, <1>3, <2>2 DEF RunSeq, Done
    <3>2. \A q \in Steps : q < s \/ q = s \/ s < q
      BY <1>3, Trichotomy
    <3> QED
      BY <2>2, <3>1, <3>2 DEF Done, Settled
  <2>4. CASE Pending(run) = {} /\ EndWith(t, "completed")
    <3>1. Save([run EXCEPT !.status = "completed"]) /\ Suspend(t, "final", s, {}) /\ UNCHANGED queue
      BY <2>3, <2>4 DEF EndWith, CanGo
    <3>2. run'.status = "completed" /\ run'.step = run.step /\ run'.att = run.att
      BY <1>0, <3>1 DEF Save, RunType
    <3>3. \A q \in Steps : run.step[q] \in Settled
      BY <2>3, <2>4 DEF Pending, In
    <3>4. /\ RunSeq(run') /\ Onward(run, run') /\ GraceSeq(run', delayKey', alarm')
          /\ (Undone(run) => Undone(run'))
      BY <2>3, <3>2, <3>3 DEF RunSeq, Onward, GraceSeq, Settled, Undone
    <3>5. PICK th : thread' = [thread EXCEPT ![t] = th] /\ th.pc = "final"
      BY <3>1, SuspendTo
    <3>6. ThreadSeq(th, run') /\ \A q \in Steps : ~Holds(th, q)
      BY <3>5, RestingSeq
    <3>7. \A q \in Steps : queue'[q] > 0 => Open(run', q) /\ queue'[q] = 1 /\ ~Holds(th, q)
      BY <2>1, <3>1
    <3> QED
      BY <2>1, <3>4, <3>5, <3>6, <3>7, TurnKeeps
  <2>5. CASE Advance(t, run, stored, alarm)
    <3>1. /\ RunSeq(run') /\ Onward(run, run') /\ GraceSeq(run', delayKey', alarm')
          /\ \A q \in Steps : queue'[q] > 0 => Open(run', q) /\ queue'[q] = 1
          /\ \E th : /\ thread' = [thread EXCEPT ![t] = th] /\ ThreadSeq(th, run')
                     /\ \A q \in Steps : ~Holds(th, q)
      BY <1>0, <2>1, <2>3, <2>5, AdvanceInTurn
    <3>2. Undone(run) => Undone(run')
      BY <2>3, UndoneOver
    <3> QED
      BY <2>1, <3>1, <3>2, TurnKeeps
  <2> QED
    BY <1>1, <1>3, <2>4, <2>5, StepSets DEF FinishCompletion
<1> QED
  BY <1>0, <1>1, <1>2, <1>3, StepSets DEF FinishCompletion

\* A status is set, and nothing else that InTurn is about.
LEMMA SetStatus ==
  ASSUME NEW r \in RunType, NEW v
  PROVE  LET r2 == [r EXCEPT !.status = v]
         IN r2.status = v /\ r2.step = r.step /\ r2.att = r.att /\ r2.due = r.due
  BY DEF RunType

LEMMA FinishFailureInTurn ==
  ASSUME IInv, InTurn, NEW t \in Threads, FinishFailure(t)
  PROVE  InTurn'
<1> DEFINE s == thread[t].step
<1>0. /\ thread[t].pc = "failDlq" /\ thread[t].pc \in Held /\ s \in AllSteps
      /\ run \in RunType /\ RunSeq(run) /\ UNCHANGED delayKey
  BY IInvFacts DEF FinishFailure, ThreadOK, Held, InTurn
<1>1. CASE s \in Comps
  <2>1. Undone(run) /\ run.status # "running"
    BY <1>0, <1>1, UndoneOver DEF InTurn, ThreadSeq
  <2>2. /\ UNCHANGED queue
        /\ \/ /\ CanGo(run, "failed") /\ Save([run EXCEPT !.status = "failed"])
              /\ Return(t)
           \/ ~CanGo(run, "failed") /\ Throw(t) /\ UNCHANGED run
           \/ Save(run) /\ Return(t)
    BY <1>0, <1>1, StepSets DEF FinishFailure
  <2>3. queue' \in [AllSteps -> Nat] /\ \A q \in Steps : queue'[q] <= queue[q]
    BY <2>2, QueueSame
  <2>4. CASE CanGo(run, "failed") /\ Save([run EXCEPT !.status = "failed"]) /\ Return(t)
    <3>1. run'.status = "failed" /\ run'.step = run.step /\ run'.att = run.att
      BY <1>0, <2>4, SetStatus DEF Save
    <3>2. Calm(run, run')
      BY <2>1, <2>4, <3>1 DEF Calm, CanGo, Undone
    <3>3. GraceSeq(run', delayKey', alarm')
      BY <1>0, <3>1, <3>2, CalmRun, GraceOver
    <3>4. PICK th : /\ thread' = [thread EXCEPT ![t] = th] /\ ThreadSeq(th, run)
                    /\ \A q \in Steps : ~Holds(th, q)
      BY <2>4, ReturnSeq
    <3> QED
      BY <2>3, <3>2, <3>3, <3>4, CalmKeeps
  <2>5. CASE ~CanGo(run, "failed") /\ Throw(t) /\ UNCHANGED run
    <3>1. PICK th : thread' = [thread EXCEPT ![t] = th] /\ th.pc = "threw" /\ th.step = s
      BY <2>5, ThrowTo
    <3>2. run.status = "failed"
      BY <2>1, <2>5, UndoneOver DEF CanGo
    <3>3. ThreadSeq(th, run) /\ \A q \in Steps : ~Holds(th, q)
      BY <1>1, <2>1, <3>1, <3>2, CompThread
    <3> QED
      BY <1>0, <2>1, <2>3, <2>5, <3>1, <3>3, CompMoves
  <2>6. CASE Save(run) /\ Return(t)
    <3>1. PICK th : /\ thread' = [thread EXCEPT ![t] = th] /\ ThreadSeq(th, run)
                    /\ \A q \in Steps : ~Holds(th, q)
      BY <2>6, ReturnSeq
    <3>2. run' = run
      BY <2>6 DEF Save
    <3> QED
      BY <1>0, <2>1, <2>3, <3>1, <3>2, CompMoves
  <2> QED
    BY <2>2, <2>4, <2>5, <2>6
<1>2. CASE s \in Steps
  <2>1. /\ HolderOK(thread[t], run) /\ \A q \in Steps : queue[q] = 0
        /\ \A u \in Threads \ {t}, q \in Steps : ~Holds(thread[u], q)
    BY <1>0, <1>2, TurnOf
  <2>2. run.step[s] = "dlq" /\ thread[t].call = "fail"
    BY <1>0, <2>1 DEF HolderOK
  <2>3. ASSUME NEW th, thread' = [thread EXCEPT ![t] = th], ThreadSeq(th, run'),
               Undone(run) => Undone(run'),
               \A q \in Steps : run'.step[q] = run.step[q] /\ run'.att[q] = run.att[q],
               run'.status \in {"compensating", "failed", run.status},
               run.status = "failed" => run'.status = "failed",
               \A q \in Steps : queue'[q] = queue[q]
        PROVE  InTurn'
    <3>1. /\ RunSeq(run') /\ Onward(run, run')
          /\ \A q \in Steps : run'.step[q] # "waiting"
      BY <1>0, <1>2, <2>2, <2>3, StopRun
    <3>2. GraceSeq(run', delayKey', alarm')
      BY <3>1 DEF GraceSeq
    <3>3. \A q \in Steps : queue'[q] > 0 => Open(run', q) /\ queue'[q] = 1 /\ ~Holds(th, q)
      BY <2>1, <2>3
    <3> QED
      BY <2>1, <2>3, <3>1, <3>2, <3>3, TurnKeeps
  <2>4. CASE Save([run EXCEPT !.status = "failed"]) /\ Return(t) /\ UNCHANGED queue
    <3>1. run'.status = "failed" /\ run'.step = run.step /\ run'.att = run.att
      BY <1>0, <2>4, SetStatus DEF Save
    <3> QED
      BY <2>3, <2>4, <3>1, ReturnSeq DEF Undone
  <2>5. CASE Throw(t) /\ run' = run /\ UNCHANGED queue
    <3>1. PICK th : /\ thread' = [thread EXCEPT ![t] = th]
                    /\ th.pc = "threw" /\ th.step = s /\ th.call = "fail"
      BY <2>2, <2>5, ThrowTo
    <3>2. ThreadSeq(th, run')
      BY <1>2, <2>2, <2>5, <3>1, StepSets DEF ThreadSeq, HolderOK
    <3> QED
      BY <2>3, <2>5, <3>1, <3>2
  <2>6. CASE /\ run.status = "running"
             /\ PushComp(t, [run EXCEPT !.status = "compensating"], run, Comps)
    <3> DEFINE r == [run EXCEPT !.status = "compensating"]
    <3>1. r \in RunType /\ r.status = "compensating" /\ r.step = run.step /\ r.att = run.att
      <4>1. "compensating" \in RunStatus
        BY DEF RunStatus
      <4>2. r \in RunType
        BY <1>0, <4>1, SetStatusFacts
      <4>3. r.status = "compensating" /\ r.step = run.step /\ r.att = run.att
        BY <1>0, SetStatus
      <4> QED
        BY <4>2, <4>3
    <3>2. PushComp(t, r, run, Comps)
      BY <2>6
    <3> HIDE DEF r
    <3>3. /\ Calm(r, run') /\ run'.status = "compensating" /\ \A q \in Steps : queue'[q] = queue[q]
          /\ \E th : thread' = [thread EXCEPT ![t] = th] /\ ThreadSeq(th, run')
      BY <3>1, <3>2, PushCompFacts
    <3>4. \A q \in Steps : run'.step[q] = run.step[q] /\ run'.att[q] = run.att[q]
      <4>1. \A q \in Steps : r.step[q] # "running"
        BY <1>0, <1>2, <2>2, <3>1, OneCurrent DEF Current, Busy
      <4> QED
        BY <3>1, <3>3, <4>1 DEF Calm
    <3>5. Undone(run) => Undone(run')
      BY <3>1, <3>3 DEF Calm, Undone
    <3> QED
      BY <2>3, <2>6, <3>3, <3>4, <3>5
  <2> QED
    BY <1>2, <2>4, <2>5, <2>6, StepSets DEF FinishFailure, Compensate, CanGo, Save
<1> QED
  BY <1>0, <1>1, <1>2, StepSets

-----------------------------------------------------------------------------
(* alarm() *)

\* What the alarm hands on: the run as it was, or with late forward steps failed.
Late(r, r2) == r2 \in RunType /\ Calm(r, r2) /\ r2.status = r.status

\* The alarm's handler moves on, and whatever it did is calm.
LEMMA AlarmKeeps ==
  ASSUME IInv, InTurn, Calm(run, run'), GraceSeq(run', delayKey', alarm'),
         \E th : /\ thread' = [thread EXCEPT ![Alarm] = th] /\ ThreadSeq(th, run)
                 /\ \A s \in Steps : ~Holds(th, s),
         queue' \in [AllSteps -> Nat], \A s \in Steps : queue'[s] = queue[s]
  PROVE  InTurn'
<1>1. PICK th : /\ thread' = [thread EXCEPT ![Alarm] = th] /\ ThreadSeq(th, run)
                /\ \A s \in Steps : ~Holds(th, s)
  OBVIOUS
<1>2. \A s \in Steps : queue'[s] <= queue[s]
  BY IInvFacts, StepNumbers
<1> QED
  BY <1>1, <1>2, ThreadNames, CalmKeeps

LEMMA AlarmEndInTurn ==
  ASSUME IInv, InTurn, NEW r, Late(run, r), NEW hit, NEW al, AlarmEnd(r, hit, al),
         GraceSeq(run, delayKey', al),
         hit /\ run.status = "running" =>
           \E s \in Steps : run.step[s] = "running" /\ r.step[s] = "failed"
  PROVE  InTurn'
<1>0. r \in RunType /\ r.status = run.status /\ Alarm \in Threads /\ RunSeq(run)
  BY ThreadNames DEF Late, InTurn
<1>1. CASE /\ r.status = "running" /\ hit /\ alarm' = al
           /\ PushComp(Alarm, [r EXCEPT !.status = "compensating"], r, Comps)
  <2> DEFINE r2 == [r EXCEPT !.status = "compensating"]
  <2>1. "compensating" \in RunStatus
    BY DEF RunStatus
  <2>2. r2 \in RunType /\ r2.status = "compensating" /\ r2.step = r.step /\ r2.att = r.att
    BY <1>0, <2>1, SetStatus, SetStatusFacts
  <2>3. PushComp(Alarm, r2, r, Comps)
    BY <1>1
  <2> HIDE DEF r2
  <2>4. /\ Calm(r2, run') /\ run'.status = "compensating"
        /\ queue' \in [AllSteps -> Nat] /\ \A s \in Steps : queue'[s] = queue[s]
        /\ \E th : /\ thread' = [thread EXCEPT ![Alarm] = th] /\ ThreadSeq(th, run)
                   /\ \A s \in Steps : ~Holds(th, s)
    BY <1>0, <2>2, <2>3, PushCompFacts
  <2>5. PICK s \in Steps : run.step[s] = "running" /\ r.step[s] = "failed"
    BY <1>0, <1>1
  <2>6. run'.step[s] = "failed"
    BY <2>2, <2>4, <2>5 DEF Calm
  <2>7. \A q \in Steps : /\ \/ run'.step[q] = r.step[q]
                            \/ r.step[q] = "running" /\ run'.step[q] = "failed"
                         /\ run'.att[q] = r.att[q]
    BY <2>2, <2>4 DEF Calm
  <2>8. \A q \in Steps : /\ \/ run'.step[q] = run.step[q]
                            \/ run.step[q] = "running" /\ run'.step[q] = "failed"
                         /\ run'.att[q] = run.att[q]
    BY <2>7 DEF Late, Calm
  <2>9. Undone(run) => Undone(run')
    BY <1>0, <1>1, UndoneOver
  <2>10. Calm(run, run')
    BY <1>0, <1>1, <2>4, <2>5, <2>6, <2>8, <2>9 DEF Calm
  <2>11. GraceSeq(run', delayKey', alarm')
    BY <1>0, <2>4, <2>10, CalmRun, GraceOver
  <2> QED
    BY <2>4, <2>10, <2>11, AlarmKeeps
<1>2. CASE /\ \/ r.status = "running" /\ hit
              \/ r.status = "compensating"
           /\ Save([r EXCEPT !.status = "failed"])
           /\ Return(Alarm) /\ UNCHANGED queue
  <2>1. run'.status = "failed" /\ run'.step = r.step /\ run'.att = r.att
    BY <1>0, <1>2, SetStatus DEF Save
  <2>2. Calm(run, run')
    BY <1>0, <1>2, <2>1 DEF Late, Calm, Undone
  <2>3. GraceSeq(run', delayKey', alarm')
    BY <1>0, <2>1, <2>2, CalmRun, GraceOver
  <2>4. /\ queue' \in [AllSteps -> Nat] /\ \A s \in Steps : queue'[s] = queue[s]
        /\ \E th : /\ thread' = [thread EXCEPT ![Alarm] = th] /\ ThreadSeq(th, run)
                   /\ \A s \in Steps : ~Holds(th, s)
    BY <1>0, <1>2, ReturnSeq, IInvFacts
  <2> QED
    BY <2>2, <2>3, <2>4, AlarmKeeps
<1>3. CASE /\ r.status = "compensating" \/ alarm' = al
           /\ Save(r) /\ Return(Alarm) /\ UNCHANGED queue
  <2>1. run' = r /\ Calm(run, run')
    BY <1>3 DEF Save, Late
  <2>2. GraceSeq(run', delayKey', alarm')
    <3>1. CASE r.status = "compensating"
      BY <1>0, <2>1, <3>1, CalmRun, GraceOver
    <3>2. CASE alarm' = al
      BY <2>1, <3>2 DEF GraceSeq, Calm
    <3> QED
      BY <1>3, <3>1, <3>2
  <2>3. /\ queue' \in [AllSteps -> Nat] /\ \A s \in Steps : queue'[s] = queue[s]
        /\ \E th : /\ thread' = [thread EXCEPT ![Alarm] = th] /\ ThreadSeq(th, run)
                   /\ \A s \in Steps : ~Holds(th, s)
    BY <1>0, <1>3, ReturnSeq, IInvFacts
  <2> QED
    BY <2>1, <2>2, <2>3, AlarmKeeps
<1>4. r.status = "running" => CanGo(r, "compensating")
  BY DEF CanGo
<1> QED
  BY <1>1, <1>2, <1>3, <1>4 DEF AlarmEnd, Compensate

LEMMA TimeOutInTurn ==
  ASSUME IInv, InTurn, Undone(run), NEW r, Late(run, r), NEW st, NEW al,
         NEW late \in SUBSET Comps, TimeOut(r, st, al, late)
  PROVE  InTurn'
<1>0. r \in RunType /\ Alarm \in Threads /\ RunSeq(run) /\ run.status # "running"
  BY ThreadNames, UndoneOver DEF Late, InTurn
<1>1. PICK c \in Comps : /\ run' = [r EXCEPT !.step[c] = "failed"]
                         /\ Suspend(Alarm, "alarmDlq", c, late \ {c})
                         /\ UNCHANGED queue
  BY DEF TimeOut
<1>2. /\ run'.status = r.status /\ run'.att = r.att /\ run'.step[c] = "failed"
      /\ \A s \in Steps : run'.step[s] = r.step[s]
  BY <1>0, <1>1, StepSets DEF RunType
<1>3. Calm(run, run')
  BY <1>2 DEF Late, Calm, Undone
<1>4. GraceSeq(run', delayKey', alarm')
  BY <1>0, <1>2, <1>3, CalmRun, GraceOver DEF Late
<1>5. PICK th : thread' = [thread EXCEPT ![Alarm] = th] /\ th.pc = "alarmDlq"
  BY <1>0, <1>1, SuspendTo
<1>6. ThreadSeq(th, run) /\ \A s \in Steps : ~Holds(th, s)
  BY <1>5, RestingSeq
<1>7. queue' \in [AllSteps -> Nat] /\ \A s \in Steps : queue'[s] = queue[s]
  BY <1>1, IInvFacts
<1> QED
  BY <1>3, <1>4, <1>5, <1>6, <1>7, AlarmKeeps

LEMMA LateSame ==
  ASSUME NEW r \in RunType
  PROVE  Late(r, r)
  BY DEF Late, Calm

LEMMA FailLateLate ==
  ASSUME NEW r \in RunType, NEW late, late \subseteq In(r, AllSteps, "running")
  PROVE  /\ Late(r, FailLate(r, late))
         /\ \A s \in late \cap Steps : r.step[s] = "running" /\ FailLate(r, late).step[s] = "failed"
<1> DEFINE r2 == FailLate(r, late)
<1>1. /\ r2 \in RunType /\ r2.status = r.status /\ r2.att = r.att
      /\ \A s \in AllSteps : r2.step[s] = IF s \in late \cap Steps THEN "failed" ELSE r.step[s]
  BY DEF FailLate, RunType, StepStatus
<1>2. \A s \in late : r.step[s] = "running"
  BY DEF In
<1>3. Undone(r) => Undone(r2)
  BY FailLateSame DEF Same
<1> HIDE DEF r2
<1>4. Late(r, r2)
  BY <1>1, <1>2, <1>3, StepNumbers DEF Late, Calm
<1>5. \A s \in late \cap Steps : r.step[s] = "running" /\ r2.step[s] = "failed"
  BY <1>1, <1>2, StepNumbers
<1> QED
  BY <1>4, <1>5 DEF r2

LEMMA CheckDeadlinesInTurn ==
  ASSUME IInv, InTurn, NEW st, NEW al, CheckDeadlines(run, st, al), GraceSeq(run, delayKey', al)
  PROVE  InTurn'
<1> DEFINE late == Overdue(run)
           next == FailLate(run, late)
<1>0. run \in RunType /\ Alarm \in Threads /\ late \subseteq In(run, AllSteps, "running")
  BY IInvFacts, ThreadNames DEF Overdue
<1>1. Late(run, next) /\ \A s \in late \cap Steps : run.step[s] = "running" /\ next.step[s] = "failed"
  BY <1>0, FailLateLate
<1>2. late \subseteq AllSteps /\ \A s \in late : run.step[s] = "running"
  BY DEF Overdue, In
<1>3. \/ run' = run /\ alarm' = al /\ Return(Alarm) /\ UNCHANGED queue
      \/ late \cap Comps = {} /\ AlarmEnd(next, late # {}, al)
      \/ late \cap Comps # {} /\ TimeOut(next, st, al, late \cap Comps)
  BY DEF CheckDeadlines
<1> HIDE DEF late, next
<1>4. CASE run' = run /\ alarm' = al /\ Return(Alarm) /\ UNCHANGED queue
  <2>1. Calm(run, run') /\ GraceSeq(run', delayKey', alarm')
    BY <1>4, CalmSame
  <2>2. /\ queue' \in [AllSteps -> Nat] /\ \A s \in Steps : queue'[s] = queue[s]
        /\ \E th : /\ thread' = [thread EXCEPT ![Alarm] = th] /\ ThreadSeq(th, run)
                   /\ \A s \in Steps : ~Holds(th, s)
    BY <1>0, <1>4, ReturnSeq, IInvFacts
  <2> QED
    BY <2>1, <2>2, AlarmKeeps
<1>5. CASE late \cap Comps = {} /\ AlarmEnd(next, late # {}, al)
  <2>1. late # {} => \E s \in Steps : run.step[s] = "running" /\ next.step[s] = "failed"
    BY <1>1, <1>2, <1>5, StepSets
  <2> QED
    BY <1>1, <1>5, <2>1, AlarmEndInTurn
<1>6. CASE late \cap Comps # {} /\ TimeOut(next, st, al, late \cap Comps)
  <2>1. Undone(run)
    BY <1>2, <1>6 DEF Undone
  <2> QED
    BY <1>1, <1>6, <2>1, TimeOutInTurn
<1> QED
  BY <1>3, <1>4, <1>5, <1>6

\* The grace period of a waiting step is over.
LEMMA WakeInTurn ==
  ASSUME IInv, InTurn, NEW s \in Steps, run.step[s] = "waiting",
         run' = [run EXCEPT !.step[s] = "running", !.att[s] = 1], Publish(s),
         NEW todo, todo \subseteq {q \in Steps : run.step[q] = "waiting" /\ s < q},
         Suspend(Alarm, "alarmPublish", s, todo)
  PROVE  InTurn'
<1>0. Alarm \in Threads /\ RunSeq(run) /\ run \in RunType
  BY ThreadNames, IInvFacts DEF InTurn
<1>1. /\ \A q \in Steps : queue[q] = 0 /\ \A u \in Threads : ~Holds(thread[u], q)
      /\ \A q \in Steps \ {s} : ~Current(run, q)
      /\ run.status = "running"
  BY WaitingFacts
<1>2. /\ run'.status = "running"
      /\ \A q \in Steps : /\ run'.step[q] = IF q = s THEN "running" ELSE run.step[q]
                          /\ run'.att[q] = IF q = s THEN 1 ELSE run.att[q]
      /\ \A c \in Comps : run'.step[c] = run.step[c]
  BY <1>0, <1>1, StepSets DEF RunType
<1>3. RunSeq(run') /\ Onward(run, run') /\ (Undone(run) => Undone(run'))
  BY <1>0, <1>1, <1>2 DEF RunSeq, Onward, Undone, Settled
<1>4. todo = {}
  BY <1>1, StepNumbers DEF Current, Busy
<1>5. PICK th : /\ thread' = [thread EXCEPT ![Alarm] = th]
                /\ th.pc = "alarmPublish" /\ th.step = s /\ th.todo = {}
  BY <1>0, <1>4, SuspendTo
<1>6. ThreadSeq(th, run') /\ \A q \in Steps : ~Holds(th, q)
  BY <1>2, <1>5 DEF ThreadSeq, Holds, Held
<1>7. GraceSeq(run', delayKey', alarm')
  BY <1>1, <1>2 DEF GraceSeq, Current, Busy
<1>8. \A q \in Steps : queue'[q] = IF q = s THEN 1 ELSE 0
  BY <1>1, IInvFacts, StepNumbers DEF Publish
<1>9. \A q \in Steps : queue'[q] > 0 => Open(run', q) /\ queue'[q] = 1 /\ ~Holds(th, q)
  BY <1>2, <1>6, <1>8 DEF Open
<1>10. \A u \in Threads \ {Alarm}, q \in Steps : ~Holds(thread[u], q)
  BY <1>1
<1> QED
  BY <1>0, <1>3, <1>5, <1>6, <1>7, <1>9, <1>10, TurnKeeps

LEMMA AlarmFiresInTurn ==
  ASSUME IInv, InTurn, AlarmFires
  PROVE  InTurn'
<1> DEFINE todo == In(run, Steps, "waiting")
           ready == {s \in todo : delayKey'[s] = 0}
<1>1. alarm = 0 /\ delayKey' = delayKey
  BY DEF AlarmFires
<1>2. CASE \E s \in ready :
             /\ run' = [run EXCEPT !.step[s] = "running", !.att[s] = 1]
             /\ Publish(s)
             /\ Suspend(Alarm, "alarmPublish", s, {q \in todo : s < q})
  <2>1. PICK s \in ready : /\ run' = [run EXCEPT !.step[s] = "running", !.att[s] = 1]
                           /\ Publish(s)
                           /\ Suspend(Alarm, "alarmPublish", s, {q \in todo : s < q})
    BY <1>2
  <2> DEFINE rest == {q \in todo : s < q}
  <2>2. s \in Steps /\ run.step[s] = "waiting"
    BY DEF In
  <2>3. rest \subseteq {q \in Steps : run.step[q] = "waiting" /\ s < q}
    BY DEF In
  <2>4. Suspend(Alarm, "alarmPublish", s, rest)
    BY <2>1
  <2> HIDE DEF rest
  <2> QED
    BY <2>1, <2>2, <2>3, <2>4, WakeInTurn
<1>3. CASE ready = {} /\ CheckDeadlines(run, stored, NoTime)
  <2>1. ASSUME NEW s \in Steps, run.step[s] = "waiting" PROVE FALSE
    <3>1. delayKey[s] = 0
      BY <1>1, <2>1 DEF InTurn, GraceSeq
    <3>2. s \in ready
      BY <1>1, <2>1, <3>1 DEF In
    <3> QED
      BY <1>3, <3>2
  <2>2. GraceSeq(run, delayKey', NoTime)
    BY <2>1 DEF GraceSeq
  <2> QED
    BY <1>3, <2>2, CheckDeadlinesInTurn
<1> QED
  BY <1>2, <1>3 DEF AlarmFires, DispatchDelayed

LEMMA AlarmPublishedInTurn ==
  ASSUME IInv, InTurn, AlarmPublished
  PROVE  InTurn'
<1> DEFINE p == thread[Alarm].step
<1>1. /\ thread[Alarm].todo = {} /\ p \in Steps /\ run.step[p] # "waiting"
      /\ delayKey' = [delayKey EXCEPT ![p] = NoTime]
  BY ThreadNames DEF AlarmPublished, InTurn, ThreadSeq
<1>2. CheckDeadlines(run, run, alarm)
  BY <1>1 DEF AlarmPublished, DispatchDelayed
<1>3. GraceSeq(run, delayKey', alarm)
  BY <1>1, IInvFacts DEF InTurn, GraceSeq
<1> QED
  BY <1>2, <1>3, CheckDeadlinesInTurn

LEMMA AlarmDeadLetteredInTurn ==
  ASSUME IInv, InTurn, AlarmDeadLettered
  PROVE  InTurn'
<1>1. Undone(run) /\ thread[Alarm].todo \in SUBSET Comps /\ run \in RunType /\ delayKey' = delayKey
  BY ThreadNames, IInvFacts DEF AlarmDeadLettered, ThreadOK
<1>2. run.status # "running" /\ Late(run, run)
  BY <1>1, UndoneOver, LateSame
<1>3. CASE TimeOut(run, stored, alarm, thread[Alarm].todo)
  BY <1>1, <1>2, <1>3, TimeOutInTurn
<1>4. CASE AlarmEnd(run, TRUE, alarm)
  <2>1. GraceSeq(run, delayKey', alarm)
    BY <1>1 DEF InTurn
  <2> QED
    BY <1>2, <1>4, <2>1, AlarmEndInTurn
<1> QED
  BY <1>3, <1>4 DEF AlarmDeadLettered

-----------------------------------------------------------------------------
(* Start, the clock and the whole system *)

LEMMA StartInTurn ==
  ASSUME IInv, InTurn, Parallel = {}, Start
  PROVE  InTurn'
<1>0. Starter \in Threads /\ run.status = "none"
  BY ThreadNames DEF Start
<1>1. /\ NewRun.status = "running" /\ SafeRun(NewRun)
      /\ \A s \in Steps : NewRun.step[s] = "pending"
  BY NewRunFacts, StepNumbers DEF SafeRun, NewRun
<1>2. RunSeq(NewRun)
  BY <1>1 DEF RunSeq
<1>3. /\ \A q \in Steps : queue[q] = 0 /\ run.step[q] = "pending"
      /\ \A u \in Threads, q \in Steps : ~Holds(thread[u], q)
  BY <1>0, UnstartedFacts
<1>4. \A s \in Steps : NewRun.step[s] \in Settled \cup {"pending"}
  BY <1>1
<1>5. Advance(Starter, NewRun, NewRun, GlobalTimeout)
  BY DEF Start
<1>6. /\ RunSeq(run') /\ GraceSeq(run', delayKey', alarm')
      /\ \A q \in Steps : queue'[q] > 0 => Open(run', q) /\ queue'[q] = 1
      /\ \E th : /\ thread' = [thread EXCEPT ![Starter] = th] /\ ThreadSeq(th, run')
                 /\ \A q \in Steps : ~Holds(th, q)
  BY <1>0, <1>1, <1>2, <1>3, <1>4, <1>5, AdvanceInTurn
<1>7. Onward(run, run')
  BY <1>0, <1>3 DEF Onward
<1>8. Undone(run) => Undone(run')
  BY <1>0, UndoneOver
<1> QED
  BY <1>0, <1>3, <1>6, <1>7, <1>8, TurnKeeps

LEMMA RecordRunInTurn ==
  ASSUME IInv, InTurn, RecordRun
  PROVE  InTurn'
<1>1. /\ UNCHANGED <<run, delayKey, alarm, queue>> /\ Starter \in Threads
      /\ thread' = [thread EXCEPT ![Starter] = IdleThread]
  BY ThreadNames DEF RecordRun
<1>2. Calm(run, run') /\ GraceSeq(run', delayKey', alarm')
  BY <1>1, CalmSame, GraceKeeps
<1>3. ThreadSeq(IdleThread, run) /\ \A s \in Steps : ~Holds(IdleThread, s)
  BY RestingSeq DEF IdleThread
<1>4. queue' \in [AllSteps -> Nat] /\ \A s \in Steps : queue'[s] <= queue[s]
  BY <1>1, QueueSame
<1> QED
  BY <1>1, <1>2, <1>3, <1>4, CalmKeeps

\* A tick moves the alarm and the grace period that it is set for together.
LEMMA TickInTurn ==
  ASSUME IInv, InTurn, Tick
  PROVE  InTurn'
<1>1. /\ UNCHANGED <<thread, queue>> /\ alarm' = Down(alarm)
      /\ \A s \in Steps : delayKey'[s] = Down(delayKey[s])
      /\ run'.status = run.status /\ run'.step = run.step /\ run'.att = run.att
  BY IInvFacts DEF Tick, RunType
<1>2. Calm(run, run')
  BY <1>1, CalmSame
<1>3. GraceSeq(run', delayKey', alarm')
  <2> SUFFICES ASSUME NEW s \in Steps, run'.step[s] = "waiting"
               PROVE  delayKey'[s] # NoTime /\ alarm' = delayKey'[s]
    BY DEF GraceSeq
  <2>1. delayKey[s] # NoTime /\ alarm = delayKey[s] /\ delayKey[s] \in Nat \cup {NoTime}
    BY <1>1, IInvFacts DEF InTurn, GraceSeq, Time
  <2> QED
    BY <1>1, <2>1 DEF Down, NoTime
<1>4. thread' = [thread EXCEPT ![Alarm] = thread[Alarm]] /\ ThreadSeq(thread[Alarm], run)
  BY <1>1, ThreadNames DEF IInv, InTurn
<1>5. queue' \in [AllSteps -> Nat] /\ \A s \in Steps : queue'[s] <= queue[s]
  BY <1>1, QueueSame
<1> QED
  BY <1>2, <1>3, <1>4, <1>5, ThreadNames, CalmKeeps

\* A platform that evicts nothing.
LEMMA NoEviction ==
  ASSUME SpentOK, MaxEvictions = 0
  PROVE  ~Eviction
  BY DEF Eviction, Spend, SpentOK, Budget

LEMMA SpentKept ==
  ASSUME SpentOK, [Next]_vars
  PROVE  SpentOK'
<1>1. ASSUME NEW what, Spend(what), what \in {"failures", "redeliveries", "losses", "evictions"}
      PROVE  SpentOK'
  BY <1>1 DEF Spend, SpentOK
<1>2. CASE UNCHANGED spent
  BY <1>2 DEF SpentOK
<1>3. UNCHANGED spent \/ \E what \in {"failures", "redeliveries", "losses", "evictions"} : Spend(what)
  BY DEF Next, Object, Clock, Eviction, Cancellation, Stopped, vars, Lose, Deliver, Receive,
         Execute, HandlerSucceeds, HandlerFails, Replay, Rejected
<1> QED
  BY <1>1, <1>2, <1>3

LEMMA ObjectInTurn ==
  ASSUME IInv, InTurn, Parallel = {}, Object
  PROVE  InTurn'
<1>1. CASE \E t \in Threads : Resume(t)
  <2>1. PICK t \in Threads : Resume(t)
    BY <1>1
  <2> QED
    BY <2>1, ContinueAdvanceInTurn, ContinueCompensateInTurn, RecordCompletionInTurn,
       FinishCompletionInTurn, WriteFinalInTurn, EmitFailureInTurn, FinishFailureInTurn DEF Resume
<1> QED
  BY <1>1, StartInTurn, RecordRunInTurn, AlarmFiresInTurn, AlarmPublishedInTurn,
     AlarmDeadLetteredInTurn DEF Object, Handlers, ResumeAlarm

LEMMA StepInTurn ==
  ASSUME IInv, SpentOK, Sequential, InTurn, [Next]_vars
  PROVE  InTurn' \/ Cancellation
<1>0. Parallel = {} /\ MaxRedeliveries = 0 /\ ~Eviction
  BY NoEviction DEF Sequential
<1>1. CASE Object
  BY <1>0, <1>1, ObjectInTurn
<1>2. CASE Clock
  BY <1>2, TickInTurn DEF Clock
<1>3. CASE \E w \in Executors : Execute(w) \/ \E s \in AllSteps : Deliver(w, s)
  BY <1>0, <1>3, ExecuteInTurn, DeliverInTurn
<1>4. CASE \E s \in AllSteps : Lose(s)
  BY <1>4, LoseInTurn
<1>5. CASE UNCHANGED vars
  BY <1>5 DEF vars, InTurn
<1> QED
  BY <1>0, <1>1, <1>2, <1>3, <1>4, <1>5 DEF Next, Stopped

LEMMA InitInTurn == SystemInit => InTurn /\ SpentOK
<1> SUFFICES ASSUME SystemInit PROVE InTurn /\ SpentOK
  OBVIOUS
<1>1. /\ run = NoRun /\ thread = [t \in Threads |-> IdleThread]
      /\ queue = [s \in AllSteps |-> 0]
      /\ spent = [failures |-> 0, redeliveries |-> 0, losses |-> 0, evictions |-> 0]
  BY DEF SystemInit, Init
<1>2. SpentOK
  BY <1>1 DEF SpentOK
<1>3. run.status = "none" /\ \A s \in Steps : run.step[s] = "pending"
  BY <1>1, NewRunFacts, StepNumbers DEF NoRun, NewRun
<1>4. RunSeq(run) /\ GraceSeq(run, delayKey, alarm)
  BY <1>3 DEF RunSeq, GraceSeq
<1>5. \A t \in Threads : /\ ThreadSeq(thread[t], run)
                         /\ \A s \in Steps : ~Holds(thread[t], s)
  BY <1>1, RestingSeq DEF IdleThread
<1>6. TokenSeq(thread, queue, run)
  BY <1>1, <1>5, StepNumbers DEF TokenSeq
<1> QED
  BY <1>2, <1>4, <1>5, <1>6 DEF InTurn

\* Nothing but an eviction leads out of "failed".
LEMMA FailedStays ==
  ASSUME IInv, SpentOK, MaxEvictions = 0, [Next]_vars, run.status = "failed"
  PROVE  run'.status = "failed"
<1>1. Kept \/ Start
  BY NoEviction, StepInv
<1> QED
  BY <1>1 DEF Start, Kept, View, SameView, Saved, Moved

-----------------------------------------------------------------------------
(* The invariants: a cancelled run is exempt, for its handlers go on *)

Uncancelled == SpentOK /\ InTurn
Cancellable == SpentOK /\ (run.status = "failed" \/ InTurn)

THEOREM TakesTurns ==
  ASSUME Sequential
  PROVE  Spec => []Cancellable
<1>1. SystemInit => Cancellable
  BY InitInTurn DEF Cancellable
<1>2. IInv /\ Cancellable /\ [Next]_vars => Cancellable'
  <2> SUFFICES ASSUME IInv, Cancellable, [Next]_vars PROVE Cancellable'
    OBVIOUS
  <2>1. SpentOK'
    BY SpentKept DEF Cancellable
  <2>2. Cancellation => run'.status = "failed"
    BY IInvFacts, SetStatus DEF Cancellation, Cancel, Save
  <2>3. run'.status = "failed" \/ InTurn'
    BY <2>2, StepInTurn, FailedStays DEF Cancellable, Sequential
  <2> QED
    BY <2>1, <2>3 DEF Cancellable
<1> QED
  BY <1>1, <1>2, Invariance, PTL DEF Spec

THEOREM AlwaysTakesTurns ==
  ASSUME Sequential, ~MayCancel
  PROVE  Spec => []Uncancelled
<1>1. SystemInit => Uncancelled
  BY InitInTurn DEF Uncancelled
<1>2. IInv /\ Uncancelled /\ [Next]_vars => Uncancelled'
  BY SpentKept, StepInTurn DEF Uncancelled, Cancellation
<1> QED
  BY <1>1, <1>2, Invariance, PTL DEF Spec

\* Without parallel steps, and as long as the queue repeats no delivery, the object
\* is not evicted and nobody cancels, a forward step is only touched when every
\* step before it is settled: no failure, timeout, retry or loss makes
\* advanceToNextStep or the alarm overtake a step.
THEOREM InOrderHolds ==
  ASSUME Sequential, ~MayCancel
  PROVE  Spec => []InOrder
<1>1. Uncancelled => InOrder
  BY DEF Uncancelled, InTurn, RunSeq, InOrder, Settled
<1> QED
  BY <1>1, AlwaysTakesTurns, PTL

\* A completed run has no forward step that is unfinished, timed out or
\* dead-lettered, even if somebody cancels runs: handleStepComplete and
\* advanceToNextStep complete a run only when the last step is settled.
THEOREM CompletedMeansDoneHolds ==
  ASSUME Sequential
  PROVE  Spec => []CompletedMeansDone
<1>1. Cancellable => CompletedMeansDone
  BY DEF Cancellable, InTurn, RunSeq, CompletedMeansDone, Settled
<1> QED
  BY <1>1, TakesTurns, PTL

\* Where no step is retried or no handler reports a failure, the step whose timeout
\* or failure started the undoing is never running while the compensations are: a
\* late failure of it is dead-lettered, not retried (handleStepFail compares the
\* attempts), and a late completion changes nothing.
THEOREM NoForwardWhileUndoingHolds ==
  ASSUME Sequential, NeverRetried
  PROVE  Spec => []NoForwardWhileUndoing
<1>1. Cancellable => NoForwardWhileUndoing
  BY DEF Cancellable, InTurn, RunSeq, NoForwardWhileUndoing, In
<1> QED
  BY <1>1, TakesTurns, PTL

\* A grace period that is running has its wake-up: its delay key is in storage and
\* the alarm is set for that very moment, whatever other handlers have done to
\* the single alarm (advanceToNextStep, scheduleNextDeadlineAlarm, alarm()).
THEOREM GraceHasAlarmHolds ==
  ASSUME Sequential
  PROVE  Spec => []GraceHasAlarm
<1>1. IInv /\ Cancellable => GraceHasAlarm
  <2> SUFFICES ASSUME IInv, Cancellable, NEW s \in Steps,
                      run.step[s] = "waiting", run.status = "running"
               PROVE  delayKey[s] # NoTime /\ alarm # NoTime /\ alarm <= delayKey[s]
    BY DEF GraceHasAlarm
  <2>1. delayKey[s] # NoTime /\ alarm = delayKey[s]
    BY DEF Cancellable, InTurn, GraceSeq
  <2>2. delayKey[s] \in Nat
    BY <2>1, IInvFacts DEF Time
  <2> QED
    BY <2>1, <2>2
<1> QED
  BY <1>1, Invariance, TakesTurns, PTL

\* Where no step is retried or no handler reports a failure, and nobody cancels, a
\* run that has ended starts no forward step: no handler that was suspended when the run ended dispatches one on
\* resuming.
THEOREM EndedStartsNothingHolds ==
  ASSUME Sequential, NeverRetried, ~MayCancel
  PROVE  Spec => EndedStartsNothing
<1>1. IInv /\ Uncancelled /\ Uncancelled' /\ [Next]_vars =>
        [run.status \in Terminal =>
           \A s \in Steps : run'.step[s] = "running" => run.step[s] = "running"]_vars
  <2> SUFFICES ASSUME IInv, Uncancelled, Uncancelled', [Next]_vars, run.status \in Terminal
               PROVE  \A s \in Steps : run'.step[s] # "running"
    OBVIOUS
  <2>1. Kept \/ Start
    BY NoEviction, StepInv DEF Uncancelled, Sequential
  <2>2. run'.status \in Terminal
    BY <2>1 DEF Start, Kept, View, SameView, Saved, Moved, Terminal
  <2> QED
    BY <2>2 DEF Uncancelled, InTurn, RunSeq, Terminal
<1> QED
  BY <1>1, Invariance, AlwaysTakesTurns, PTL DEF Spec, EndedStartsNothing

-----------------------------------------------------------------------------
(* A run in progress is never left alone.  This takes a definition in which
   every step has a timeout and none a grace period.  If handlers may fail it
   takes that no failed step is retried and no message lost: otherwise the code
   does strand runs (README).  Without failures of handlers, any number of
   messages may be lost and any retries be allowed. *)

Guarded ==
  /\ \A s \in Steps : Delay[s] = 0
  /\ \A s \in AllSteps : Timeout[s] > 0
  /\ \/ MaxFailures = 0
     \/ MaxLosses = 0 /\ \A s \in AllSteps : MaxRetries[s] <= 1

\* The thread is inside the object to report on one of these steps.
Reports(th, S) == th.step \in S /\ th.pc \in {"progress", "evidence", "failEvidence", "failDlq"}
\* It will look whether the undoing is over.
Undoes(th) == th.pc = "alarmDlq" \/ Reports(th, Comps)
\* It will set the alarm for the running compensations.
Arms(th) == th.pc \in {"compensate", "alarmDlq"}
Carries(th, c) == th.step = c /\ th.pc \in {"handler", "replay"}

Watched(r, th, al) ==
  \/ \E t \in Threads : Reports(th[t], Steps)
  \/ \E s \in Steps : /\ r.step[s] = "running" /\ r.due[s] # NoTime
                      /\ al = r.due[s] \/ \E t \in Threads : th[t].pc = "advance"

\* The compensations that alarm() still has to time out have been started.
Started(th, r) == th.pc = "alarmDlq" => \A c \in th.todo \cap Comps : r.step[c] # "absent"

Pursued(r, th, q, al) ==
  /\ \A t \in Threads : Started(th[t], r)
  /\ \A c \in Comps : r.step[c] # "absent" => r.att[c] >= 1 /\ r.due[c] # NoTime
  /\ CompsDone(r) => \E t \in Threads : Undoes(th[t])
  /\ MaxFailures = 0 /\ ~CompsDone(r) => al # NoTime \/ \E t \in Threads : Arms(th[t])
  /\ MaxLosses = 0 =>
       \A c \in Comps : r.step[c] = "running" =>
         q[c] > 0 \/ \E w \in Executors : Carries(th[w], c)

Lively ==
  /\ \A s \in Steps : run.step[s] # "waiting" /\ (MaxFailures = 0 => run.step[s] # "dlq")
  /\ thread[Alarm].pc # "alarmPublish"
  /\ run.status = "running" => Watched(run, thread, alarm)
  /\ run.status = "compensating" => Pursued(run, thread, queue, alarm)

LEMMA OthersStay ==
  ASSUME IInv, NEW t \in Threads, NEW th, thread' = [thread EXCEPT ![t] = th]
  PROVE  \A u \in Threads : thread'[u] = IF u = t THEN th ELSE thread[u]
  BY DEF IInv

Alike(r, r2) == r2.status = r.status /\ r2.step = r.step /\ r2.att = r.att /\ r2.due = r.due

\* A thread moves on, and what the compensations rely on it for stays so.
LEMMA FramePursued ==
  ASSUME IInv, Pursued(run, thread, queue, alarm),
         NEW t \in Threads, NEW th, thread' = [thread EXCEPT ![t] = th],
         \A c \in Comps : /\ run'.step[c] = run.step[c] /\ run'.att[c] = run.att[c]
                          /\ run'.due[c] = run.due[c],
         alarm' = alarm \/ alarm' # NoTime, th = thread[t] \/ th.pc # "alarmDlq",
         CompsDone(run) /\ Undoes(thread[t]) => Undoes(th),
         Arms(thread[t]) => Arms(th),
         \A c \in Comps :
           MaxLosses = 0 /\ run.step[c] = "running" =>
             \/ queue[c] > 0 => queue'[c] > 0
             \/ t \in Executors /\ Carries(th, c),
         \A c \in Comps :
           run.step[c] = "running" /\ t \in Executors /\ Carries(thread[t], c) => Carries(th, c)
  PROVE  Pursued(run', thread', queue', alarm')
<1>1. \A u \in Threads : thread'[u] = IF u = t THEN th ELSE thread[u]
  BY DEF IInv
<1>2. CompsDone(run') <=> CompsDone(run)
  BY DEF CompsDone, In
<1>3. \A c \in Comps : run'.step[c] # "absent" => run'.att[c] >= 1 /\ run'.due[c] # NoTime
  BY DEF Pursued
<1>4. CompsDone(run') => \E u \in Threads : Undoes(thread'[u])
  BY <1>1, <1>2 DEF Pursued
<1>5. MaxFailures = 0 /\ ~CompsDone(run') => alarm' # NoTime \/ \E u \in Threads : Arms(thread'[u])
  BY <1>1, <1>2 DEF Pursued
<1>6. ASSUME MaxLosses = 0, NEW c \in Comps, run.step[c] = "running"
      PROVE  queue'[c] > 0 \/ \E w \in Executors : Carries(thread'[w], c)
  <2>1. CASE queue[c] > 0
    BY <1>1, <1>6, <2>1
  <2>2. CASE \E w \in Executors : Carries(thread[w], c)
    <3>1. PICK w \in Executors : Carries(thread[w], c)
      BY <2>2
    <3>2. w \in Threads
      BY ThreadNames
    <3> QED
      BY <1>1, <1>6, <3>1, <3>2
  <2> QED
    BY <1>6, <2>1, <2>2 DEF Pursued
<1>7. \A u \in Threads : Started(thread'[u], run')
  BY <1>1 DEF Pursued, Started
<1> QED
  BY <1>3, <1>4, <1>5, <1>6, <1>7 DEF Pursued

\* The same for the whole run, which stays as it is.
LEMMA FrameLively ==
  ASSUME IInv, Lively, NEW t \in Threads, NEW th, thread' = [thread EXCEPT ![t] = th],
         Alike(run, run'), alarm' = alarm, th.pc # "alarmPublish",
         th = thread[t] \/ th.pc # "alarmDlq",
         run.status = "running" /\ Reports(thread[t], Steps) => Reports(th, Steps),
         run.status = "compensating" /\ CompsDone(run) /\ Undoes(thread[t]) => Undoes(th),
         thread[t].pc = "advance" => th.pc = "advance",
         Arms(thread[t]) => Arms(th),
         \A c \in Comps :
           MaxLosses = 0 /\ run.step[c] = "running" =>
             \/ queue[c] > 0 => queue'[c] > 0
             \/ t \in Executors /\ Carries(th, c),
         \A c \in Comps :
           run.step[c] = "running" /\ t \in Executors /\ Carries(thread[t], c) => Carries(th, c)
  PROVE  Lively'
<1>1. \A u \in Threads : thread'[u] = IF u = t THEN th ELSE thread[u]
  BY OthersStay
<1>2. thread'[Alarm].pc # "alarmPublish"
  BY <1>1, ThreadNames DEF Lively
<1>3. \A s \in Steps : run'.step[s] # "waiting" /\ (MaxFailures = 0 => run'.step[s] # "dlq")
  BY DEF Lively, Alike
<1>5. ASSUME run.status = "running" PROVE Watched(run', thread', alarm')
  <2>1. CASE \E u \in Threads : Reports(thread[u], Steps)
    <3>1. \E u \in Threads : Reports(thread'[u], Steps)
      BY <1>1, <1>5, <2>1
    <3> QED
      BY <3>1 DEF Watched
  <2>2. ASSUME NEW s \in Steps, run.step[s] = "running", run.due[s] # NoTime,
               alarm = run.due[s] \/ \E u \in Threads : thread[u].pc = "advance"
        PROVE  Watched(run', thread', alarm')
    <3>1. (\E u \in Threads : thread[u].pc = "advance") => \E u \in Threads : thread'[u].pc = "advance"
      BY <1>1
    <3> QED
      BY <2>2, <3>1 DEF Watched, Alike
  <2> QED
    BY <1>5, <2>1, <2>2 DEF Lively, Watched
<1>6. ASSUME run.status = "compensating" PROVE Pursued(run', thread', queue', alarm')
  BY <1>6, FramePursued DEF Lively, Alike
<1> QED
  BY <1>2, <1>3, <1>5, <1>6 DEF Lively, Alike

\* The alarm is set for one of the running steps, if any has a deadline.
LEMMA ArmedFor ==
  ASSUME NEW r, NEW al, ArmDeadline(r, al)
  PROVE  /\ Deadlines(r) = {} => alarm' = al
         /\ Deadlines(r) # {} => alarm' \in Deadlines(r)
  BY DEF ArmDeadline

LEMMA ArmedAlarm ==
  ASSUME NEW r, NEW al, ArmDeadline(r, al)
  PROVE  /\ al # NoTime => alarm' # NoTime
         /\ (\E s \in AllSteps : r.step[s] = "running" /\ r.due[s] # NoTime) => alarm' # NoTime
<1>1. \A d \in Deadlines(r) : d # NoTime
  BY DEF Deadlines
<1>2. ASSUME NEW s \in AllSteps, r.step[s] = "running", r.due[s] # NoTime PROVE Deadlines(r) # {}
  BY <1>2 DEF Deadlines, In
<1> QED
  BY <1>1, <1>2, ArmedFor

LEMMA RunningComp ==
  ASSUME NEW r, ~CompsDone(r)
  PROVE  \E c \in Comps : r.step[c] = "running"
  BY DEF CompsDone, In

LEMMA ContinueAdvanceLively ==
  ASSUME IInv, InTurn, Lively, NEW t \in Threads, ContinueAdvance(t)
  PROVE  Lively'
<1>1. /\ run' = run /\ ArmDeadline(run, alarm) /\ Return(t) /\ UNCHANGED queue
      /\ thread[t].pc = "advance"
  BY DEF ContinueAdvance, InTurn, ThreadSeq, Save
<1>2. PICK th : thread' = [thread EXCEPT ![t] = th] /\ th.pc \in {"idle", "insert"}
  BY <1>1, ReturnTo
<1>3. \A u \in Threads : thread'[u] = IF u = t THEN th ELSE thread[u]
  BY <1>2, OthersStay
<1>4. thread'[Alarm].pc # "alarmPublish"
  BY <1>2, <1>3, ThreadNames DEF Lively
<1>5. ASSUME run.status = "running" PROVE Watched(run', thread', alarm')
  <2>1. CASE \E u \in Threads : Reports(thread[u], Steps)
    BY <1>1, <1>3, <2>1 DEF Watched, Reports
  <2>2. ASSUME NEW s \in Steps, run.step[s] = "running", run.due[s] # NoTime
        PROVE  Watched(run', thread', alarm')
    <3>1. \A q \in AllSteps : run.step[q] = "running" => q = s
      BY <1>5, <2>2, OneCurrent, UndoneOver, StepSets DEF InTurn, Current, Busy, Undone
    <3>2. Deadlines(run) = {run.due[s]}
      BY <2>2, <3>1, StepNumbers DEF Deadlines, In
    <3>3. alarm' = run'.due[s]
      BY <1>1, <3>2, ArmedFor
    <3> QED
      BY <1>1, <2>2, <3>3 DEF Watched
  <2> QED
    BY <1>5, <2>1, <2>2 DEF Lively, Watched
<1>6. ASSUME run.status = "compensating" PROVE Pursued(run', thread', queue', alarm')
  <2>1. Pursued(run, thread, queue, alarm)
    BY <1>6 DEF Lively
  <2>2. ~Undoes(thread[t]) /\ ~Arms(thread[t]) /\ \A c \in Comps : ~Carries(thread[t], c)
    BY <1>1 DEF Undoes, Reports, Arms, Carries
  <2>3. alarm # NoTime => alarm' # NoTime
    BY <1>1, ArmedAlarm
  <2>4. \A u \in Threads : Started(thread'[u], run')
    BY <1>1, <1>2, <1>3, <2>1 DEF Pursued, Started
  <2> QED
    BY <1>1, <1>3, <2>1, <2>2, <2>3, <2>4, ThreadNames DEF Pursued
<1> QED
  BY <1>1, <1>4, <1>5, <1>6 DEF Lively

LEMMA BegunTimed ==
  ASSUME Guarded, NEW r \in RunType, NEW s \in AllSteps
  PROVE  /\ Begun(r, s).step[s] = "running" /\ Begun(r, s).att[s] = 1
         /\ Begun(r, s).due[s] # NoTime
         /\ \A q \in AllSteps \ {s} : /\ Begun(r, s).step[q] = r.step[q]
                                      /\ Begun(r, s).att[q] = r.att[q]
                                      /\ Begun(r, s).due[q] = r.due[q]
<1>1. Timeout[s] \in Nat /\ Timeout[s] > 0
  BY DefinitionAssumption DEF Guarded
<1> QED
  BY <1>1 DEF Begun, RunType, NoTime

\* A compensation has been published: its message is in the queue, and the thread
\* will set the alarm for it.
LEMMA PushPursued ==
  ASSUME IInv, Guarded, thread[Alarm].pc # "alarmPublish",
         NEW t \in Threads, NEW r \in RunType, NEW st,
         NEW todo \in SUBSET Comps, PushComp(t, r, st, todo),
         \A u \in Threads : Started(thread[u], r),
         \A c \in Comps : r.step[c] # "absent" => r.att[c] >= 1 /\ r.due[c] # NoTime,
         MaxLosses = 0 =>
           \A c \in Comps : r.step[c] = "running" =>
             queue[c] > 0 \/ \E w \in Executors : w # t /\ Carries(thread[w], c)
  PROVE  /\ Pursued(run', thread', queue', alarm') /\ thread'[Alarm].pc # "alarmPublish"
         /\ \A s \in Steps : run'.step[s] = r.step[s]
         /\ run'.status = r.status
<1>1. PICK c \in todo : /\ run' = Begun(r, c) /\ Publish(c)
                        /\ Suspend(t, "compensate", Own(t, c), todo \ {c})
  BY DEF PushComp
<1>2. c \in Comps /\ c \in AllSteps /\ c \notin Steps
  BY StepSets
<1>3. /\ run'.step[c] = "running" /\ run'.att[c] = 1 /\ run'.due[c] # NoTime
      /\ \A q \in AllSteps \ {c} : /\ run'.step[q] = r.step[q] /\ run'.att[q] = r.att[q]
                                   /\ run'.due[q] = r.due[q]
  BY <1>1, <1>2, BegunTimed
<1>4. run'.status = r.status
  BY <1>1, <1>2, BegunFacts
<1>5. PICK th : thread' = [thread EXCEPT ![t] = th] /\ th.pc = "compensate"
  BY <1>1, SuspendTo
<1>6. \A u \in Threads : thread'[u] = IF u = t THEN th ELSE thread[u]
  BY <1>5 DEF IInv
<1>7. thread'[Alarm].pc # "alarmPublish" /\ \E u \in Threads : Arms(thread'[u])
  BY <1>5, <1>6, ThreadNames DEF Arms
<1>8. ~CompsDone(run')
  BY <1>2, <1>3 DEF CompsDone, In
<1>9. \A q \in Comps : /\ queue'[q] = IF q = c THEN queue[q] + 1 ELSE queue[q]
                       /\ queue[q] \in Nat
  BY <1>1, <1>2, IInvFacts, StepSets DEF Publish
<1>10. ASSUME MaxLosses = 0, NEW q \in Comps, run'.step[q] = "running"
       PROVE  queue'[q] > 0 \/ \E w \in Executors : Carries(thread'[w], q)
  <2>1. CASE q = c
    BY <1>9, <2>1
  <2>2. CASE q # c
    <3>1. r.step[q] = "running"
      BY <1>3, <1>10, <2>2, StepSets
    <3>2. CASE queue[q] > 0
      BY <1>9, <2>2, <3>2
    <3>3. CASE \E w \in Executors : w # t /\ Carries(thread[w], q)
      BY <1>6, <3>3, ThreadNames
    <3> QED
      BY <1>10, <3>1, <3>2, <3>3
  <2> QED
    BY <2>1, <2>2
<1>11. \A q \in Comps : run'.step[q] # "absent" => run'.att[q] >= 1 /\ run'.due[q] # NoTime
  BY <1>3, StepSets
<1>12. \A s \in Steps : run'.step[s] = r.step[s]
  BY <1>2, <1>3, StepSets
<1>13. \A u \in Threads : Started(thread'[u], run')
  <2> SUFFICES ASSUME NEW u \in Threads, thread'[u].pc = "alarmDlq", NEW q \in thread'[u].todo \cap Comps
               PROVE  run'.step[q] # "absent"
    BY DEF Started
  <2>1. u # t /\ thread'[u] = thread[u]
    BY <1>5, <1>6
  <2>2. r.step[q] # "absent"
    BY <2>1 DEF Started
  <2> QED
    BY <1>3, <2>2, StepSets
<1> QED
  BY <1>4, <1>7, <1>8, <1>10, <1>11, <1>12, <1>13 DEF Pursued

LEMMA ContinueCompensateLively ==
  ASSUME IInv, Guarded, Lively, run.status # "failed", NEW t \in Threads, ContinueCompensate(t)
  PROVE  Lively'
<1>0. /\ thread[t].todo \in SUBSET Comps /\ Undone(run) /\ run.status = "compensating"
      /\ run \in RunType /\ thread[t].pc = "compensate"
  BY IInvFacts, UndoneOver DEF ContinueCompensate, ThreadOK
<1>1. Pursued(run, thread, queue, alarm)
  BY <1>0 DEF Lively
<1>2. ~Undoes(thread[t]) /\ \A c \in Comps : ~Carries(thread[t], c)
  BY <1>0 DEF Undoes, Reports, Carries
<1>3. CASE PushComp(t, run, stored, thread[t].todo)
  <2>1. MaxLosses = 0 =>
           \A c \in Comps : run.step[c] = "running" =>
             queue[c] > 0 \/ \E w \in Executors : w # t /\ Carries(thread[w], c)
    BY <1>1, <1>2 DEF Pursued
  <2>2. \A c \in Comps : run.step[c] # "absent" => run.att[c] >= 1 /\ run.due[c] # NoTime
    BY <1>1 DEF Pursued
  <2>3. \A u \in Threads : Started(thread[u], run)
    BY <1>1 DEF Pursued
  <2>4. /\ Pursued(run', thread', queue', alarm') /\ thread'[Alarm].pc # "alarmPublish"
        /\ \A s \in Steps : run'.step[s] = run.step[s]
        /\ run'.status = run.status
    BY <1>0, <1>3, <2>1, <2>2, <2>3, PushPursued DEF Lively
  <2> QED
    BY <1>0, <2>4 DEF Lively
<1>4. CASE ArmDeadline(run, alarm) /\ run' = run /\ Return(t) /\ UNCHANGED queue
  <2>1. PICK th : thread' = [thread EXCEPT ![t] = th] /\ th.pc \in {"idle", "insert"}
    BY <1>4, ReturnTo
  <2>2. \A u \in Threads : thread'[u] = IF u = t THEN th ELSE thread[u]
    BY <2>1, OthersStay
  <2>3. thread'[Alarm].pc # "alarmPublish"
    BY <2>1, <2>2, ThreadNames DEF Lively
  <2>4. ~CompsDone(run) => alarm' # NoTime
    BY <1>1, <1>4, RunningComp, ArmedAlarm, StepSets DEF Pursued
  <2>5. \A u \in Threads : Started(thread'[u], run')
    BY <1>1, <1>4, <2>1, <2>2 DEF Pursued, Started
  <2>6. Pursued(run', thread', queue', alarm')
    BY <1>1, <1>2, <1>4, <2>2, <2>4, <2>5, ThreadNames DEF Pursued
  <2> QED
    BY <1>0, <1>4, <2>3, <2>6 DEF Lively
<1> QED
  BY <1>3, <1>4 DEF ContinueCompensate, Save

LEMMA RecordCompletionLively ==
  ASSUME IInv, Lively, NEW t \in Threads, RecordCompletion(t)
  PROVE  Lively'
<1> DEFINE s == thread[t].step
           r2 == [run EXCEPT !.hist = @ \cup {<<s, run.att[s]>>}]
<1>1. /\ thread[t].pc = "progress" /\ Save(r2) /\ Suspend(t, "evidence", s, {})
      /\ UNCHANGED <<alarm, queue>>
  BY DEF RecordCompletion
<1>2. Alike(run, run')
  BY <1>1, IInvFacts DEF RunType, Save, Alike
<1>3. PICK th : thread' = [thread EXCEPT ![t] = th] /\ th.pc = "evidence" /\ th.step = thread[t].step
  BY <1>1, SuspendTo
<1>4. /\ \A S : Reports(thread[t], S) => Reports(th, S)
      /\ Undoes(thread[t]) => Undoes(th)
      /\ ~Arms(thread[t]) /\ \A c \in Comps : ~Carries(thread[t], c)
  BY <1>1, <1>3 DEF Reports, Undoes, Arms, Carries
<1> QED
  BY <1>1, <1>2, <1>3, <1>4, FrameLively

LEMMA EmitFailureLively ==
  ASSUME IInv, Lively, NEW t \in Threads, EmitFailure(t)
  PROVE  Lively'
<1>1. /\ thread[t].pc = "failEvidence" /\ Suspend(t, "failDlq", thread[t].step, {})
      /\ UNCHANGED <<run, alarm, queue>>
  BY DEF EmitFailure
<1>2. PICK th : thread' = [thread EXCEPT ![t] = th] /\ th.pc = "failDlq" /\ th.step = thread[t].step
  BY <1>1, SuspendTo
<1>3. /\ \A S : Reports(thread[t], S) => Reports(th, S)
      /\ Undoes(thread[t]) => Undoes(th)
      /\ ~Arms(thread[t]) /\ \A c \in Comps : ~Carries(thread[t], c)
  BY <1>1, <1>2 DEF Reports, Undoes, Arms, Carries
<1> QED
  BY <1>1, <1>2, <1>3, FrameLively DEF Alike

\* A thread that nobody relies on returns.
LEMMA ReturnLively ==
  ASSUME IInv, Lively, NEW t \in Threads, Return(t), Alike(run, run'), alarm' = alarm, UNCHANGED queue,
         thread[t].pc # "advance", ~Arms(thread[t]),
         run.status = "running" => ~Reports(thread[t], Steps),
         run.status = "compensating" /\ CompsDone(run) => ~Undoes(thread[t]),
         \A c \in Comps : run.step[c] = "running" => ~Carries(thread[t], c)
  PROVE  Lively'
<1>1. PICK th : thread' = [thread EXCEPT ![t] = th] /\ th.pc \in {"idle", "insert"}
  BY ReturnTo
<1> QED
  BY <1>1, FrameLively

LEMMA WriteFinalLively ==
  ASSUME IInv, Lively, NEW t \in Threads, WriteFinal(t)
  PROVE  Lively'
  BY ReturnLively DEF WriteFinal, Alike, Arms, Reports, Undoes, Carries

\* While the run is running, no compensation exists.
LEMMA RunningUndone ==
  ASSUME IInv, run.status \notin {"compensating", "failed"}
  PROVE  /\ \A c \in Comps : run.step[c] = "absent"
         /\ \A r : \A u \in Threads : Started(thread[u], r)
  BY UndoneOver, IInvFacts DEF Undone, ThreadOK, Started

LEMMA AdvanceLively ==
  ASSUME IInv, Guarded, Parallel = {}, thread[Alarm].pc # "alarmPublish",
         NEW t \in Threads, NEW r, SafeRun(r), r.status = "running",
         \A s \in Steps : r.step[s] \in Settled \cup {"pending"},
         NEW st, NEW al, Advance(t, r, st, al)
  PROVE  Lively'
<1>1. PICK next :
        /\ Skipped(r, next)
        /\ \/ \E s \in Steps : NextUp(r, next, s) /\ (Waits(t, next, s) \/ Begins(t, next, s))
           \/ Completes(t, next)
  BY AdvanceCases
<1>2. /\ next \in RunType /\ next.status = "running"
      /\ \A s \in Steps : next.step[s] \in Settled \cup {"pending"}
  BY <1>1 DEF Skipped, Settled
<1>3. \A s \in Steps : ~Waits(t, next, s)
  BY DEF Guarded, Waits
<1>4. ASSUME NEW s \in Steps, Begins(t, next, s)
      PROVE  Lively'
  <2>1. s \in AllSteps /\ run' = Begun(next, s)
    BY <1>4, StepNumbers DEF Begins
  <2>2. /\ run'.step[s] = "running" /\ run'.due[s] # NoTime /\ run'.status = "running"
        /\ \A q \in AllSteps \ {s} : run'.step[q] = next.step[q]
    <3>1. Begun(next, s).status = "running"
      BY <1>2, <2>1, BegunFacts
    <3> QED
      BY <1>2, <2>1, <3>1, BegunTimed
  <2>3. PICK th : thread' = [thread EXCEPT ![t] = th] /\ th.pc = "advance"
    BY <1>4, SuspendTo DEF Begins
  <2>4. \A u \in Threads : thread'[u] = IF u = t THEN th ELSE thread[u]
    BY <2>3 DEF IInv
  <2>5. thread'[Alarm].pc # "alarmPublish" /\ \E u \in Threads : thread'[u].pc = "advance"
    BY <2>3, <2>4, ThreadNames
  <2>6. Watched(run', thread', alarm')
    BY <2>2, <2>5 DEF Watched
  <2>7. \A q \in Steps : run'.step[q] # "waiting" /\ run'.step[q] # "dlq"
    BY <1>2, <2>2, StepNumbers DEF Settled
  <2> QED
    BY <2>2, <2>5, <2>6, <2>7 DEF Lively
<1>5. ASSUME Completes(t, next)
      PROVE  Lively'
  <2>1. run'.status = "completed" /\ run'.step = next.step
    BY <1>2, <1>5, SetStatus DEF Completes, Save
  <2>2. PICK th : thread' = [thread EXCEPT ![t] = th] /\ th.pc \in {"idle", "insert"}
    BY <1>5, ReturnTo DEF Completes
  <2>3. thread'[Alarm].pc # "alarmPublish"
    BY <2>2, OthersStay, ThreadNames
  <2>4. \A q \in Steps : run'.step[q] # "waiting" /\ run'.step[q] # "dlq"
    BY <1>2, <2>1 DEF Settled
  <2> QED
    BY <2>1, <2>3, <2>4 DEF Lively
<1> QED
  BY <1>1, <1>3, <1>4, <1>5

LEMMA StartLively ==
  ASSUME IInv, Guarded, Parallel = {}, Lively, Start
  PROVE  Lively'
<1>1. /\ NewRun.status = "running" /\ SafeRun(NewRun)
      /\ \A s \in Steps : NewRun.step[s] \in Settled \cup {"pending"}
  BY NewRunFacts, StepNumbers DEF SafeRun, NewRun
<1>2. Advance(Starter, NewRun, NewRun, GlobalTimeout)
  BY DEF Start
<1> QED
  BY <1>1, <1>2, ThreadNames, AdvanceLively DEF Lively

LEMMA RecordRunLively ==
  ASSUME IInv, Lively, RecordRun
  PROVE  Lively'
<1>1. /\ UNCHANGED <<run, alarm, queue>> /\ Starter \in Threads
      /\ thread[Starter].pc = "insert"
      /\ thread' = [thread EXCEPT ![Starter] = IdleThread]
  BY ThreadNames DEF RecordRun
<1>2. IdleThread.pc = "idle"
  BY DEF IdleThread
<1>3. /\ \A S : ~Reports(thread[Starter], S)
      /\ ~Undoes(thread[Starter]) /\ ~Arms(thread[Starter])
      /\ \A c \in Comps : ~Carries(thread[Starter], c)
  BY <1>1 DEF Reports, Undoes, Arms, Carries
<1> HIDE DEF IdleThread
<1> QED
  BY <1>1, <1>2, <1>3, FrameLively DEF Alike

LEMMA FinishCompletionLively ==
  ASSUME IInv, Guarded, InTurn, Lively, run.status # "failed", Parallel = {},
         NEW t \in Threads, FinishCompletion(t)
  PROVE  run'.status = "failed" \/ Lively'
<1> DEFINE s == thread[t].step
           wait == IF s \in Comps THEN ~CompsDone(run) ELSE In(run, Steps, "running") # {}
<1>0. /\ thread[t].pc = "evidence" /\ thread[t].pc \in Held /\ s \in AllSteps
      /\ run \in RunType /\ SafeRun(run) /\ RunSeq(run)
  BY IInvFacts DEF FinishCompletion, ThreadOK, Held, RunPair, InTurn
<1>1. \/ wait /\ Return(t) /\ UNCHANGED <<run, stored, delayKey, alarm, queue, dlq, row>>
      \/ ~wait /\ s \in Comps /\ EndWith(t, "failed")
      \/ ~wait /\ s \notin Comps /\ Pending(run) = {} /\ EndWith(t, "completed")
      \/ ~wait /\ s \notin Comps /\ Pending(run) # {} /\ Advance(t, run, stored, alarm)
  BY DEF FinishCompletion
<1>2. /\ ~Arms(thread[t]) /\ \A c \in Comps : ~Carries(thread[t], c)
  BY <1>0 DEF Arms, Carries
<1>3. CASE s \in Comps
  <2>1. Undone(run) /\ run.status = "compensating" /\ CanGo(run, "failed")
    BY <1>0, <1>3, UndoneOver DEF InTurn, ThreadSeq, CanGo
  <2>2. CASE ~CompsDone(run) /\ Return(t) /\ UNCHANGED <<run, alarm, queue>>
    BY <1>0, <1>2, <2>1, <2>2, ReturnLively DEF Alike
  <2>3. CASE EndWith(t, "failed")
    <3>1. run' = [run EXCEPT !.status = "failed"]
      BY <2>1, <2>3 DEF EndWith, Save
    <3> QED
      BY <1>0, <3>1, SetStatus
  <2> QED
    BY <1>1, <1>3, <2>2, <2>3
<1>4. CASE s \in Steps
  <2>1. HolderOK(thread[t], run) /\ \A q \in Steps \ {s} : ~Current(run, q)
    BY <1>0, <1>4, TurnOf
  <2>2. Done(run, s)
    BY <1>0, <2>1 DEF HolderOK
  <2>3. /\ run.status = "running" /\ run.step[s] = "completed"
        /\ \A q \in Steps : run.step[q] \in Settled \cup {"pending"}
    <3>1. \A q \in Steps \ {s} : run.step[q] \in StepStatus /\ run.step[q] # "absent"
      BY <1>0, StepNumbers DEF RunType, RunSeq
    <3>2. \A q \in Steps \ {s} : run.step[q] \in Settled \cup {"pending"}
      BY <2>1, <3>1 DEF Current, Busy, StepStatus, Settled
    <3> QED
      BY <2>2, <3>2 DEF Done, Settled
  <2>4. ~wait /\ s \notin Comps
    BY <1>4, <2>3, StepSets DEF In, Settled
  <2>5. CASE EndWith(t, "completed")
    <3>1. Save([run EXCEPT !.status = "completed"]) /\ Suspend(t, "final", s, {})
      BY <2>3, <2>5 DEF EndWith, CanGo
    <3>2. run'.status = "completed" /\ run'.step = run.step
      BY <1>0, <3>1, SetStatus DEF Save
    <3>3. PICK th : thread' = [thread EXCEPT ![t] = th] /\ th.pc = "final"
      BY <3>1, SuspendTo
    <3>4. thread'[Alarm].pc # "alarmPublish"
      BY <3>3, OthersStay, ThreadNames DEF Lively
    <3> QED
      BY <3>2, <3>4 DEF Lively
  <2>6. CASE Advance(t, run, stored, alarm)
    BY <1>0, <2>3, <2>6, AdvanceLively DEF Lively
  <2> QED
    BY <1>1, <2>4, <2>5, <2>6
<1> QED
  BY <1>0, <1>3, <1>4, StepSets

LEMMA FinishFailureLively ==
  ASSUME IInv, Guarded, InTurn, Lively, run.status # "failed", NEW t \in Threads, FinishFailure(t)
  PROVE  run'.status = "failed" \/ Lively'
<1> DEFINE s == thread[t].step
           end == IF s \in Comps THEN CompsDone(run) ELSE NComps = 0
<1>0. /\ thread[t].pc = "failDlq" /\ thread[t].pc \in Held /\ s \in AllSteps
      /\ run \in RunType /\ RunSeq(run)
  BY IInvFacts DEF FinishFailure, ThreadOK, Held, InTurn
<1>1. \/ /\ end /\ CanGo(run, "failed")
         /\ Save([run EXCEPT !.status = "failed"])
      \/ /\ end /\ ~CanGo(run, "failed")
      \/ /\ ~end /\ s \in Comps
         /\ Save(run)
         /\ Return(t)
         /\ UNCHANGED <<alarm, queue>>
      \/ /\ ~end /\ s \in Steps
         /\ alarm' = NoTime
         /\ Compensate(t, run)
  BY DEF FinishFailure
<1>2. /\ ~Arms(thread[t]) /\ \A c \in Comps : ~Carries(thread[t], c)
  BY <1>0 DEF Arms, Carries
<1>3. s \in Comps => run.status = "compensating"
  BY <1>0, UndoneOver DEF InTurn, ThreadSeq
<1>4. s \in Steps => run.step[s] = "dlq" /\ MaxFailures # 0 /\ run.status \in {"running", "compensating"}
  <2> SUFFICES ASSUME s \in Steps
               PROVE  run.step[s] = "dlq" /\ MaxFailures # 0 /\ run.status \in {"running", "compensating"}
    OBVIOUS
  <2>1. run.step[s] = "dlq"
    BY <1>0, TurnOf DEF HolderOK
  <2>2. MaxFailures # 0
    BY <2>1 DEF Lively
  <2>3. run.status \in RunStatus /\ run.status # "none" /\ run.status # "completed"
    BY <1>0, <2>1 DEF RunType, RunSeq, Settled
  <2> QED
    BY <2>1, <2>2, <2>3 DEF RunStatus
<1>5. CanGo(run, "failed")
  BY <1>0, <1>3, <1>4, StepSets DEF CanGo
<1>6. CASE Save([run EXCEPT !.status = "failed"])
  BY <1>0, <1>6, SetStatus DEF Save
<1>7. CASE ~end /\ s \in Comps /\ Save(run) /\ Return(t) /\ UNCHANGED <<alarm, queue>>
  BY <1>0, <1>2, <1>3, <1>7, ReturnLively DEF Alike, Save
<1>8. CASE s \in Steps /\ alarm' = NoTime /\ Compensate(t, run)
  <2>1. CASE run.status = "running" /\ PushComp(t, [run EXCEPT !.status = "compensating"], run, Comps)
    <3> DEFINE r == [run EXCEPT !.status = "compensating"]
    <3>1. "compensating" \in RunStatus
      BY DEF RunStatus
    <3>2. r \in RunType /\ r.status = "compensating" /\ r.step = run.step
      BY <1>0, <3>1, SetStatusFacts, SetStatus
    <3>3. PushComp(t, r, run, Comps)
      BY <2>1
    <3> HIDE DEF r
    <3>4. /\ \A c \in Comps : r.step[c] = "absent"
          /\ \A u \in Threads : Started(thread[u], r)
      BY <2>1, <3>2, RunningUndone
    <3>5. /\ Pursued(run', thread', queue', alarm') /\ thread'[Alarm].pc # "alarmPublish"
          /\ \A q \in Steps : run'.step[q] = run.step[q]
          /\ run'.status = "compensating"
      BY <3>2, <3>3, <3>4, PushPursued DEF Lively
    <3> QED
      BY <3>5 DEF Lively
  <2>2. CASE run.status = "compensating" /\ run' = run /\ Throw(t) /\ UNCHANGED queue
    <3>1. PICK th : thread' = [thread EXCEPT ![t] = th] /\ th.pc = "threw"
      BY <2>2, ThrowTo
    <3>2. \A u \in Threads : thread'[u] = IF u = t THEN th ELSE thread[u]
      BY <3>1, OthersStay
    <3>3. thread'[Alarm].pc # "alarmPublish"
      BY <3>1, <3>2, ThreadNames DEF Lively
    <3>4. ~Undoes(thread[t])
      BY <1>0, <1>8, StepSets DEF Undoes, Reports
    <3>5. Pursued(run, thread, queue, alarm) /\ MaxFailures # 0
      BY <1>4, <1>8, <2>2 DEF Lively
    <3>6. Pursued(run', thread', queue', alarm')
      <4>1. \A u \in Threads : Started(thread'[u], run')
        BY <2>2, <3>1, <3>2, <3>5 DEF Pursued, Started
      <4> QED
        BY <1>2, <2>2, <3>2, <3>4, <3>5, <4>1, ThreadNames DEF Pursued
    <3> QED
      BY <2>2, <3>3, <3>6 DEF Lively
  <2> QED
    BY <1>4, <1>8, <2>1, <2>2 DEF Compensate, CanGo, Save
<1> QED
  BY <1>1, <1>5, <1>6, <1>7, <1>8

\* A compensation that stops running leaves a thread that will look whether the
\* undoing is over.
LEMMA CompLeaves ==
  ASSUME IInv, Pursued(run, thread, queue, alarm),
         NEW t \in Threads, NEW th, thread' = [thread EXCEPT ![t] = th], Undoes(th),
         NEW c \in Comps, run'.step[c] # "running", run'.att[c] >= 1, run'.due[c] # NoTime,
         \A q \in Comps \ {c} : /\ run'.step[q] = run.step[q] /\ run'.att[q] = run.att[q]
                                /\ run'.due[q] = run.due[q],
         Arms(th) \/ (alarm' = alarm /\ ~Arms(thread[t])), UNCHANGED queue,
         \A q \in Comps : t \in Executors /\ Carries(thread[t], q) => q = c,
         run'.step[c] # "absent", Started(th, run')
  PROVE  Pursued(run', thread', queue', alarm')
<1>1. \A u \in Threads : thread'[u] = IF u = t THEN th ELSE thread[u]
  BY DEF IInv
<1>2. ~CompsDone(run') => ~CompsDone(run)
  BY DEF CompsDone, In
<1>3. \A q \in Comps : run'.step[q] # "absent" => run'.att[q] >= 1 /\ run'.due[q] # NoTime
  BY DEF Pursued
<1>4. CompsDone(run') => \E u \in Threads : Undoes(thread'[u])
  BY <1>1
<1>5. MaxFailures = 0 /\ ~CompsDone(run') => alarm' # NoTime \/ \E u \in Threads : Arms(thread'[u])
  BY <1>1, <1>2 DEF Pursued
<1>6. ASSUME MaxLosses = 0, NEW q \in Comps, run'.step[q] = "running"
      PROVE  queue'[q] > 0 \/ \E w \in Executors : Carries(thread'[w], q)
  <2>1. q # c /\ run.step[q] = "running"
    BY <1>6
  <2>2. queue[q] > 0 \/ \E w \in Executors : Carries(thread[w], q) /\ w # t
    BY <1>6, <2>1 DEF Pursued
  <2> QED
    BY <1>1, <2>2, ThreadNames
<1>7. \A u \in Threads : Started(thread'[u], run')
  BY <1>1 DEF Pursued, Started
<1> QED
  BY <1>3, <1>4, <1>5, <1>6, <1>7 DEF Pursued

LEMMA GuardedNeverRetried ==
  ASSUME Guarded
  PROVE  NeverRetried
  BY StepNumbers DEF Guarded, NeverRetried

LEMMA CompleteLively ==
  ASSUME IInv, Guarded, InTurn, Lively, run.status # "failed",
         NEW w \in Executors, thread[w].pc \in {"handler", "replay"},
         NEW call, CompleteCall(w, thread[w].step, call)
  PROVE  Lively'
<1> DEFINE s == thread[w].step
           th == [pc |-> "progress", step |-> s, todo |-> {}, call |-> call]
<1>0. /\ w \in Threads /\ s \in AllSteps /\ UNCHANGED <<alarm, queue>> /\ run \in RunType
      /\ thread[w].pc \in Held
  BY ThreadNames, IInvFacts DEF ThreadOK, CompleteCall, Held
<1>1. /\ thread[w].pc # "advance" /\ ~Arms(thread[w]) /\ ~Undoes(thread[w])
      /\ \A S : ~Reports(thread[w], S)
      /\ \A c \in Comps : Carries(thread[w], c) => c = s
  BY DEF Arms, Undoes, Reports, Carries
<1>2. CASE run.step[s] # "running"
  <2>1. UNCHANGED run /\ Return(w)
    BY <1>2 DEF CompleteCall
  <2> QED
    BY <1>0, <1>1, <1>2, <2>1, ReturnLively DEF Alike
<1>3. CASE run.step[s] = "running"
  <2>1. run' = [run EXCEPT !.step[s] = "completed"] /\ thread' = [thread EXCEPT ![w] = th]
    BY <1>3 DEF CompleteCall
  <2>2. /\ run'.status = run.status /\ run'.att = run.att /\ run'.due = run.due
        /\ \A q \in AllSteps : run'.step[q] = IF q = s THEN "completed" ELSE run.step[q]
    BY <1>0, <2>1 DEF RunType
  <2>3. th.pc = "progress" /\ th.step = s
    OBVIOUS
  <2> HIDE DEF th
  <2>4. thread'[Alarm].pc # "alarmPublish"
    BY <1>0, <2>1, <2>3, OthersStay, ThreadNames DEF Lively
  <2>5. \A q \in Steps : run'.step[q] # "waiting" /\ (MaxFailures = 0 => run'.step[q] # "dlq")
    BY <2>2, StepNumbers DEF Lively
  <2>6. CASE s \in Comps
    <3>1. run.status = "compensating"
      BY <1>3, <2>6, RunningUndone
    <3>2. Pursued(run, thread, queue, alarm) /\ run.att[s] >= 1 /\ run.due[s] # NoTime
      BY <1>3, <2>6, <3>1 DEF Lively, Pursued
    <3>3. Undoes(th)
      BY <2>3, <2>6 DEF Undoes, Reports
    <3>4. /\ run'.step[s] = "completed" /\ run'.att[s] >= 1 /\ run'.due[s] # NoTime
          /\ \A q \in Comps \ {s} : /\ run'.step[q] = run.step[q] /\ run'.att[q] = run.att[q]
                                   /\ run'.due[q] = run.due[q]
      BY <1>0, <2>2, <3>2, StepSets
    <3>5. Pursued(run', thread', queue', alarm')
      BY <1>0, <1>1, <2>1, <2>3, <2>6, <3>2, <3>3, <3>4, CompLeaves DEF Started
    <3> QED
      BY <2>2, <2>4, <2>5, <3>1, <3>5 DEF Lively
  <2>7. CASE s \in Steps
    <3>1. run.status = "running"
      BY <1>3, <2>7, GuardedNeverRetried DEF InTurn, RunSeq
    <3>2. thread'[w] = th
      BY <1>0, <2>1, OthersStay
    <3>3. Watched(run', thread', alarm')
      BY <1>0, <2>3, <2>7, <3>2 DEF Watched, Reports
    <3> QED
      BY <2>2, <2>4, <2>5, <3>1, <3>3 DEF Lively
  <2> QED
    BY <1>0, <2>6, <2>7, StepSets
<1> QED
  BY <1>2, <1>3

LEMMA FailLively ==
  ASSUME IInv, Guarded, InTurn, Lively, run.status # "failed", NEW w \in Executors,
         \/ thread[w].pc = "handler" /\ MaxFailures # 0
         \/ thread[w].pc = "threw" /\ thread[w].call = "complete",
         FailCall(w, thread[w].step)
  PROVE  Lively'
<1> DEFINE s == thread[w].step
           failed == [run EXCEPT !.att[s] = @ + 1]
           th == [pc |-> "failEvidence", step |-> s, todo |-> {}, call |-> "fail"]
<1>0. /\ w \in Threads /\ s \in AllSteps /\ UNCHANGED queue /\ run \in RunType
      /\ thread[w].pc \in Held /\ MaxRetries[s] \in Nat
  BY ThreadNames, IInvFacts, DefinitionAssumption DEF ThreadOK, FailCall, Held
<1>8. MaxFailures # 0 /\ MaxRetries[s] <= 1
  <2>1. CASE s \in Comps
    <3>1. thread[w].pc # "threw"
      BY <1>0, <2>1 DEF InTurn, ThreadSeq
    <3> QED
      BY <1>0, <3>1 DEF Guarded
  <2>2. CASE s \in Steps
    <3>1. HolderOK(thread[w], run)
      BY <1>0, <2>2, TurnOf
    <3>2. thread[w].pc = "handler"
      BY <3>1 DEF HolderOK
    <3> QED
      BY <1>0, <3>2 DEF Guarded
  <2> QED
    BY <1>0, <2>1, <2>2, StepSets
<1>1. /\ thread[w].pc # "advance" /\ ~Arms(thread[w]) /\ ~Undoes(thread[w])
      /\ \A S : ~Reports(thread[w], S)
      /\ \A c \in Comps : Carries(thread[w], c) => c = s
  BY DEF Arms, Undoes, Reports, Carries
<1>2. /\ failed \in RunType /\ failed.status = run.status /\ failed.step = run.step
      /\ failed.due = run.due /\ run.att[s] \in Nat /\ failed.att[s] = run.att[s] + 1
      /\ failed.att = [run.att EXCEPT ![s] = @ + 1]
  BY <1>0 DEF RunType
<1>3. \/ run.step[s] = "absent" /\ Return(w) /\ UNCHANGED <<run, alarm>>
      \/ run.step[s] # "absent" /\ failed.att[s] <= MaxRetries[s]
      \/ /\ run.step[s] # "absent" /\ run' = [failed EXCEPT !.step[s] = "dlq"]
         /\ thread' = [thread EXCEPT ![w] = th]
         /\ UNCHANGED alarm
  BY DEF FailCall
<1>4. CASE run.step[s] = "absent" /\ Return(w) /\ UNCHANGED <<run, alarm>>
  BY <1>0, <1>1, <1>4, ReturnLively DEF Alike
<1>5. ASSUME run.step[s] # "absent" PROVE run.att[s] >= 1
  <2>1. CASE s \in Comps
    <3>1. run.status = "compensating"
      BY <1>5, <2>1, RunningUndone
    <3> QED
      BY <1>5, <2>1, <3>1 DEF Lively, Pursued
  <2>2. CASE s \in Steps
    <3>1. run.step[s] \in {"running", "failed", "dlq"}
      BY <1>0, <2>2, TurnOf DEF HolderOK, Open
    <3> QED
      BY <2>2, <3>1, GuardedNeverRetried DEF InTurn, RunSeq
  <2> QED
    BY <1>0, <2>1, <2>2, StepSets
<1>6. run.step[s] # "absent" => ~(failed.att[s] <= MaxRetries[s])
  BY <1>0, <1>2, <1>5, <1>8
<1>7. CASE /\ run.step[s] # "absent" /\ run' = [failed EXCEPT !.step[s] = "dlq"]
           /\ thread' = [thread EXCEPT ![w] = th]
           /\ UNCHANGED alarm
  <2>1. th.pc = "failEvidence" /\ th.step = s
    OBVIOUS
  <2> HIDE DEF th, failed
  <2>2. /\ run'.status = run.status /\ run'.due = run.due
        /\ \A q \in AllSteps : /\ run'.step[q] = IF q = s THEN "dlq" ELSE run.step[q]
                               /\ run'.att[q] = IF q = s THEN run.att[s] + 1 ELSE run.att[q]
    BY <1>0, <1>2, <1>7 DEF RunType
  <2>3. thread'[Alarm].pc # "alarmPublish"
    BY <1>0, <1>7, <2>1, OthersStay, ThreadNames DEF Lively
  <2>4. CASE s \in Comps
    <3>1. run.status = "compensating"
      BY <1>7, <2>4, RunningUndone
    <3>2. Pursued(run, thread, queue, alarm) /\ run'.att[s] >= 1 /\ run'.due[s] # NoTime
      BY <1>0, <1>2, <1>5, <1>7, <2>2, <2>4, <3>1 DEF Lively, Pursued
    <3>3. Undoes(th)
      BY <2>1, <2>4 DEF Undoes, Reports
    <3>4. \A q \in Comps \ {s} : /\ run'.step[q] = run.step[q] /\ run'.att[q] = run.att[q]
                                 /\ run'.due[q] = run.due[q]
      BY <2>2, StepSets
    <3>5. run'.step[s] = "dlq" /\ Started(th, run')
      BY <1>0, <2>1, <2>2 DEF Started
    <3>6. Pursued(run', thread', queue', alarm')
      BY <1>0, <1>1, <1>7, <2>4, <3>2, <3>3, <3>4, <3>5, CompLeaves
    <3>7. \A q \in Steps : run'.step[q] = run.step[q]
      BY <2>2, <2>4, StepSets
    <3> QED
      BY <2>2, <2>3, <3>1, <3>6, <3>7 DEF Lively
  <2>5. CASE s \in Steps
    <3>1. HolderOK(thread[w], run)
      BY <1>0, <2>5, TurnOf
    <3>2. MaxFailures # 0
      BY <3>1 DEF HolderOK
    <3>3. run.status # "completed" /\ run.status # "none"
      BY <2>5, <3>1 DEF HolderOK, Open, InTurn, RunSeq, Settled
    <3>4. \A q \in Steps : run'.step[q] # "waiting"
      BY <2>2, StepNumbers DEF Lively
    <3>5. thread'[w] = th
      BY <1>0, <1>7 DEF IInv
    <3>6. Watched(run', thread', alarm')
      BY <1>0, <2>1, <2>5, <3>5 DEF Watched, Reports
    <3>7. ASSUME run.status = "compensating" PROVE Pursued(run', thread', queue', alarm')
      <4>1. \A c \in Comps : /\ run'.step[c] = run.step[c] /\ run'.att[c] = run.att[c]
                             /\ run'.due[c] = run.due[c]
        BY <2>2, <2>5, StepSets
      <4>2. \A c \in Comps : ~Carries(thread[w], c)
        BY <1>1, <2>5, StepSets
      <4>3. Pursued(run, thread, queue, alarm)
        BY <3>7 DEF Lively
      <4>4. th.pc # "alarmDlq"
        BY <2>1
      <4> QED
        BY <1>0, <1>1, <1>7, <2>1, <4>1, <4>2, <4>3, <4>4, FramePursued DEF Arms, Undoes
    <3> QED
      BY <2>2, <2>3, <3>2, <3>4, <3>6, <3>7 DEF Lively
  <2> QED
    BY <1>0, <2>4, <2>5, StepSets
<1> QED
  BY <1>3, <1>4, <1>6, <1>7

LEMMA ExecuteLively ==
  ASSUME IInv, SpentOK, Guarded, InTurn, Lively, run.status # "failed", NEW w \in Executors, Execute(w)
  PROVE  Lively'
<1>0. w \in Threads
  BY ThreadNames
<1>1. CASE HandlerSucceeds(w) \/ Replay(w)
  BY <1>1, CompleteLively DEF HandlerSucceeds, Replay
<1>2. CASE HandlerFails(w)
  <2>1. MaxFailures # 0
    BY <1>2 DEF HandlerFails, Spend, SpentOK, Budget
  <2> QED
    BY <1>2, <2>1, FailLively DEF HandlerFails
<1>3. CASE Rejected(w) /\ thread[w].call = "complete"
  BY <1>3, FailLively DEF Rejected
<1>4. CASE Rejected(w) /\ thread[w].call # "complete"
  <2>1. /\ thread[w].pc = "threw" /\ Publish(thread[w].step) /\ Return(w)
        /\ UNCHANGED <<run, alarm>>
    BY <1>4 DEF Rejected
  <2>2. thread[w].step \in AllSteps /\ \A c \in Comps : queue[c] > 0 => queue'[c] > 0
    BY <1>0, <2>1, IInvFacts, StepSets DEF Publish, ThreadOK
  <2>3. PICK th : thread' = [thread EXCEPT ![w] = th] /\ th.pc \in {"idle", "insert"}
    BY <1>0, <2>1, ReturnTo
  <2>4. /\ \A S : ~Reports(thread[w], S)
        /\ ~Undoes(thread[w]) /\ ~Arms(thread[w]) /\ \A c \in Comps : ~Carries(thread[w], c)
    BY <2>1 DEF Reports, Undoes, Arms, Carries
  <2> QED
    BY <1>0, <2>1, <2>2, <2>3, <2>4, FrameLively DEF Alike
<1> QED
  BY <1>1, <1>2, <1>3, <1>4 DEF Execute, Rejected

LEMMA DeliverLively ==
  ASSUME IInv, Lively, NEW w \in Executors, NEW s \in AllSteps, Deliver(w, s)
  PROVE  Lively'
<1>0. w \in Threads /\ thread[w].pc = "idle" /\ UNCHANGED <<run, alarm>>
  BY ThreadNames DEF Deliver
<1>1. \A c \in Comps \ {s} : queue'[c] = queue[c]
  BY IInvFacts, StepSets DEF Deliver, Receive, Take
<1>2. PICK th : /\ thread' = [thread EXCEPT ![w] = th]
                /\ \/ th = thread[w] /\ run.step[s] # "running"
                   \/ th.pc \in {"handler", "replay"} /\ th.step = s
  <2>1. CASE UNCHANGED thread /\ run.step[s] # "running"
    BY <1>0, <2>1 DEF IInv
  <2>2. CASE \E next \in {"handler", "replay"} : Suspend(w, next, s, {})
    BY <1>0, <2>2, SuspendTo
  <2> QED
    BY <2>1, <2>2 DEF Deliver
<1>3. /\ \A S : ~Reports(thread[w], S)
      /\ ~Undoes(thread[w]) /\ ~Arms(thread[w]) /\ \A c \in Comps : ~Carries(thread[w], c)
  BY <1>0 DEF Reports, Undoes, Arms, Carries
<1>4. \A c \in Comps : run.step[c] = "running" => (queue[c] > 0 => queue'[c] > 0) \/ Carries(th, c)
  BY <1>1, <1>2 DEF Carries
<1>5. th.pc # "alarmPublish"
  BY <1>0, <1>2
<1> QED
  BY <1>0, <1>2, <1>3, <1>4, <1>5, FrameLively DEF Alike

LEMMA LoseLively ==
  ASSUME IInv, SpentOK, Lively, NEW s \in AllSteps, Lose(s)
  PROVE  Lively'
<1>1. MaxLosses # 0 /\ UNCHANGED <<run, alarm, thread>> /\ Alarm \in Threads
  BY ThreadNames DEF Lose, Spend, SpentOK, Budget
<1>2. thread' = [thread EXCEPT ![Alarm] = thread[Alarm]] /\ thread[Alarm].pc # "alarmPublish"
  BY <1>1 DEF IInv, Lively
<1> QED
  BY <1>1, <1>2, FrameLively DEF Alike

-----------------------------------------------------------------------------
(* The alarm sees to the run, or there is somebody else who does *)

SameComps(r, r2) ==
  \A c \in Comps : r2.step[c] = r.step[c] /\ r2.att[c] = r.att[c] /\ r2.due[c] = r.due[c]

\* Timing steps out makes no step waiting or dead-lettered.
LEMMA LateSteps ==
  ASSUME Lively, NEW r, Calm(run, r)
  PROVE  \A s \in Steps : r.step[s] # "waiting" /\ (MaxFailures = 0 => r.step[s] # "dlq")
  BY DEF Lively, Calm

LEMMA AlarmEndLively ==
  ASSUME IInv, Guarded, Lively, run.status # "failed", NEW r, Late(run, r), SameComps(run, r),
         NEW hit, NEW al, AlarmEnd(r, hit, al),
         run.status = "running" /\ ~hit =>
           \/ \E t \in Threads \ {Alarm} : Reports(thread[t], Steps)
           \/ \E s \in Steps : /\ r.step[s] = "running" /\ r.due[s] # NoTime
                               /\ \E t \in Threads \ {Alarm} : thread[t].pc = "advance"
  PROVE  run'.status = "failed" \/ Lively'
<1>0. r \in RunType /\ r.status = run.status /\ Alarm \in Threads
  BY ThreadNames DEF Late
<1>1. \A s \in Steps : r.step[s] # "waiting" /\ (MaxFailures = 0 => r.step[s] # "dlq")
  BY LateSteps DEF Late
<1>2. CASE r.status = "running" /\ PushComp(Alarm, [r EXCEPT !.status = "compensating"], r, Comps)
  <2> DEFINE r2 == [r EXCEPT !.status = "compensating"]
  <2>1. "compensating" \in RunStatus
    BY DEF RunStatus
  <2>2. r2 \in RunType /\ r2.status = "compensating" /\ r2.step = r.step
    BY <1>0, <2>1, SetStatus, SetStatusFacts
  <2>3. PushComp(Alarm, r2, r, Comps)
    BY <1>2
  <2> HIDE DEF r2
  <2>4. /\ \A c \in Comps : r2.step[c] = "absent"
        /\ \A u \in Threads : Started(thread[u], r2)
    BY <1>0, <1>2, <2>2, RunningUndone DEF SameComps
  <2>5. /\ Pursued(run', thread', queue', alarm') /\ thread'[Alarm].pc # "alarmPublish"
        /\ \A s \in Steps : run'.step[s] = r.step[s]
        /\ run'.status = "compensating"
    BY <1>0, <2>2, <2>3, <2>4, PushPursued DEF Lively
  <2> QED
    BY <1>1, <2>5 DEF Lively
<1>3. CASE Save([r EXCEPT !.status = "failed"])
  BY <1>0, <1>3, SetStatus DEF Save
<1>4. CASE /\ Save(r) /\ Return(Alarm) /\ UNCHANGED queue
           /\ \/ r.status = "compensating" /\ ~CompsDone(r) /\ ArmDeadline(r, al)
              \/ r.status \in Terminal \/ (r.status = "running" /\ ~hit)
  <2>1. PICK th : thread' = [thread EXCEPT ![Alarm] = th] /\ th.pc \in {"idle", "insert"}
    BY <1>0, <1>4, ReturnTo
  <2>2. \A u \in Threads : thread'[u] = IF u = Alarm THEN th ELSE thread[u]
    BY <1>0, <2>1 DEF IInv
  <2>3. run' = r /\ thread'[Alarm].pc # "alarmPublish"
    BY <1>0, <1>4, <2>1, <2>2 DEF Save
  <2>4. CASE r.status = "compensating" /\ ~CompsDone(r) /\ ArmDeadline(r, al)
    <3>1. Pursued(run, thread, queue, alarm) /\ ~CompsDone(run')
      BY <1>0, <2>3, <2>4 DEF Lively
    <3>2. alarm' # NoTime
      BY <2>4, <3>1, RunningComp, ArmedAlarm, StepSets DEF Pursued, SameComps
    <3>3. \A w \in Executors : thread'[w] = thread[w]
      BY <2>2, ThreadNames
    <3>4. \A u \in Threads : Started(thread'[u], run')
      BY <2>1, <2>2, <2>3, <3>1 DEF Pursued, SameComps, Started
    <3>5. Pursued(run', thread', queue', alarm')
      BY <1>4, <2>3, <3>1, <3>2, <3>3, <3>4 DEF Pursued, SameComps
    <3> QED
      BY <1>1, <2>3, <2>4, <3>5 DEF Lively
  <2>5. CASE r.status = "running" /\ ~hit
    <3>1. \/ \E t \in Threads \ {Alarm} : Reports(thread[t], Steps)
          \/ \E s \in Steps : /\ r.step[s] = "running" /\ r.due[s] # NoTime
                              /\ \E t \in Threads \ {Alarm} : thread[t].pc = "advance"
      BY <1>0, <2>5
    <3>2. Watched(run', thread', alarm')
      BY <2>2, <2>3, <3>1 DEF Watched
    <3> QED
      BY <1>1, <2>3, <2>5, <3>2 DEF Lively
  <2>6. CASE r.status \in Terminal
    BY <1>1, <2>3, <2>6 DEF Lively, Terminal
  <2> QED
    BY <1>4, <2>4, <2>5, <2>6
<1>5. r.status = "running" => CanGo(r, "compensating")
  BY DEF CanGo
<1> QED
  BY <1>2, <1>3, <1>4, <1>5 DEF AlarmEnd, Compensate

LEMMA TimeOutLively ==
  ASSUME IInv, Lively, run.status = "compensating", NEW r, Late(run, r), SameComps(run, r),
         NEW st, NEW al, NEW late \in SUBSET Comps, \A c \in late : run.step[c] # "absent",
         TimeOut(r, st, al, late)
  PROVE  Lively'
<1>0. r \in RunType /\ r.status = run.status /\ Alarm \in Threads /\ Alarm \notin Executors
  BY ThreadNames DEF Late
<1>1. PICK c \in late : /\ run' = [r EXCEPT !.step[c] = "failed"]
                        /\ Suspend(Alarm, "alarmDlq", c, late \ {c})
                        /\ UNCHANGED queue
  BY DEF TimeOut
<1>2. /\ run'.status = "compensating" /\ run'.att = r.att /\ run'.due = r.due
      /\ \A q \in AllSteps : run'.step[q] = IF q = c THEN "failed" ELSE r.step[q]
  BY <1>0, <1>1 DEF RunType
<1>3. PICK th : thread' = [thread EXCEPT ![Alarm] = th] /\ th.pc = "alarmDlq" /\ th.todo = late \ {c}
  BY <1>0, <1>1, SuspendTo
<1>4. thread'[Alarm].pc # "alarmPublish"
  BY <1>0, <1>3 DEF IInv
<1>5. \A s \in Steps : run'.step[s] # "waiting" /\ (MaxFailures = 0 => run'.step[s] # "dlq")
  BY <1>2, LateSteps, StepSets DEF Late
<1>6. Undoes(th) /\ Arms(th)
  BY <1>3 DEF Undoes, Arms
<1>7. c \in Comps /\ run.step[c] # "absent" /\ Pursued(run, thread, queue, alarm)
  BY <1>1 DEF Lively
<1>8. /\ run'.step[c] = "failed" /\ run'.att[c] >= 1 /\ run'.due[c] # NoTime
      /\ \A q \in Comps \ {c} : /\ run'.step[q] = run.step[q] /\ run'.att[q] = run.att[q]
                                /\ run'.due[q] = run.due[q]
  BY <1>2, <1>7, StepSets DEF Pursued, SameComps
<1>9. Started(th, run')
  BY <1>3, <1>8 DEF Started
<1>10. Pursued(run', thread', queue', alarm')
  BY <1>0, <1>1, <1>3, <1>6, <1>7, <1>8, <1>9, CompLeaves
<1> QED
  BY <1>2, <1>4, <1>5, <1>10 DEF Lively

LEMMA FailLateComps ==
  ASSUME NEW r \in RunType, NEW late
  PROVE  /\ SameComps(r, FailLate(r, late)) /\ FailLate(r, late).due = r.due
         /\ \A s \in Steps : s \notin late => FailLate(r, late).step[s] = r.step[s]
  BY StepSets DEF FailLate, SameComps, RunType

\* When the alarm fires, either the step that it was set for is late, or somebody
\* else sees to the run.
LEMMA CheckDeadlinesLively ==
  ASSUME IInv, Guarded, Lively, run.status # "failed", alarm = 0, thread[Alarm].pc = "idle",
         NEW st, NEW al, CheckDeadlines(run, st, al)
  PROVE  run'.status = "failed" \/ Lively'
<1> DEFINE late == Overdue(run)
           next == FailLate(run, late)
<1>0. /\ run \in RunType /\ Alarm \in Threads /\ late \subseteq In(run, AllSteps, "running")
      /\ late \subseteq AllSteps /\ \A s \in late : run.step[s] = "running"
  BY IInvFacts, ThreadNames DEF Overdue, In
<1>1. /\ Late(run, next) /\ SameComps(run, next) /\ next.due = run.due
      /\ \A s \in Steps : s \notin late => next.step[s] = run.step[s]
  BY <1>0, FailLateLate, FailLateComps
<1>2. \A s \in Steps : run.step[s] = "running" /\ run.due[s] = 0 => s \in late
  BY StepNumbers DEF Overdue, In
<1>3. \/ /\ run.status \notin {"running", "compensating"}
         /\ run' = run /\ Return(Alarm) /\ UNCHANGED queue
      \/ late \cap Comps = {} /\ AlarmEnd(next, late # {}, al)
      \/ late \cap Comps # {} /\ TimeOut(next, st, al, late \cap Comps)
  BY DEF CheckDeadlines
<1> HIDE DEF late, next
<1>4. CASE /\ run.status \notin {"running", "compensating"}
           /\ run' = run /\ Return(Alarm) /\ UNCHANGED queue
  <2>1. PICK th : thread' = [thread EXCEPT ![Alarm] = th] /\ th.pc \in {"idle", "insert"}
    BY <1>0, <1>4, ReturnTo
  <2>2. thread'[Alarm].pc # "alarmPublish"
    BY <1>0, <2>1, OthersStay
  <2> QED
    BY <1>4, <2>2 DEF Lively
<1>5. CASE AlarmEnd(next, late # {}, al)
  <2>1. ASSUME run.status = "running", late = {}
        PROVE  \/ \E t \in Threads \ {Alarm} : Reports(thread[t], Steps)
               \/ \E s \in Steps : /\ next.step[s] = "running" /\ next.due[s] # NoTime
                                   /\ \E t \in Threads \ {Alarm} : thread[t].pc = "advance"
    <3>1. CASE \E t \in Threads : Reports(thread[t], Steps)
      BY <3>1 DEF Reports
    <3>2. ASSUME NEW s \in Steps, run.step[s] = "running", run.due[s] # NoTime,
                 alarm = run.due[s] \/ \E t \in Threads : thread[t].pc = "advance"
          PROVE  /\ next.step[s] = "running" /\ next.due[s] # NoTime
                 /\ \E t \in Threads \ {Alarm} : thread[t].pc = "advance"
      <4>1. s \notin late /\ run.due[s] # 0
        BY <1>2, <2>1, <3>2
      <4>2. PICK t \in Threads : thread[t].pc = "advance"
        BY <3>2, <4>1
      <4>3. t # Alarm
        BY <4>2
      <4> QED
        BY <1>1, <3>2, <4>1, <4>2, <4>3
    <3> QED
      BY <2>1, <3>1, <3>2 DEF Lively, Watched
  <2> QED
    BY <1>1, <1>5, <2>1, AlarmEndLively
<1>6. CASE late \cap Comps # {} /\ TimeOut(next, st, al, late \cap Comps)
  <2>1. run.status = "compensating"
    BY <1>0, <1>6, RunningUndone
  <2>2. late \cap Comps \in SUBSET Comps /\ \A c \in late \cap Comps : run.step[c] # "absent"
    BY <1>0
  <2> QED
    BY <1>1, <1>6, <2>1, <2>2, TimeOutLively
<1> QED
  BY <1>3, <1>4, <1>5, <1>6

LEMMA AlarmFiresLively ==
  ASSUME IInv, Guarded, Lively, run.status # "failed", AlarmFires
  PROVE  run'.status = "failed" \/ Lively'
<1>1. In(run, Steps, "waiting") = {}
  BY DEF Lively, In
<1>2. CheckDeadlines(run, stored, NoTime) /\ alarm = 0 /\ thread[Alarm].pc = "idle"
  BY <1>1 DEF AlarmFires, DispatchDelayed
<1> QED
  BY <1>2, CheckDeadlinesLively

LEMMA AlarmDeadLetteredLively ==
  ASSUME IInv, Guarded, Lively, run.status # "failed", AlarmDeadLettered
  PROVE  run'.status = "failed" \/ Lively'
<1>1. Undone(run) /\ thread[Alarm].todo \in SUBSET Comps /\ run \in RunType
  BY ThreadNames, IInvFacts DEF AlarmDeadLettered, ThreadOK
<1>2. run.status = "compensating" /\ Late(run, run) /\ SameComps(run, run)
  BY <1>1, UndoneOver, LateSame DEF SameComps
<1>3. CASE TimeOut(run, stored, alarm, thread[Alarm].todo)
  <2>1. \A c \in thread[Alarm].todo : run.step[c] # "absent"
    BY <1>1, <1>2, ThreadNames DEF Lively, Pursued, Started, AlarmDeadLettered
  <2> QED
    BY <1>1, <1>2, <1>3, <2>1, TimeOutLively
<1>4. CASE AlarmEnd(run, TRUE, alarm)
  BY <1>2, <1>4, AlarmEndLively
<1> QED
  BY <1>3, <1>4 DEF AlarmDeadLettered

LEMMA TickLively ==
  ASSUME IInv, Lively, Tick
  PROVE  Lively'
<1>1. /\ UNCHANGED <<thread, queue>> /\ alarm' = Down(alarm)
      /\ run'.status = run.status /\ run'.step = run.step /\ run'.att = run.att
      /\ \A s \in AllSteps : run'.due[s] = Down(run.due[s])
  BY IInvFacts DEF Tick, RunType
<1>2. alarm \in Time /\ \A s \in AllSteps : run.due[s] \in Time
  BY IInvFacts DEF RunType, Time
<1>3. /\ alarm # NoTime => alarm' # NoTime
      /\ \A s \in AllSteps : /\ run.due[s] # NoTime => run'.due[s] # NoTime
                             /\ alarm = run.due[s] => alarm' = run'.due[s]
  BY <1>1, <1>2 DEF Down, Time, NoTime
<1>4. ASSUME run.status = "running" PROVE Watched(run', thread', alarm')
  BY <1>1, <1>3, <1>4, StepNumbers DEF Lively, Watched
<1>5. ASSUME run.status = "compensating" PROVE Pursued(run', thread', queue', alarm')
  BY <1>1, <1>3, <1>5, StepSets DEF Lively, Pursued, CompsDone, In, Started
<1> QED
  BY <1>1, <1>4, <1>5 DEF Lively

LEMMA ObjectLively ==
  ASSUME IInv, Guarded, Parallel = {}, InTurn, Lively, run.status # "failed", Object
  PROVE  run'.status = "failed" \/ Lively'
<1>1. CASE \E t \in Threads : Resume(t)
  <2>1. PICK t \in Threads : Resume(t)
    BY <1>1
  <2> QED
    BY <2>1, ContinueAdvanceLively, ContinueCompensateLively, RecordCompletionLively,
       FinishCompletionLively, WriteFinalLively, EmitFailureLively, FinishFailureLively DEF Resume
<1>2. ~AlarmPublished
  BY DEF Lively, AlarmPublished
<1> QED
  BY <1>1, <1>2, StartLively, RecordRunLively, AlarmFiresLively, AlarmDeadLetteredLively
     DEF Object, Handlers, ResumeAlarm

LEMMA StepLively ==
  ASSUME IInv, SpentOK, Sequential, Guarded, InTurn, Lively, run.status # "failed", [Next]_vars
  PROVE  run'.status = "failed" \/ Lively'
<1>0. Parallel = {} /\ ~Eviction
  BY NoEviction DEF Sequential
<1>1. CASE Object
  BY <1>0, <1>1, ObjectLively
<1>2. CASE Clock
  BY <1>2, TickLively DEF Clock
<1>3. CASE Cancellation
  <2>1. run' = [run EXCEPT !.status = "failed"]
    BY <1>3 DEF Cancellation, Cancel, Save
  <2> QED
    BY <2>1, IInvFacts, SetStatus
<1>4. CASE \E w \in Executors : Execute(w) \/ \E s \in AllSteps : Deliver(w, s)
  BY <1>4, ExecuteLively, DeliverLively
<1>5. CASE \E s \in AllSteps : Lose(s)
  BY <1>5, LoseLively
<1>6. CASE UNCHANGED vars
  BY <1>6 DEF vars, Lively
<1> QED
  BY <1>0, <1>1, <1>2, <1>3, <1>4, <1>5, <1>6 DEF Next, Stopped

LivelyUnlessFailed == run.status = "failed" \/ Lively

THEOREM StaysLively ==
  ASSUME Sequential, Guarded
  PROVE  Spec => []LivelyUnlessFailed
<1>1. SystemInit => LivelyUnlessFailed
  <2> SUFFICES ASSUME SystemInit PROVE Lively
    BY DEF LivelyUnlessFailed
  <2>1. run.status = "none" /\ \A s \in Steps : run.step[s] = "pending"
    BY NewRunFacts, StepNumbers DEF SystemInit, Init, NoRun, NewRun
  <2>2. thread[Alarm].pc = "idle"
    BY ThreadNames DEF SystemInit, Init, IdleThread
  <2> QED
    BY <2>1, <2>2 DEF Lively
<1>2. IInv /\ Cancellable /\ LivelyUnlessFailed /\ [Next]_vars => LivelyUnlessFailed'
  BY StepLively, FailedStays DEF Cancellable, LivelyUnlessFailed, Sequential
<1> QED
  BY <1>1, <1>2, Invariance, TakesTurns, PTL DEF Spec

\* Where every step has a timeout and none a grace period, and either no handler
\* fails, or no step is retried and no message lost, a run in progress is never left
\* alone: when no handler is inside the object, an alarm is armed or a running step
\* is with the queue or an executor, even if somebody cancels
\* (scheduleNextDeadlineAlarm after every dispatch, alarm(), handleStepComplete and
\* handleStepFail together).
THEOREM NeverStrandedHolds ==
  ASSUME Sequential, Guarded
  PROVE  Spec => []NeverStranded
<1>1. IInv /\ LivelyUnlessFailed => NeverStranded
  <2> SUFFICES ASSUME IInv, Lively, run.status \in {"running", "compensating"},
                      \A t \in Threads : thread[t].pc \notin Inside, alarm = NoTime
               PROVE  \E s \in In(run, AllSteps, "running") :
                        queue[s] > 0 \/ \E w \in Executors : thread[w].step = s
    BY DEF LivelyUnlessFailed, NeverStranded
  <2>1. \A t \in Threads : /\ ~Undoes(thread[t]) /\ ~Arms(thread[t]) /\ thread[t].pc # "advance"
                           /\ \A S : ~Reports(thread[t], S)
    BY DEF Undoes, Arms, Reports, Inside
  <2>2. run.status # "running"
    BY <2>1 DEF Lively, Watched
  <2>3. Pursued(run, thread, queue, alarm) /\ ~CompsDone(run)
    BY <2>1, <2>2 DEF Lively, Pursued
  <2>4. MaxLosses = 0
    BY <2>1, <2>3 DEF Pursued, Guarded
  <2>5. PICK c \in Comps : run.step[c] = "running"
    BY <2>3, RunningComp
  <2>6. queue[c] > 0 \/ \E w \in Executors : thread[w].step = c
    BY <2>3, <2>4, <2>5 DEF Pursued, Carries
  <2> QED
    BY <2>5, <2>6, StepSets DEF In
<1> QED
  BY <1>1, Invariance, StaysLively, PTL
=============================================================================
