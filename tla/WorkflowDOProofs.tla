--------------------------- MODULE WorkflowDOProofs ---------------------------
(***************************************************************************)
(* Proofs about StepExecutor, for every definition of a workflow, every    *)
(* number of executors and every budget of faults.                         *)
(*                                                                         *)
(* The inductive invariant has three parts: RunPair relates the run in     *)
(* memory to the run in storage, ThreadOK says what a suspended handler    *)
(* may still rely on, and the row agrees with storage.  The lemmas on      *)
(* operators come first; StepKeeps then reduces "this action preserves     *)
(* the invariant" to a statement about the run and one thread.             *)
(***************************************************************************)
EXTENDS StepExecutor, TLAPS

Time == Nat \cup {NoTime}

SafeRun(r) ==
  /\ r \in RunType
  /\ Undone(r) => r.status \in {"compensating", "failed"}

\* Ends are saved when they are reached and never left, storage knows of an
\* undoing that has gone beyond "running", and of no other.
RunPair(r, st) ==
  /\ SafeRun(r) /\ SafeRun(st)
  /\ r.status \in Terminal => st.status = r.status
  /\ st.status \in Terminal => r.status = st.status
  /\ r.status = "none" <=> st.status = "none"
  /\ Undone(st) => Undone(r)
  /\ Undone(r) /\ st.status # "running" => Undone(st)

ThreadOK(th, r, st) ==
  /\ th \in ThreadType
  /\ th.pc \notin {"idle", "insert"} => th.step \in AllSteps
  /\ th.pc = "advance" => th.todo \subseteq Steps
  /\ th.pc = "alarmPublish" => th.step \in Steps /\ th.todo \subseteq Steps
  /\ th.pc = "compensate" => th.todo \subseteq Comps /\ Undone(r)
  /\ th.pc = "alarmDlq" => th.todo \subseteq Comps /\ Undone(r)
  /\ th.pc = "final" => st.status = IF th.step \in Comps THEN "failed" ELSE "completed"

RestOK ==
  /\ delayKey \in [Steps -> Time]
  /\ alarm \in Time
  /\ queue \in [AllSteps -> Nat]
  /\ dlq \in [AllSteps -> Nat]
  /\ row \in {"absent", "running", "completed", "failed"}

IInv ==
  /\ RunPair(run, stored)
  /\ thread \in [Threads -> ThreadType]
  /\ \A t \in Threads : ThreadOK(thread[t], run, stored)
  /\ RestOK
  /\ RowIsBacked

\* What an action must not take from the other threads.
Grows(r, st, r2, st2) ==
  /\ st.status \in Terminal => st2.status = st.status
  /\ Undone(r) => Undone(r2)

\* The abstract step of RunLifecycle, on runs.
SameView(r, st, r2, st2) ==
  r2.status = r.status /\ st2.status = st.status /\ (Undone(r2) <=> Undone(r))
Saved(r, st, r2, st2) ==
  /\ r.status # "none" /\ r2.status = r.status /\ st2.status = r.status
  /\ Undone(r2) <=> Undone(r)
Moved(r, st, r2, st2) ==
  /\ <<r.status, r2.status>> \in {<<"running", "completed">>, <<"running", "failed">>,
                                  <<"running", "compensating">>, <<"compensating", "failed">>}
  /\ st2.status \in IF r2.status \in Terminal THEN {r2.status} ELSE {st.status, r.status}
  /\ Undone(r2) <=> (Undone(r) \/ r2.status = "compensating")
View(r, st, r2, st2) ==
  SameView(r, st, r2, st2) \/ Saved(r, st, r2, st2) \/ Moved(r, st, r2, st2)

-----------------------------------------------------------------------------
(* Numbers, and the updates of a run *)

LEMMA StepSets ==
  /\ Steps \subseteq AllSteps /\ Comps \subseteq AllSteps
  /\ Steps \cap Comps = {} /\ AllSteps = Steps \cup Comps
  /\ NoStep \notin AllSteps
  BY SizeAssumption DEF Steps, Comps, AllSteps, NoStep

LEMMA ThreadNames ==
  /\ Starter \in Threads /\ Alarm \in Threads /\ Executors \subseteq Threads
  /\ Starter \notin Executors /\ Alarm \notin Executors /\ Starter # Alarm
  BY ExecutorAssumption DEF Threads, Starter, Alarm

\* A step other than an absent compensation changes its status: nothing about
\* the run as a whole changes.
LEMMA SetStepFacts ==
  ASSUME NEW r \in RunType, NEW s \in AllSteps, NEW v \in StepStatus
  PROVE  LET r2 == [r EXCEPT !.step[s] = v]
         IN /\ r2 \in RunType
            /\ r2.status = r.status
            /\ r2.step = [r.step EXCEPT ![s] = v]
  BY DEF RunType

LEMMA SetStatusFacts ==
  ASSUME NEW r \in RunType, NEW v \in RunStatus
  PROVE  LET r2 == [r EXCEPT !.status = v]
         IN r2 \in RunType /\ r2.status = v /\ r2.step = r.step
  BY DEF RunType

LEMMA BegunFacts ==
  ASSUME NEW r \in RunType, NEW s \in AllSteps
  PROVE  /\ Begun(r, s) \in RunType
         /\ Begun(r, s).status = r.status
         /\ Begun(r, s).step = [r.step EXCEPT ![s] = "running"]
<1>1. Timeout[s] \in Nat
  BY DefinitionAssumption
<1> QED
  BY <1>1 DEF Begun, RunType, StepStatus, NoTime

LEMMA NewRunFacts ==
  /\ NewRun \in RunType /\ NewRun.status = "running" /\ ~Undone(NewRun)
  /\ NoRun \in RunType /\ NoRun.status = "none" /\ ~Undone(NoRun)
<1>1. NewRun \in RunType
  BY StepSets DEF NewRun, RunType, RunStatus, StepStatus, NoTime
<1>2. NewRun.status = "running" /\ ~Undone(NewRun)
  BY StepSets DEF NewRun, Undone
<1>3. NoRun \in RunType /\ NoRun.status = "none" /\ NoRun.step = NewRun.step
  BY <1>1, SetStatusFacts DEF NoRun, RunStatus
<1> QED
  BY <1>1, <1>2, <1>3 DEF Undone

\* Storage and memory may both take over a run that has the same status and the
\* same compensation steps; so may memory alone.
Same(r, r2) == r2 \in RunType /\ r2.status = r.status /\ (Undone(r2) <=> Undone(r))

LEMMA SameKeeps ==
  ASSUME NEW r, NEW st, NEW r2, RunPair(r, st), Same(r, r2)
  PROVE  /\ RunPair(r2, st) /\ Grows(r, st, r2, st) /\ SameView(r, st, r2, st)
         /\ RunPair(r2, r2) /\ Grows(r, st, r2, r2)
         /\ r.status # "none" => Saved(r, st, r2, r2)
  BY DEF RunPair, SafeRun, Same, Grows, SameView, Saved, Terminal

\* A transition to an end is saved at once.
LEMMA EndKeeps ==
  ASSUME NEW r, NEW st, NEW r2, RunPair(r, st), r2 \in RunType,
         r2.status \in Terminal, r2.step = r.step, CanGo(r, r2.status)
  PROVE  RunPair(r2, r2) /\ Grows(r, st, r2, r2) /\ Moved(r, st, r2, r2)
<1>1. Undone(r2) <=> Undone(r)
  BY DEF Undone
<1>2. Undone(r) => r.status # "running"
  BY DEF RunPair, SafeRun
<1>3. <<r.status, r2.status>> \in {<<"running", "completed">>, <<"running", "failed">>,
                                  <<"compensating", "failed">>}
  BY DEF CanGo, Terminal
<1>4. st.status \notin Terminal
  BY DEF RunPair, CanGo, Terminal
<1>5. Undone(r2) => r2.status = "failed"
  BY <1>1, <1>2, <1>3
<1> QED
  BY <1>1, <1>3, <1>4, <1>5 DEF RunPair, SafeRun, Grows, Moved, Terminal

\* Marking steps other than absent compensations leaves the run the same.
LEMMA SetStepSame ==
  ASSUME NEW r \in RunType, NEW s \in AllSteps, NEW v \in StepStatus \ {"absent"},
         NEW r2 \in RunType, r2.status = r.status, r2.step = [r.step EXCEPT ![s] = v],
         s \in Comps => Undone(r)
  PROVE  Same(r, r2)
<1>1. ASSUME Undone(r) PROVE Undone(r2)
  <2>1. PICK c \in Comps : r.step[c] # "absent"
    BY <1>1 DEF Undone
  <2>2. r2.step[c] # "absent"
    BY <2>1, StepSets DEF RunType
  <2> QED
    BY <2>2 DEF Undone
<1>2. ASSUME Undone(r2), ~Undone(r) PROVE FALSE
  <2>1. PICK c \in Comps : r2.step[c] # "absent"
    BY <1>2 DEF Undone
  <2>2. r.step[c] = "absent" /\ c # s
    BY <1>2, StepSets DEF Undone
  <2> QED
    BY <2>1, <2>2, StepSets DEF RunType
<1> QED
  BY <1>1, <1>2 DEF Same

LEMMA OthersKeep ==
  ASSUME NEW th, NEW r, NEW st, NEW r2, NEW st2, ThreadOK(th, r, st), Grows(r, st, r2, st2)
  PROVE  ThreadOK(th, r2, st2)
  BY DEF ThreadOK, Grows, Terminal

\* An action that leaves a good pair of runs, takes nothing from the others and
\* sets one thread to a good state preserves the invariant.
LEMMA StepKeeps ==
  ASSUME IInv, RestOK', RunPair(run', stored'), Grows(run, stored, run', stored'),
         row' # row => (row' \in Terminal => stored'.status = row'),
         NEW t \in Threads, NEW th, thread' = [thread EXCEPT ![t] = th],
         ThreadOK(th, run', stored')
  PROVE  IInv'
<1>1. thread' \in [Threads -> ThreadType]
  BY DEF IInv, ThreadOK
<1>2. \A u \in Threads : ThreadOK(thread'[u], run', stored')
  <2>1. ASSUME NEW u \in Threads, u # t PROVE ThreadOK(thread'[u], run', stored')
    <3>1. thread'[u] = thread[u] /\ ThreadOK(thread[u], run, stored)
      BY <2>1 DEF IInv
    <3> QED
      BY <3>1, OthersKeep
  <2>2. thread'[t] = th
    BY DEF IInv
  <2> QED
    BY <2>1, <2>2
<1>3. RowIsBacked'
  BY DEF IInv, RowIsBacked, Grows
<1> QED
  BY <1>1, <1>2, <1>3 DEF IInv

LEMMA IdleOK ==
  ASSUME NEW r, NEW st
  PROVE  ThreadOK(IdleThread, r, st) /\ ThreadOK([IdleThread EXCEPT !.pc = "insert"], r, st)
  BY DEF ThreadOK, IdleThread, ThreadType, Inside, Outside, Calls, NoStep

\* The three ways in which a handler leaves an action.
LEMMA ReturnOK ==
  ASSUME NEW t, Return(t), NEW r, NEW st
  PROVE  \E th : thread' = [thread EXCEPT ![t] = th] /\ ThreadOK(th, r, st)
  BY IdleOK DEF Return

LEMMA ThrowOK ==
  ASSUME IInv, NEW t \in Threads, Throw(t), thread[t].pc \notin {"idle", "insert"}, NEW r, NEW st
  PROVE  \E th : thread' = [thread EXCEPT ![t] = th] /\ ThreadOK(th, r, st)
<1> DEFINE th == [thread[t] EXCEPT !.pc = "threw", !.todo = {}]
<1>1. thread' = [thread EXCEPT ![t] = th]
  BY DEF IInv, Throw
<1>2. ThreadOK(thread[t], run, stored)
  BY DEF IInv
<1>3. ThreadOK(th, r, st)
  BY <1>2 DEF ThreadOK, ThreadType, Inside, Outside
<1> QED
  BY <1>1, <1>3

LEMMA SuspendOK ==
  ASSUME IInv, NEW t \in Threads, NEW pc \in Inside \cup {"handler", "replay"},
         NEW s \in AllSteps, NEW todo \in SUBSET AllSteps, Suspend(t, pc, s, todo),
         NEW r, NEW st,
         pc = "advance" => todo \subseteq Steps,
         pc = "alarmPublish" => s \in Steps /\ todo \subseteq Steps,
         pc \in {"compensate", "alarmDlq"} => todo \subseteq Comps /\ Undone(r),
         pc = "final" => st.status = IF s \in Comps THEN "failed" ELSE "completed"
  PROVE  \E th : thread' = [thread EXCEPT ![t] = th] /\ ThreadOK(th, r, st)
<1> DEFINE th == [thread[t] EXCEPT !.pc = pc, !.step = s, !.todo = todo]
<1>1. thread' = [thread EXCEPT ![t] = th]
  BY DEF IInv, Suspend
<1>2. thread[t] \in ThreadType
  BY DEF IInv
<1>3. ThreadOK(th, r, st)
  BY <1>2 DEF ThreadOK, ThreadType, Inside, Outside
<1> QED
  BY <1>1, <1>3

-----------------------------------------------------------------------------
(* What an operator of the object does, called by thread t with the run r in
   memory and st in storage *)

StepOK(t, r, st) ==
  /\ RunPair(run', stored') /\ Grows(r, st, run', stored') /\ View(r, st, run', stored')
  /\ \E th : thread' = [thread EXCEPT ![t] = th] /\ ThreadOK(th, run', stored')
  /\ alarm' \in Time /\ queue' \in [AllSteps -> Nat]

LEMMA PublishType ==
  ASSUME IInv, NEW s \in AllSteps, Publish(s)
  PROVE  queue' \in [AllSteps -> Nat]
  BY DEF IInv, RestOK, Publish

LEMMA SameView2 ==
  ASSUME NEW r, NEW st, NEW r2, RunPair(r, st), Same(r, r2), NEW st2 \in {st, r2}
  PROVE  RunPair(r2, st2) /\ Grows(r, st, r2, st2) /\ View(r, st, r2, st2)
<1>1. r.status = "none" => st.status = "none" /\ r2.status = "none"
  BY DEF RunPair, Same
<1> QED
  BY <1>1, SameKeeps DEF View, SameView, Same

\* Working on a run that is the same as the one in memory.
LEMMA SameFirst ==
  ASSUME NEW t, NEW r, NEW st, NEW q, RunPair(r, st), Same(r, q), StepOK(t, q, st)
  PROVE  StepOK(t, r, st)
<1>1. Grows(r, st, run', stored')
  BY DEF Same, StepOK, Grows
<1>2. View(r, st, run', stored')
  BY DEF Same, StepOK, View, SameView, Saved, Moved
<1> QED
  BY <1>1, <1>2 DEF StepOK

\* Starting from storage that was just overwritten with the run in memory.
LEMMA SavedFirst ==
  ASSUME NEW t, NEW r, NEW st, RunPair(r, st), StepOK(t, r, r)
  PROVE  StepOK(t, r, st)
<1>1. Grows(r, st, run', stored')
  BY DEF StepOK, Grows, RunPair
<1>2. View(r, st, run', stored')
  BY DEF StepOK, View, SameView, Saved, Moved, RunPair
<1> QED
  BY <1>1, <1>2 DEF StepOK

LEMMA ArmDeadlineType ==
  ASSUME NEW r \in RunType, NEW al \in Time, ArmDeadline(r, al)
  PROVE  alarm' \in Time
  BY DEF ArmDeadline, Deadlines, In, RunType, Time

-----------------------------------------------------------------------------
(* advanceToNextStep *)

LEMMA DispatchOK ==
  ASSUME IInv, NEW t \in Threads, NEW r, NEW st, RunPair(r, st), NEW al \in Time,
         NEW batch \in SUBSET Steps, Dispatch(t, r, st, al, batch),
         t \in Executors => thread[t].step \in AllSteps
  PROVE  StepOK(t, r, st) /\ delayKey' \in [Steps -> Time] /\ UNCHANGED <<dlq, row>>
<1>0. r \in RunType /\ Undone(r) = Undone(r)
  BY DEF RunPair, SafeRun
<1>1. PICK s \in batch :
        \/ /\ Delay[s] > 0
           /\ Save([r EXCEPT !.step[s] = "waiting", !.due[s] = Delay[s] + Timeout[s]])
           /\ delayKey' = [delayKey EXCEPT ![s] = Delay[s]]
           /\ alarm' = Delay[s]
           /\ Return(t)
           /\ UNCHANGED <<queue, dlq, row>>
        \/ /\ run' = Begun(r, s) /\ stored' = st /\ alarm' = al
           /\ Publish(s)
           /\ Suspend(t, "advance", Own(t, s), batch \ {s})
           /\ UNCHANGED <<delayKey, dlq, row>>
  BY DEF Dispatch
<1>2. s \in AllSteps /\ s \notin Comps /\ s \in Steps /\ Own(t, s) \in AllSteps
  BY StepSets DEF Own
<1>3. Delay[s] \in Nat /\ Timeout[s] \in Nat /\ Delay[s] + Timeout[s] \in Nat
  BY <1>2, DefinitionAssumption
<1>4. RestOK
  BY DEF IInv
<1>5. CASE /\ Save([r EXCEPT !.step[s] = "waiting", !.due[s] = Delay[s] + Timeout[s]])
           /\ delayKey' = [delayKey EXCEPT ![s] = Delay[s]]
           /\ alarm' = Delay[s]
           /\ Return(t)
           /\ UNCHANGED <<queue, dlq, row>>
  <2> DEFINE r2 == [r EXCEPT !.step[s] = "waiting", !.due[s] = Delay[s] + Timeout[s]]
  <2>1. r2 \in RunType /\ r2.status = r.status /\ r2.step = [r.step EXCEPT ![s] = "waiting"]
    BY <1>0, <1>2, <1>3 DEF RunType, StepStatus
  <2>2. Same(r, r2)
    <3> HIDE DEF r2
    <3> QED
      BY <1>0, <1>2, <2>1, SetStepSame DEF StepStatus
  <2>3. run' = r2 /\ stored' = r2
    BY <1>5 DEF Save
  <2>4. RunPair(run', stored') /\ Grows(r, st, run', stored') /\ View(r, st, run', stored')
    <3> HIDE DEF r2
    <3> QED
      BY <2>2, <2>3, SameView2
  <2>5. \E th : thread' = [thread EXCEPT ![t] = th] /\ ThreadOK(th, run', stored')
    BY <1>5, ReturnOK
  <2>6. alarm' \in Time /\ queue' \in [AllSteps -> Nat] /\ delayKey' \in [Steps -> Time]
    BY <1>3, <1>4, <1>5 DEF RestOK, Time
  <2> QED
    BY <1>5, <2>4, <2>5, <2>6 DEF StepOK
<1>6. CASE /\ run' = Begun(r, s) /\ stored' = st /\ alarm' = al
           /\ Publish(s)
           /\ Suspend(t, "advance", Own(t, s), batch \ {s})
           /\ UNCHANGED <<delayKey, dlq, row>>
  <2>1. Same(r, Begun(r, s))
    <3>1. /\ Begun(r, s) \in RunType /\ Begun(r, s).status = r.status
          /\ Begun(r, s).step = [r.step EXCEPT ![s] = "running"]
      BY <1>0, <1>2, BegunFacts
    <3>2. "running" \in StepStatus \ {"absent"}
      BY DEF StepStatus
    <3> QED
      BY <1>0, <1>2, <3>1, <3>2, SetStepSame
  <2>2. RunPair(run', stored') /\ Grows(r, st, run', stored') /\ View(r, st, run', stored')
    BY <1>6, <2>1, SameView2
  <2>3. \E th : thread' = [thread EXCEPT ![t] = th] /\ ThreadOK(th, run', stored')
    <3> DEFINE own == Own(t, s)
               rest == batch \ {s}
    <3>1. /\ "advance" \in Inside \cup {"handler", "replay"} /\ own \in AllSteps
          /\ rest \in SUBSET AllSteps /\ rest \subseteq Steps
          /\ Suspend(t, "advance", own, rest)
      BY <1>2, <1>6, StepSets DEF Inside
    <3> HIDE DEF own, rest
    <3> QED
      BY <3>1, SuspendOK
  <2>4. queue' \in [AllSteps -> Nat]
    BY <1>2, <1>6, PublishType
  <2> QED
    BY <1>4, <1>6, <2>2, <2>3, <2>4 DEF StepOK, RestOK
<1> QED
  BY <1>1, <1>5, <1>6

LEMMA AdvanceOK ==
  ASSUME IInv, NEW t \in Threads, NEW r, NEW st, RunPair(r, st), NEW al \in Time,
         thread[t].pc \notin {"idle", "insert"} \/ r.status = "running",
         t \in Executors => thread[t].step \in AllSteps,
         Advance(t, r, st, al)
  PROVE  StepOK(t, r, st) /\ delayKey' \in [Steps -> Time] /\ UNCHANGED <<dlq, row>>
<1>0. r \in RunType /\ SafeRun(r)
  BY DEF RunPair, SafeRun
<1>1. PICK falsy \in SUBSET Conditional :
        LET live  == Pending(r) \ falsy
            batch == {s \in live : Collected(live, s)}
            skip  == {s \in Pending(r) \cap falsy : Collected(live, s)}
            next  == [r EXCEPT !.step = [s \in AllSteps |-> IF s \in skip THEN "skipped" ELSE @[s]]]
        IN \/ batch # {} /\ Dispatch(t, next, st, al, batch)
           \/ /\ batch = {} /\ Over(next) /\ CanGo(next, "completed")
              /\ Save([next EXCEPT !.status = "completed"])
              /\ alarm' = NoTime
              /\ Return(t)
              /\ UNCHANGED <<delayKey, queue, dlq, row>>
           \/ /\ batch = {} /\ ~(Over(next) /\ CanGo(next, "completed"))
              /\ run' = next /\ stored' = st /\ alarm' = al
              /\ IF Over(next) THEN Throw(t) ELSE Return(t)
              /\ UNCHANGED <<delayKey, queue, dlq, row>>
  BY DEF Advance
<1> DEFINE live  == Pending(r) \ falsy
           batch == {s \in live : Collected(live, s)}
           skip  == {s \in Pending(r) \cap falsy : Collected(live, s)}
           step2 == [s \in AllSteps |-> IF s \in skip THEN "skipped" ELSE r.step[s]]
           next  == [r EXCEPT !.step = step2]
<1>2. skip \subseteq Steps /\ batch \subseteq Steps
  BY DEF Pending, In
<1>3. next \in RunType /\ next.status = r.status /\ next.step = step2
  BY <1>0 DEF RunType, StepStatus
<1>4. Undone(next) <=> Undone(r)
  <2>1. \A c \in Comps : step2[c] = r.step[c]
    BY <1>2, StepSets
  <2> QED
    BY <1>3, <2>1 DEF Undone
<1>5. Same(r, next)
  BY <1>3, <1>4 DEF Same
<1>6. RunPair(next, st) /\ RunPair(next, next)
  BY <1>5, SameKeeps
<1>7. RestOK
  BY DEF IInv
<1>8. \/ batch # {} /\ Dispatch(t, next, st, al, batch)
      \/ /\ Over(next) /\ CanGo(next, "completed")
         /\ Save([next EXCEPT !.status = "completed"])
         /\ alarm' = NoTime
         /\ Return(t)
         /\ UNCHANGED <<delayKey, queue, dlq, row>>
      \/ /\ ~(Over(next) /\ CanGo(next, "completed"))
         /\ run' = next /\ stored' = st /\ alarm' = al
         /\ IF Over(next) THEN Throw(t) ELSE Return(t)
         /\ UNCHANGED <<delayKey, queue, dlq, row>>
  BY <1>1
<1> HIDE DEF live, batch, skip, step2, next
<1>9. CASE Dispatch(t, next, st, al, batch)
  BY <1>2, <1>5, <1>6, <1>9, DispatchOK, SameFirst
<1>10. CASE /\ CanGo(next, "completed")
            /\ Save([next EXCEPT !.status = "completed"])
            /\ alarm' = NoTime
            /\ Return(t)
            /\ UNCHANGED <<delayKey, queue, dlq, row>>
  <2> DEFINE r2 == [next EXCEPT !.status = "completed"]
  <2>1. r2 \in RunType /\ r2.status = "completed" /\ r2.step = next.step
    BY <1>3, SetStatusFacts DEF RunStatus
  <2>2. run' = r2 /\ stored' = r2
    BY <1>10 DEF Save
  <2> HIDE DEF r2
  <2>3. RunPair(r2, r2) /\ Grows(next, st, r2, r2) /\ Moved(next, st, r2, r2)
    BY <1>6, <1>10, <2>1, EndKeeps DEF Terminal
  <2>4. \E th : thread' = [thread EXCEPT ![t] = th] /\ ThreadOK(th, run', stored')
    BY <1>10, ReturnOK
  <2>5. StepOK(t, next, st)
    BY <1>7, <1>10, <2>2, <2>3, <2>4 DEF StepOK, View, RestOK, Time
  <2> QED
    BY <1>5, <1>7, <1>10, <2>5, SameFirst DEF RestOK
<1>11. CASE /\ ~(Over(next) /\ CanGo(next, "completed"))
            /\ run' = next /\ stored' = st /\ alarm' = al
            /\ IF Over(next) THEN Throw(t) ELSE Return(t)
            /\ UNCHANGED <<delayKey, queue, dlq, row>>
  <2>1. r.status = "running" => CanGo(next, "completed")
    BY <1>3 DEF CanGo
  <2>2. \E th : thread' = [thread EXCEPT ![t] = th] /\ ThreadOK(th, run', stored')
    BY <1>11, <2>1, ReturnOK, ThrowOK
  <2>3. RunPair(run', stored') /\ Grows(r, st, run', stored') /\ View(r, st, run', stored')
    BY <1>5, <1>11, SameView2
  <2> QED
    BY <1>7, <1>11, <2>2, <2>3 DEF StepOK, RestOK
<1> QED
  BY <1>8, <1>9, <1>10, <1>11

-----------------------------------------------------------------------------
(* runCompensations *)

\* A compensation step is marked running: from then on the run is undone.
LEMMA BegunComp ==
  ASSUME NEW r \in RunType, NEW c \in Comps
  PROVE  Undone(Begun(r, c)) /\ Begun(r, c) \in RunType /\ Begun(r, c).status = r.status
<1>1. c \in AllSteps
  BY StepSets
<1>2. Begun(r, c) \in RunType /\ Begun(r, c).status = r.status
      /\ Begun(r, c).step = [r.step EXCEPT ![c] = "running"]
  BY <1>1, BegunFacts
<1>3. Begun(r, c).step[c] = "running"
  BY <1>1, <1>2 DEF RunType
<1> QED
  BY <1>2, <1>3 DEF Undone

LEMMA PushCompThread ==
  ASSUME IInv, NEW t \in Threads, NEW r \in RunType, NEW st, NEW todo \in SUBSET Comps,
         t \in Executors => thread[t].step \in AllSteps,
         PushComp(t, r, st, todo)
  PROVE  /\ \E c \in todo : run' = Begun(r, c) /\ stored' = st
         /\ \E th : thread' = [thread EXCEPT ![t] = th] /\ ThreadOK(th, run', stored')
         /\ queue' \in [AllSteps -> Nat]
<1>1. PICK c \in todo : /\ run' = Begun(r, c) /\ stored' = st
                        /\ Publish(c)
                        /\ Suspend(t, "compensate", Own(t, c), todo \ {c})
  BY DEF PushComp
<1>2. c \in AllSteps /\ c \in Comps /\ Undone(run') /\ Own(t, c) \in AllSteps
  BY <1>1, BegunComp, StepSets DEF Own
<1>3. /\ "compensate" \in Inside \cup {"handler", "replay"}
      /\ todo \ {c} \in SUBSET AllSteps /\ todo \ {c} \subseteq Comps
  BY StepSets DEF Inside
<1>4. \E th : thread' = [thread EXCEPT ![t] = th] /\ ThreadOK(th, run', stored')
  BY <1>1, <1>2, <1>3, SuspendOK
<1> QED
  BY <1>1, <1>2, <1>4, PublishType

LEMMA CompensateOK ==
  ASSUME IInv, NEW t \in Threads, NEW r, NEW st, RunPair(r, st), alarm' \in Time,
         thread[t].pc \notin {"idle", "insert"} \/ r.status = "running",
         t \in Executors => thread[t].step \in AllSteps,
         Compensate(t, r)
  PROVE  StepOK(t, r, st)
<1>0. r \in RunType /\ SafeRun(r) /\ RestOK
  BY DEF RunPair, SafeRun, IInv
<1>1. CASE /\ CanGo(r, "compensating")
           /\ PushComp(t, [r EXCEPT !.status = "compensating"], r, Comps)
  <2> DEFINE q == [r EXCEPT !.status = "compensating"]
  <2>1. q \in RunType /\ q.status = "compensating" /\ r.status = "running"
    BY <1>0, <1>1, SetStatusFacts DEF CanGo, RunStatus
  <2>2. ~Undone(r)
    BY <1>0, <2>1 DEF SafeRun
  <2> HIDE DEF q
  <2>3. PushComp(t, q, r, Comps)
    BY <1>1 DEF q
  <2>4. PICK c \in Comps : run' = Begun(q, c) /\ stored' = r
    BY <2>1, <2>3, PushCompThread
  <2>5. Undone(run') /\ run' \in RunType /\ run'.status = "compensating"
    BY <2>1, <2>4, BegunComp
  <2>6. RunPair(run', stored') /\ Grows(r, st, run', stored') /\ Moved(r, st, run', stored')
    BY <1>0, <2>1, <2>2, <2>4, <2>5 DEF RunPair, SafeRun, Grows, Moved, Terminal
  <2> QED
    BY <2>1, <2>3, <2>6, PushCompThread DEF StepOK, View
<1>2. CASE ~CanGo(r, "compensating") /\ Save(r) /\ Throw(t) /\ UNCHANGED queue
  <2>1. thread[t].pc \notin {"idle", "insert"}
    BY <1>2 DEF CanGo
  <2>2. \E th : thread' = [thread EXCEPT ![t] = th] /\ ThreadOK(th, run', stored')
    BY <1>2, <2>1, ThrowOK
  <2>3. Same(r, r)
    BY <1>0 DEF Same
  <2>4. RunPair(run', stored') /\ Grows(r, st, run', stored') /\ View(r, st, run', stored')
    BY <1>2, <2>3, SameView2 DEF Save
  <2> QED
    BY <1>0, <1>2, <2>2, <2>4 DEF StepOK, RestOK
<1> QED
  BY <1>1, <1>2 DEF Compensate

-----------------------------------------------------------------------------
(* alarm() *)

LEMMA AlarmEndOK ==
  ASSUME IInv, NEW r, NEW st, RunPair(r, st), NEW al \in Time, NEW hit,
         AlarmEnd(r, hit, al)
  PROVE  StepOK(Alarm, r, st)
<1>0. r \in RunType /\ SafeRun(r) /\ RestOK /\ Alarm \in Threads /\ Same(r, r)
  BY ThreadNames DEF RunPair, SafeRun, IInv, Same
<1>1. CASE r.status = "running" /\ Compensate(Alarm, r) /\ alarm' = al
  BY <1>0, <1>1, CompensateOK, ThreadNames
<1>2. CASE /\ CanGo(r, "failed")
           /\ Save([r EXCEPT !.status = "failed"])
           /\ alarm' = al
           /\ Return(Alarm)
           /\ UNCHANGED queue
  <2> DEFINE q == [r EXCEPT !.status = "failed"]
  <2>1. q \in RunType /\ q.status = "failed" /\ q.step = r.step
    BY <1>0, SetStatusFacts DEF RunStatus
  <2>2. run' = q /\ stored' = q
    BY <1>2 DEF Save
  <2> HIDE DEF q
  <2>3. RunPair(q, q) /\ Grows(r, st, q, q) /\ Moved(r, st, q, q)
    BY <1>2, <2>1, EndKeeps DEF Terminal
  <2>4. \E th : thread' = [thread EXCEPT ![Alarm] = th] /\ ThreadOK(th, run', stored')
    BY <1>2, ReturnOK
  <2> QED
    BY <1>0, <1>2, <2>2, <2>3, <2>4 DEF StepOK, View, RestOK
<1>3. CASE Save(r) /\ alarm' \in Time /\ Return(Alarm) /\ UNCHANGED queue
  <2>1. \E th : thread' = [thread EXCEPT ![Alarm] = th] /\ ThreadOK(th, run', stored')
    BY <1>3, ReturnOK
  <2>2. RunPair(run', stored') /\ Grows(r, st, run', stored') /\ View(r, st, run', stored')
    BY <1>0, <1>3, SameView2 DEF Save
  <2> QED
    BY <1>0, <1>3, <2>1, <2>2 DEF StepOK, RestOK
<1>4. ArmDeadline(r, al) => alarm' \in Time
  BY <1>0, ArmDeadlineType
<1> QED
  BY <1>1, <1>2, <1>3, <1>4 DEF AlarmEnd, CanGo

LEMMA TimeOutOK ==
  ASSUME IInv, NEW r, NEW st, RunPair(r, st), NEW al \in Time, NEW late \in SUBSET Comps,
         Undone(r), TimeOut(r, st, al, late)
  PROVE  StepOK(Alarm, r, st)
<1>0. r \in RunType /\ RestOK /\ Alarm \in Threads
  BY ThreadNames DEF RunPair, SafeRun, IInv
<1>1. PICK c \in late :
        /\ run' = [r EXCEPT !.step[c] = "failed"] /\ stored' = st /\ alarm' = al
        /\ Suspend(Alarm, "alarmDlq", c, late \ {c})
        /\ UNCHANGED queue
  BY DEF TimeOut
<1>2. c \in AllSteps /\ c \in Comps /\ "failed" \in StepStatus \ {"absent"}
  BY StepSets DEF StepStatus
<1>3. /\ run' \in RunType /\ run'.status = r.status
      /\ run'.step = [r.step EXCEPT ![c] = "failed"]
  BY <1>0, <1>1, <1>2, SetStepFacts
<1>4. Same(r, run')
  BY <1>0, <1>2, <1>3, SetStepSame
<1>5. RunPair(run', stored') /\ Grows(r, st, run', stored') /\ View(r, st, run', stored')
  BY <1>1, <1>4, SameView2
<1>6. /\ "alarmDlq" \in Inside \cup {"handler", "replay"} /\ Undone(run')
      /\ late \ {c} \in SUBSET AllSteps /\ late \ {c} \subseteq Comps
  BY <1>4, StepSets DEF Inside, Same
<1>7. \E th : thread' = [thread EXCEPT ![Alarm] = th] /\ ThreadOK(th, run', stored')
  BY <1>0, <1>1, <1>2, <1>6, SuspendOK
<1> QED
  BY <1>0, <1>1, <1>5, <1>7 DEF StepOK, RestOK

LEMMA FailLateSame ==
  ASSUME NEW r \in RunType, NEW late
  PROVE  Same(r, FailLate(r, late))
<1> DEFINE step2 == [s \in AllSteps |-> IF s \in late \cap Steps THEN "failed" ELSE r.step[s]]
<1>1. /\ FailLate(r, late) \in RunType /\ FailLate(r, late).status = r.status
      /\ FailLate(r, late).step = step2
  BY DEF FailLate, RunType, StepStatus
<1>2. \A c \in Comps : step2[c] = r.step[c]
  BY StepSets
<1>3. Undone(FailLate(r, late)) <=> Undone(r)
  BY <1>1, <1>2 DEF Undone
<1> QED
  BY <1>1, <1>3 DEF Same

LEMMA CheckDeadlinesOK ==
  ASSUME IInv, NEW r, NEW st, RunPair(r, st), NEW al \in Time, CheckDeadlines(r, st, al)
  PROVE  StepOK(Alarm, r, st)
<1> DEFINE late == Overdue(r)
           next == FailLate(r, late)
<1>0. r \in RunType /\ RestOK /\ Same(r, r) /\ Alarm \in Threads
  BY ThreadNames DEF RunPair, SafeRun, IInv, Same
<1>1. Same(r, next)
  BY <1>0, FailLateSame
<1>2. RunPair(next, st)
  BY <1>1, SameKeeps
<1>3. CASE run' = r /\ stored' = st /\ alarm' = al /\ Return(Alarm) /\ UNCHANGED queue
  <2>1. \E th : thread' = [thread EXCEPT ![Alarm] = th] /\ ThreadOK(th, run', stored')
    BY <1>3, ReturnOK
  <2>2. RunPair(run', stored') /\ Grows(r, st, run', stored') /\ View(r, st, run', stored')
    BY <1>0, <1>3, SameView2
  <2> QED
    BY <1>0, <1>3, <2>1, <2>2 DEF StepOK, RestOK
<1>4. CASE AlarmEnd(next, late # {}, al)
  <2> HIDE DEF late, next
  <2> QED
    BY <1>1, <1>2, <1>4, AlarmEndOK, SameFirst
<1>5. CASE late \cap Comps # {} /\ TimeOut(next, st, al, late \cap Comps)
  <2>1. PICK c \in Comps : r.step[c] = "running"
    BY <1>5 DEF Overdue, In
  <2>2. Undone(next)
    BY <1>1, <2>1 DEF Undone, Same
  <2> HIDE DEF late, next
  <2> QED
    BY <1>1, <1>2, <1>5, <2>2, TimeOutOK, SameFirst
<1> QED
  BY <1>3, <1>4, <1>5 DEF CheckDeadlines

LEMMA DispatchDelayedOK ==
  ASSUME IInv, NEW r, NEW st, RunPair(r, st), NEW al \in Time, NEW todo \in SUBSET Steps,
         DispatchDelayed(r, st, al, todo)
  PROVE  StepOK(Alarm, r, st)
<1>0. r \in RunType /\ RestOK /\ Alarm \in Threads
  BY ThreadNames DEF RunPair, SafeRun, IInv
<1>1. CASE CheckDeadlines(r, st, al)
  BY <1>1, CheckDeadlinesOK
<1>2. CASE \E s \in todo :
             /\ run' = [r EXCEPT !.step[s] = "running", !.att[s] = 1]
             /\ stored' = st /\ alarm' = al
             /\ Publish(s)
             /\ Suspend(Alarm, "alarmPublish", s, {q \in todo : s < q})
  <2>1. PICK s \in todo :
          /\ run' = [r EXCEPT !.step[s] = "running", !.att[s] = 1]
          /\ stored' = st /\ alarm' = al
          /\ Publish(s)
          /\ Suspend(Alarm, "alarmPublish", s, {q \in todo : s < q})
    BY <1>2
  <2>2. s \in AllSteps /\ s \in Steps /\ s \notin Comps /\ "running" \in StepStatus \ {"absent"}
    BY StepSets DEF StepStatus
  <2>3. /\ run' \in RunType /\ run'.status = r.status
        /\ run'.step = [r.step EXCEPT ![s] = "running"]
    BY <1>0, <2>1, <2>2 DEF RunType
  <2>4. Same(r, run')
    BY <1>0, <2>2, <2>3, SetStepSame
  <2>5. RunPair(run', stored') /\ Grows(r, st, run', stored') /\ View(r, st, run', stored')
    BY <2>1, <2>4, SameView2
  <2> DEFINE rest == {q \in todo : s < q}
  <2>6. /\ "alarmPublish" \in Inside \cup {"handler", "replay"}
        /\ rest \in SUBSET AllSteps /\ rest \subseteq Steps
    BY StepSets DEF Inside
  <2>7. Suspend(Alarm, "alarmPublish", s, rest)
    BY <2>1
  <2> HIDE DEF rest
  <2>8. \E th : thread' = [thread EXCEPT ![Alarm] = th] /\ ThreadOK(th, run', stored')
    BY <1>0, <2>2, <2>6, <2>7, SuspendOK
  <2>9. queue' \in [AllSteps -> Nat]
    BY <2>1, <2>2, PublishType
  <2> QED
    BY <2>1, <2>5, <2>8, <2>9 DEF StepOK
<1> QED
  BY <1>1, <1>2 DEF DispatchDelayed

-----------------------------------------------------------------------------
(* The actions.  Kept is what the induction and the refinement need of each. *)

Kept == IInv' /\ View(run, stored, run', stored')

LEMMA StepOKKept ==
  ASSUME IInv, NEW t \in Threads, StepOK(t, run, stored),
         delayKey' \in [Steps -> Time], dlq' \in [AllSteps -> Nat], row' = row
  PROVE  Kept
<1>1. RestOK'
  BY DEF IInv, RestOK, StepOK
<1>2. PICK th : thread' = [thread EXCEPT ![t] = th] /\ ThreadOK(th, run', stored')
  BY DEF StepOK
<1>3. RunPair(run', stored') /\ Grows(run, stored, run', stored')
  BY DEF StepOK
<1> QED
  BY <1>1, <1>2, <1>3, StepKeeps DEF Kept, StepOK

\* What IInv says, in the form the lemmas above ask for.
LEMMA IInvFacts ==
  ASSUME IInv
  PROVE  /\ RunPair(run, stored) /\ run \in RunType /\ stored \in RunType /\ RestOK
         /\ Same(run, run)
         /\ delayKey \in [Steps -> Time] /\ alarm \in Time
         /\ dlq \in [AllSteps -> Nat] /\ queue \in [AllSteps -> Nat]
         /\ \A t \in Threads : thread[t] \in ThreadType /\ ThreadOK(thread[t], run, stored)
  BY DEF IInv, RunPair, SafeRun, RestOK, Same

\* Memory, storage and alarm only: one thread moves on.
LEMMA ThreadStep ==
  ASSUME IInv, NEW t \in Threads, NEW r2, Same(run, r2), run' = r2, stored' \in {stored, r2},
         \E th : thread' = [thread EXCEPT ![t] = th] /\ ThreadOK(th, run', stored'),
         alarm' \in Time, queue' \in [AllSteps -> Nat]
  PROVE  StepOK(t, run, stored)
  BY IInvFacts, SameView2 DEF StepOK

LEMMA ContinueAdvanceKept ==
  ASSUME IInv, NEW t \in Threads, ContinueAdvance(t)
  PROVE  Kept
<1>0. /\ thread[t].pc = "advance" /\ thread[t].todo \in SUBSET Steps
      /\ thread[t].pc \notin {"idle", "insert"} /\ thread[t].step \in AllSteps
  BY IInvFacts DEF ContinueAdvance, ThreadOK
<1>1. CASE Dispatch(t, run, stored, alarm, thread[t].todo)
  <2>1. /\ StepOK(t, run, stored) /\ delayKey' \in [Steps -> Time] /\ UNCHANGED <<dlq, row>>
    BY <1>0, <1>1, IInvFacts, DispatchOK
  <2> QED
    BY <2>1, IInvFacts, StepOKKept
<1>2. CASE Save(run) /\ ArmDeadline(run, alarm) /\ Return(t)
           /\ UNCHANGED <<delayKey, queue, dlq, row>>
  <2>1. alarm' \in Time
    BY <1>2, IInvFacts, ArmDeadlineType
  <2>2. \E th : thread' = [thread EXCEPT ![t] = th] /\ ThreadOK(th, run', stored')
    BY <1>2, ReturnOK
  <2>3. StepOK(t, run, stored)
    BY <1>2, <2>1, <2>2, IInvFacts, ThreadStep DEF Save
  <2> QED
    BY <1>2, <2>3, IInvFacts, StepOKKept
<1> QED
  BY <1>1, <1>2 DEF ContinueAdvance

LEMMA ContinueCompensateKept ==
  ASSUME IInv, NEW t \in Threads, ContinueCompensate(t)
  PROVE  Kept
<1>0. /\ thread[t].pc = "compensate" /\ thread[t].todo \in SUBSET Comps /\ Undone(run)
      /\ thread[t].step \in AllSteps /\ UNCHANGED <<delayKey, dlq, row>>
  BY IInvFacts DEF ContinueCompensate, ThreadOK
<1>1. CASE PushComp(t, run, stored, thread[t].todo) /\ UNCHANGED alarm
  <2>1. PICK c \in Comps : run' = Begun(run, c) /\ stored' = stored
    BY <1>0, <1>1, IInvFacts, PushCompThread
  <2>2. Same(run, run')
    BY <1>0, <2>1, IInvFacts, BegunComp DEF Same
  <2>3. StepOK(t, run, stored)
    <3>1. /\ \E th : thread' = [thread EXCEPT ![t] = th] /\ ThreadOK(th, run', stored')
          /\ queue' \in [AllSteps -> Nat]
      BY <1>0, <1>1, IInvFacts, PushCompThread
    <3>2. alarm' \in Time
      BY <1>1, IInvFacts
    <3> QED
      BY <2>1, <2>2, <3>1, <3>2, ThreadStep
  <2> QED
    BY <1>0, <2>3, IInvFacts, StepOKKept
<1>2. CASE ArmDeadline(run, alarm) /\ Save(run) /\ Return(t) /\ UNCHANGED queue
  <2>1. alarm' \in Time
    BY <1>2, IInvFacts, ArmDeadlineType
  <2>2. \E th : thread' = [thread EXCEPT ![t] = th] /\ ThreadOK(th, run', stored')
    BY <1>2, ReturnOK
  <2>3. StepOK(t, run, stored)
    BY <1>2, <2>1, <2>2, IInvFacts, ThreadStep DEF Save
  <2> QED
    BY <1>0, <2>3, IInvFacts, StepOKKept
<1> QED
  BY <1>1, <1>2 DEF ContinueCompensate

LEMMA RecordCompletionKept ==
  ASSUME IInv, NEW t \in Threads, RecordCompletion(t)
  PROVE  Kept
<1> DEFINE s  == thread[t].step
           r2 == [run EXCEPT !.hist = @ \cup {<<s, run.att[s]>>}]
<1>1. s \in AllSteps
  BY IInvFacts DEF RecordCompletion, ThreadOK
<1>2. Same(run, r2)
  <2>1. r2 \in RunType /\ r2.status = run.status /\ r2.step = run.step
    BY <1>1, IInvFacts DEF RunType
  <2> HIDE DEF r2
  <2> QED
    BY <2>1 DEF Same, Undone
<1>3. run' = r2 /\ stored' = r2 /\ Suspend(t, "evidence", s, {})
      /\ UNCHANGED <<delayKey, alarm, queue, dlq, row>>
  BY DEF RecordCompletion, Save
<1> HIDE DEF s, r2
<1>4. \E th : thread' = [thread EXCEPT ![t] = th] /\ ThreadOK(th, run', stored')
  <2>1. "evidence" \in Inside \cup {"handler", "replay"} /\ {} \in SUBSET AllSteps
    BY DEF Inside
  <2> QED
    BY <1>1, <1>3, <2>1, SuspendOK
<1>5. StepOK(t, run, stored)
  BY <1>2, <1>3, <1>4, IInvFacts, ThreadStep
<1> QED
  BY <1>3, <1>5, IInvFacts, StepOKKept

LEMMA WriteFinalKept ==
  ASSUME IInv, NEW t \in Threads, WriteFinal(t)
  PROVE  Kept
<1>1. stored.status = IF thread[t].step \in Comps THEN "failed" ELSE "completed"
  BY IInvFacts DEF WriteFinal, ThreadOK
<1>2. PICK th : thread' = [thread EXCEPT ![t] = th] /\ ThreadOK(th, run', stored')
  BY ReturnOK DEF WriteFinal
<1>3. run' = run /\ stored' = stored /\ UNCHANGED <<delayKey, alarm, queue, dlq>>
      /\ row' \in {"absent", stored.status} /\ stored.status \in {"failed", "completed"}
  BY <1>1 DEF WriteFinal
<1>4. RestOK'
  BY <1>3, IInvFacts DEF RestOK
<1>5. /\ RunPair(run', stored') /\ Grows(run, stored, run', stored')
      /\ View(run, stored, run', stored')
  BY <1>3, IInvFacts, SameView2
<1>6. row' # row => (row' \in Terminal => stored'.status = row')
  BY <1>3 DEF Terminal
<1> QED
  BY <1>2, <1>4, <1>5, <1>6, StepKeeps DEF Kept

LEMMA EmitFailureKept ==
  ASSUME IInv, NEW t \in Threads, EmitFailure(t)
  PROVE  Kept
<1> DEFINE s == thread[t].step
<1>1. s \in AllSteps
  BY IInvFacts DEF EmitFailure, ThreadOK
<1>2. Suspend(t, "failDlq", s, {})
      /\ UNCHANGED <<run, stored, delayKey, alarm, queue, dlq, row>>
  BY DEF EmitFailure
<1> HIDE DEF s
<1>3. \E th : thread' = [thread EXCEPT ![t] = th] /\ ThreadOK(th, run', stored')
  <2>1. "failDlq" \in Inside \cup {"handler", "replay"} /\ {} \in SUBSET AllSteps
    BY DEF Inside
  <2> QED
    BY <1>1, <1>2, <2>1, SuspendOK
<1>4. StepOK(t, run, stored)
  BY <1>2, <1>3, IInvFacts, ThreadStep
<1> QED
  BY <1>2, <1>4, IInvFacts, StepOKKept

\* An end of the run that its status allows, or its refusal.
LEMMA EndWithKept ==
  ASSUME IInv, NEW t \in Threads, NEW status \in Terminal, EndWith(t, status),
         thread[t].pc = "evidence",
         status = IF thread[t].step \in Comps THEN "failed" ELSE "completed"
  PROVE  Kept
<1> DEFINE s == thread[t].step
           q == [run EXCEPT !.status = status]
<1>0. s \in AllSteps /\ UNCHANGED <<delayKey, queue, dlq, row>>
  BY IInvFacts DEF EndWith, ThreadOK
<1>1. CASE /\ CanGo(run, status)
           /\ Save(q)
           /\ alarm' = NoTime
           /\ Suspend(t, "final", s, {})
  <2>1. q \in RunType /\ q.status = status /\ q.step = run.step
    <3>1. status \in RunStatus
      BY DEF RunStatus, Terminal
    <3> QED
      BY <3>1, IInvFacts, SetStatusFacts
  <2>2. run' = q /\ stored' = q
    BY <1>1 DEF Save
  <2> HIDE DEF q
  <2>3. RunPair(q, q) /\ Grows(run, stored, q, q) /\ Moved(run, stored, q, q)
    BY <1>1, <2>1, IInvFacts, EndKeeps
  <2>4. "final" \in Inside \cup {"handler", "replay"} /\ {} \in SUBSET AllSteps
    BY DEF Inside
  <2>5. stored'.status = IF s \in Comps THEN "failed" ELSE "completed"
    BY <2>1, <2>2
  <2> HIDE DEF s
  <2>6. \E th : thread' = [thread EXCEPT ![t] = th] /\ ThreadOK(th, run', stored')
    BY <1>0, <1>1, <2>4, <2>5, SuspendOK
  <2>7. StepOK(t, run, stored)
    BY <1>0, <1>1, <2>2, <2>3, <2>6, IInvFacts DEF StepOK, View, Time
  <2> QED
    BY <1>0, <2>7, IInvFacts, StepOKKept
<1>2. CASE Throw(t) /\ UNCHANGED <<run, stored, alarm>>
  <2>1. \E th : thread' = [thread EXCEPT ![t] = th] /\ ThreadOK(th, run', stored')
    BY <1>2, ThrowOK
  <2>2. StepOK(t, run, stored)
    BY <1>0, <1>2, <2>1, IInvFacts, ThreadStep
  <2> QED
    BY <1>0, <2>2, IInvFacts, StepOKKept
<1> QED
  BY <1>1, <1>2 DEF EndWith

LEMMA FinishCompletionKept ==
  ASSUME IInv, NEW t \in Threads, FinishCompletion(t)
  PROVE  Kept
<1>0. thread[t].pc = "evidence" /\ thread[t].step \in AllSteps
  BY IInvFacts DEF FinishCompletion, ThreadOK
<1>1. CASE Return(t) /\ UNCHANGED <<run, stored, delayKey, alarm, queue, dlq, row>>
  <2>1. \E th : thread' = [thread EXCEPT ![t] = th] /\ ThreadOK(th, run', stored')
    BY <1>1, ReturnOK
  <2>2. StepOK(t, run, stored)
    BY <1>1, <2>1, IInvFacts, ThreadStep
  <2> QED
    BY <1>1, <2>2, IInvFacts, StepOKKept
<1>2. CASE thread[t].step \in Comps /\ EndWith(t, "failed")
  BY <1>0, <1>2, EndWithKept DEF Terminal
<1>3. CASE thread[t].step \notin Comps /\ EndWith(t, "completed")
  BY <1>0, <1>3, EndWithKept DEF Terminal
<1>4. CASE Advance(t, run, stored, alarm)
  <2>1. StepOK(t, run, stored) /\ delayKey' \in [Steps -> Time] /\ UNCHANGED <<dlq, row>>
    BY <1>0, <1>4, IInvFacts, AdvanceOK
  <2> QED
    BY <2>1, IInvFacts, StepOKKept
<1> QED
  BY <1>1, <1>2, <1>3, <1>4 DEF FinishCompletion

LEMMA DeadLetterType ==
  ASSUME IInv, NEW s \in AllSteps, DeadLetter(s)
  PROVE  dlq' \in [AllSteps -> Nat]
  BY IInvFacts DEF DeadLetter

LEMMA FinishFailureKept ==
  ASSUME IInv, NEW t \in Threads, FinishFailure(t)
  PROVE  Kept
<1> DEFINE q == [run EXCEPT !.status = "failed"]
<1>0. thread[t].pc = "failDlq" /\ thread[t].step \in AllSteps
      /\ DeadLetter(thread[t].step) /\ UNCHANGED <<delayKey, row>>
  BY IInvFacts DEF FinishFailure, ThreadOK
<1>1. /\ dlq' \in [AllSteps -> Nat] /\ delayKey' \in [Steps -> Time]
      /\ thread[t].pc \notin {"idle", "insert"}
  BY <1>0, IInvFacts, DeadLetterType
<1>2. CASE /\ CanGo(run, "failed")
           /\ Save(q)
           /\ alarm' = NoTime
           /\ Return(t)
           /\ UNCHANGED queue
  <2>1. q \in RunType /\ q.status = "failed" /\ q.step = run.step
    BY IInvFacts, SetStatusFacts DEF RunStatus
  <2>2. run' = q /\ stored' = q
    BY <1>2 DEF Save
  <2> HIDE DEF q
  <2>3. RunPair(q, q) /\ Grows(run, stored, q, q) /\ Moved(run, stored, q, q)
    BY <1>2, <2>1, IInvFacts, EndKeeps DEF Terminal
  <2>4. \E th : thread' = [thread EXCEPT ![t] = th] /\ ThreadOK(th, run', stored')
    BY <1>2, ReturnOK
  <2>5. StepOK(t, run, stored)
    BY <1>2, <2>2, <2>3, <2>4, IInvFacts DEF StepOK, View, Time
  <2> QED
    BY <1>0, <1>1, <2>5, StepOKKept
<1>3. CASE Throw(t) /\ UNCHANGED <<run, stored, alarm, queue>>
  <2>1. \E th : thread' = [thread EXCEPT ![t] = th] /\ ThreadOK(th, run', stored')
    BY <1>1, <1>3, ThrowOK
  <2>2. StepOK(t, run, stored)
    BY <1>3, <2>1, IInvFacts, ThreadStep
  <2> QED
    BY <1>0, <1>1, <2>2, StepOKKept
<1>4. CASE Save(run) /\ Return(t) /\ UNCHANGED <<alarm, queue>>
  <2>1. \E th : thread' = [thread EXCEPT ![t] = th] /\ ThreadOK(th, run', stored')
    BY <1>4, ReturnOK
  <2>2. StepOK(t, run, stored)
    BY <1>4, <2>1, IInvFacts, ThreadStep DEF Save
  <2> QED
    BY <1>0, <1>1, <2>2, StepOKKept
<1>5. CASE alarm' = NoTime /\ Compensate(t, run)
  <2>1. alarm' \in Time
    BY <1>5 DEF Time
  <2>2. StepOK(t, run, stored)
    BY <1>0, <1>1, <1>5, <2>1, IInvFacts, CompensateOK
  <2> QED
    BY <1>0, <1>1, <2>2, StepOKKept
<1> QED
  BY <1>2, <1>3, <1>4, <1>5 DEF FinishFailure

-----------------------------------------------------------------------------
(* Requests of the executors *)

LEMMA CompleteCallKept ==
  ASSUME IInv, NEW t \in Threads, NEW s \in AllSteps, NEW call \in Calls,
         CompleteCall(t, s, call)
  PROVE  Kept
<1>0. UNCHANGED <<stored, delayKey, alarm, queue, dlq, row>>
  BY DEF CompleteCall
<1>1. CASE /\ run.step[s] = "running"
           /\ run' = [run EXCEPT !.step[s] = "completed"]
           /\ thread' = [thread EXCEPT ![t] =
                [pc |-> "progress", step |-> s, todo |-> {}, call |-> call]]
  <2>1. /\ run' \in RunType /\ run'.status = run.status
        /\ run'.step = [run.step EXCEPT ![s] = "completed"]
        /\ "completed" \in StepStatus \ {"absent"}
    BY <1>1, IInvFacts, SetStepFacts DEF StepStatus
  <2>2. s \in Comps => Undone(run)
    BY <1>1 DEF Undone
  <2>3. Same(run, run')
    BY <2>1, <2>2, IInvFacts, SetStepSame
  <2>4. ThreadOK([pc |-> "progress", step |-> s, todo |-> {}, call |-> call], run', stored')
    BY DEF ThreadOK, ThreadType, Inside, Outside
  <2>5. StepOK(t, run, stored)
    BY <1>0, <1>1, <2>3, <2>4, IInvFacts, ThreadStep
  <2> QED
    BY <1>0, <2>5, IInvFacts, StepOKKept
<1>2. CASE UNCHANGED run /\ Return(t)
  <2>1. \E th : thread' = [thread EXCEPT ![t] = th] /\ ThreadOK(th, run', stored')
    BY <1>2, ReturnOK
  <2>2. StepOK(t, run, stored)
    BY <1>0, <1>2, <2>1, IInvFacts, ThreadStep
  <2> QED
    BY <1>0, <2>2, IInvFacts, StepOKKept
<1> QED
  BY <1>1, <1>2 DEF CompleteCall

LEMMA FailCallKept ==
  ASSUME IInv, NEW t \in Threads, NEW s \in AllSteps, FailCall(t, s)
  PROVE  Kept
<1> DEFINE failed == [run EXCEPT !.att[s] = @ + 1]
           again  == [failed EXCEPT !.step[s] = "running"]
           dead   == [failed EXCEPT !.step[s] = "dlq"]
           th     == [pc |-> "failEvidence", step |-> s, todo |-> {}, call |-> "fail"]
<1>0. UNCHANGED <<delayKey, queue, dlq, row>>
  BY DEF FailCall
<1>1. CASE Return(t) /\ UNCHANGED <<run, stored, alarm>>
  <2>1. \E th2 : thread' = [thread EXCEPT ![t] = th2] /\ ThreadOK(th2, run', stored')
    BY <1>1, ReturnOK
  <2>2. StepOK(t, run, stored)
    BY <1>0, <1>1, <2>1, IInvFacts, ThreadStep
  <2> QED
    BY <1>0, <2>2, IInvFacts, StepOKKept
<1>2. ASSUME run.step[s] # "absent", NEW r2, NEW v \in {"running", "dlq"},
             r2 = [failed EXCEPT !.step[s] = v]
      PROVE  Same(run, r2)
  <2>0. /\ failed \in RunType /\ failed.status = run.status /\ failed.step = run.step
        /\ v \in StepStatus
    BY IInvFacts DEF RunType, StepStatus
  <2>1. r2 \in RunType /\ r2.status = run.status /\ r2.step = [run.step EXCEPT ![s] = v]
    <3> HIDE DEF failed
    <3> QED
      BY <1>2, <2>0, SetStepFacts
  <2>2. v \in StepStatus \ {"absent"} /\ (s \in Comps => Undone(run))
    BY <1>2 DEF StepStatus, Undone
  <2> QED
    BY <2>1, <2>2, IInvFacts, SetStepSame
<1>3. CASE run.step[s] # "absent" /\ Save(again) /\ alarm' = Backoff /\ Return(t)
  <2>1. Same(run, again) /\ run' = again /\ stored' = again
    BY <1>2, <1>3 DEF Save
  <2>2. \E th2 : thread' = [thread EXCEPT ![t] = th2] /\ ThreadOK(th2, run', stored')
    BY <1>3, ReturnOK
  <2>3. alarm' \in Time
    BY <1>3, DefinitionAssumption DEF Time
  <2> HIDE DEF again
  <2>4. StepOK(t, run, stored)
    BY <1>0, <2>1, <2>2, <2>3, IInvFacts, ThreadStep
  <2> QED
    BY <1>0, <2>4, IInvFacts, StepOKKept
<1>4. CASE run.step[s] # "absent" /\ run' = dead
           /\ thread' = [thread EXCEPT ![t] = th] /\ UNCHANGED <<stored, alarm>>
  <2>1. Same(run, dead)
    BY <1>2, <1>4
  <2>2. ThreadOK(th, run', stored')
    BY DEF ThreadOK, ThreadType, Inside, Outside, Calls
  <2> HIDE DEF dead, th
  <2>3. StepOK(t, run, stored)
    BY <1>0, <1>4, <2>1, <2>2, IInvFacts, ThreadStep
  <2> QED
    BY <1>0, <2>3, IInvFacts, StepOKKept
<1> QED
  BY <1>1, <1>3, <1>4 DEF FailCall

LEMMA RejectedKept ==
  ASSUME IInv, NEW w \in Executors, Rejected(w)
  PROVE  Kept
<1>0. w \in Threads /\ thread[w].step \in AllSteps
  BY ThreadNames, IInvFacts DEF Rejected, ThreadOK
<1>1. CASE FailCall(w, thread[w].step)
  BY <1>0, <1>1, FailCallKept
<1>2. CASE Publish(thread[w].step) /\ Return(w) /\ UNCHANGED <<run, stored, delayKey, alarm, dlq, row>>
  <2>1. \E th : thread' = [thread EXCEPT ![w] = th] /\ ThreadOK(th, run', stored')
    BY <1>2, ReturnOK
  <2>2. StepOK(w, run, stored)
    BY <1>0, <1>2, <2>1, IInvFacts, ThreadStep, PublishType
  <2> QED
    BY <1>0, <1>2, <2>2, IInvFacts, StepOKKept
<1> QED
  BY <1>1, <1>2 DEF Rejected

LEMMA DeliverKept ==
  ASSUME IInv, NEW w \in Executors, NEW s \in AllSteps, Deliver(w, s)
  PROVE  Kept
<1>0. w \in Threads /\ UNCHANGED <<run, stored, delayKey, alarm, dlq, row>>
  BY ThreadNames DEF Deliver
<1>1. queue' \in [AllSteps -> Nat]
  BY IInvFacts DEF Deliver, Receive, Take
<1>2. \/ UNCHANGED thread
      \/ \E pc \in {"handler", "replay"} : Suspend(w, pc, s, {})
  BY DEF Deliver
<1>3. \E th : thread' = [thread EXCEPT ![w] = th] /\ ThreadOK(th, run', stored')
  <2>1. CASE UNCHANGED thread
    <3>1. thread' = [thread EXCEPT ![w] = thread[w]] /\ ThreadOK(thread[w], run, stored)
      BY <1>0, <2>1 DEF IInv
    <3> QED
      BY <1>0, <3>1
  <2>2. CASE \E pc \in {"handler", "replay"} : Suspend(w, pc, s, {})
    <3>1. PICK pc \in {"handler", "replay"} : Suspend(w, pc, s, {})
      BY <2>2
    <3>2. /\ pc \in Inside \cup {"handler", "replay"} /\ {} \in SUBSET AllSteps
          /\ pc \notin {"advance", "alarmPublish", "compensate", "alarmDlq", "final"}
      OBVIOUS
    <3> QED
      BY <1>0, <3>1, <3>2, SuspendOK
  <2> QED
    BY <1>2, <2>1, <2>2
<1>4. StepOK(w, run, stored)
  BY <1>0, <1>1, <1>3, IInvFacts, ThreadStep
<1> QED
  BY <1>0, <1>4, IInvFacts, StepOKKept

LEMMA ExecuteKept ==
  ASSUME IInv, NEW w \in Executors, Execute(w)
  PROVE  Kept
<1>0. w \in Threads
  BY ThreadNames
<1>1. thread[w].pc \notin {"idle", "insert"} => thread[w].step \in AllSteps
  BY <1>0, IInvFacts DEF ThreadOK
<1>2. "cached" \in Calls /\ "complete" \in Calls
  BY DEF Calls
<1>3. CASE HandlerSucceeds(w)
  BY <1>0, <1>1, <1>2, <1>3, CompleteCallKept DEF HandlerSucceeds
<1>4. CASE HandlerFails(w)
  BY <1>0, <1>1, <1>4, FailCallKept DEF HandlerFails
<1>5. CASE Replay(w)
  BY <1>0, <1>1, <1>2, <1>5, CompleteCallKept DEF Replay
<1>6. CASE Rejected(w)
  BY <1>6, RejectedKept
<1> QED
  BY <1>3, <1>4, <1>5, <1>6 DEF Execute

-----------------------------------------------------------------------------
(* The alarm *)

LEMMA AlarmFiresKept ==
  ASSUME IInv, AlarmFires
  PROVE  Kept
<1>1. In(run, Steps, "waiting") \in SUBSET Steps /\ NoTime \in Time
  BY DEF In, Time
<1>2. StepOK(Alarm, run, stored)
  BY <1>1, IInvFacts, DispatchDelayedOK DEF AlarmFires
<1> QED
  BY <1>2, IInvFacts, ThreadNames, StepOKKept DEF AlarmFires

LEMMA AlarmPublishedKept ==
  ASSUME IInv, AlarmPublished
  PROVE  Kept
<1>1. thread[Alarm].todo \in SUBSET Steps
  BY IInvFacts, ThreadNames DEF AlarmPublished, ThreadOK
<1>2. RunPair(run, run)
  BY IInvFacts, SameKeeps
<1>3. StepOK(Alarm, run, run)
  BY <1>1, <1>2, IInvFacts, DispatchDelayedOK DEF AlarmPublished
<1>4. StepOK(Alarm, run, stored)
  BY <1>3, IInvFacts, SavedFirst
<1>5. delayKey' \in [Steps -> Time]
  BY IInvFacts DEF AlarmPublished, Time
<1> QED
  BY <1>4, <1>5, IInvFacts, ThreadNames, StepOKKept DEF AlarmPublished

LEMMA AlarmDeadLetteredKept ==
  ASSUME IInv, AlarmDeadLettered
  PROVE  Kept
<1>1. /\ thread[Alarm].todo \in SUBSET Comps /\ thread[Alarm].step \in AllSteps
      /\ Undone(run) /\ UNCHANGED <<delayKey, row>>
  BY IInvFacts, ThreadNames DEF AlarmDeadLettered, ThreadOK
<1>2. dlq' \in [AllSteps -> Nat]
  BY <1>1, DeadLetterType DEF AlarmDeadLettered
<1>3. StepOK(Alarm, run, stored)
  <2>1. CASE TimeOut(run, stored, alarm, thread[Alarm].todo)
    BY <1>1, <2>1, IInvFacts, TimeOutOK
  <2>2. CASE AlarmEnd(run, TRUE, alarm)
    BY <2>2, IInvFacts, AlarmEndOK
  <2> QED
    BY <2>1, <2>2 DEF AlarmDeadLettered
<1> QED
  BY <1>1, <1>2, <1>3, IInvFacts, ThreadNames, StepOKKept

-----------------------------------------------------------------------------
(* Start, cancellation, the clock and the platform *)

LEMMA ThreadsStay ==
  ASSUME IInv, UNCHANGED thread, Grows(run, stored, run', stored')
  PROVE  \E th : thread' = [thread EXCEPT ![Alarm] = th] /\ ThreadOK(th, run', stored')
<1>1. Alarm \in Threads
  BY ThreadNames
<1>2. ThreadOK(thread[Alarm], run', stored')
  BY <1>1, IInvFacts, OthersKeep
<1>3. thread' = [thread EXCEPT ![Alarm] = thread[Alarm]]
  BY <1>1 DEF IInv
<1> QED
  BY <1>2, <1>3

\* advanceToNextStep only ever completes a run.
LEMMA AdvanceStatus ==
  ASSUME NEW t, NEW r \in RunType, NEW st, NEW al, Advance(t, r, st, al)
  PROVE  run'.status \in {r.status, "completed"}
<1>1. PICK falsy \in SUBSET Conditional :
        LET live  == Pending(r) \ falsy
            batch == {s \in live : Collected(live, s)}
            skip  == {s \in Pending(r) \cap falsy : Collected(live, s)}
            next  == [r EXCEPT !.step = [s \in AllSteps |-> IF s \in skip THEN "skipped" ELSE @[s]]]
        IN \/ Dispatch(t, next, st, al, batch)
           \/ run' = [next EXCEPT !.status = "completed"]
           \/ run' = next
  BY DEF Advance, Save
<1> DEFINE live  == Pending(r) \ falsy
           batch == {s \in live : Collected(live, s)}
           skip  == {s \in Pending(r) \cap falsy : Collected(live, s)}
           next  == [r EXCEPT !.step = [s \in AllSteps |-> IF s \in skip THEN "skipped" ELSE @[s]]]
<1>2. next \in RunType /\ next.status = r.status
  BY DEF RunType, StepStatus
<1>3. batch \subseteq AllSteps
  BY StepSets DEF Pending, In
<1>4. \/ Dispatch(t, next, st, al, batch)
      \/ run' = [next EXCEPT !.status = "completed"]
      \/ run' = next
  BY <1>1
<1> HIDE DEF live, batch, skip, next
<1>5. ASSUME Dispatch(t, next, st, al, batch) PROVE run'.status = next.status
  <2>1. PICK s \in batch : \/ run' = [next EXCEPT !.step[s] = "waiting", !.due[s] = Delay[s] + Timeout[s]]
                           \/ run' = Begun(next, s)
    BY <1>5 DEF Dispatch, Save
  <2>2. Begun(next, s).status = next.status
    BY <1>2, <1>3, <2>1, BegunFacts
  <2> QED
    BY <1>2, <2>1, <2>2 DEF RunType
<1>6. [next EXCEPT !.status = "completed"].status = "completed"
  BY <1>2 DEF RunType
<1> QED
  BY <1>2, <1>4, <1>5, <1>6

LEMMA StartKept ==
  ASSUME IInv, Start
  PROVE  /\ IInv'
         /\ run.status = "none" /\ run'.status \in {"running", "completed"}
         /\ stored'.status = run'.status /\ ~Undone(run')
<1>1. RunPair(NewRun, NewRun) /\ GlobalTimeout \in Time
  BY NewRunFacts, DefinitionAssumption DEF RunPair, SafeRun, Terminal, Time
<1>2. /\ StepOK(Starter, NewRun, NewRun) /\ delayKey' \in [Steps -> Time]
      /\ UNCHANGED <<dlq, row>>
  BY <1>1, NewRunFacts, ThreadNames, AdvanceOK DEF Start
<1>3. run'.status \in {"running", "completed"}
  BY NewRunFacts, AdvanceStatus DEF Start
<1>4. stored'.status = run'.status /\ ~Undone(run')
  BY <1>2, <1>3, NewRunFacts DEF StepOK, View, SameView, Saved, Moved, Terminal
<1>5. Grows(run, stored, run', stored')
  BY IInvFacts DEF Start, Grows, RunPair, SafeRun, Terminal
<1>6. PICK th : thread' = [thread EXCEPT ![Starter] = th] /\ ThreadOK(th, run', stored')
  BY <1>2 DEF StepOK
<1>7. RestOK' /\ RunPair(run', stored') /\ row' = row
  BY <1>2, IInvFacts DEF RestOK, StepOK
<1>8. IInv'
  BY <1>5, <1>6, <1>7, ThreadNames, StepKeeps
<1> QED
  BY <1>3, <1>4, <1>8 DEF Start

LEMMA RecordRunKept ==
  ASSUME IInv, RecordRun
  PROVE  Kept
<1>1. thread' = [thread EXCEPT ![Starter] = IdleThread] /\ ThreadOK(IdleThread, run', stored')
  BY IdleOK DEF RecordRun
<1>2. RestOK'
  BY IInvFacts DEF RestOK, RecordRun
<1>3. /\ RunPair(run', stored') /\ Grows(run, stored, run', stored')
      /\ View(run, stored, run', stored')
  BY IInvFacts, SameView2 DEF RecordRun
<1>4. row' # row => (row' \in Terminal => stored'.status = row')
  BY DEF RecordRun, Terminal
<1> QED
  BY <1>1, <1>2, <1>3, <1>4, ThreadNames, StepKeeps DEF Kept

LEMMA CancelKept ==
  ASSUME IInv, Cancel
  PROVE  Kept
<1> DEFINE q == [run EXCEPT !.status = "failed"]
<1>1. q \in RunType /\ q.status = "failed" /\ q.step = run.step
  BY IInvFacts, SetStatusFacts DEF RunStatus
<1>2. run' = q /\ stored' = q /\ alarm' = NoTime /\ UNCHANGED <<delayKey, thread, queue, dlq, row>>
  BY DEF Cancel, Save
<1>3. CanGo(run, "failed")
  BY DEF Cancel, CanGo
<1> HIDE DEF q
<1>4. RunPair(q, q) /\ Grows(run, stored, q, q) /\ Moved(run, stored, q, q)
  BY <1>1, <1>3, IInvFacts, EndKeeps DEF Terminal
<1>5. StepOK(Alarm, run, stored)
  BY <1>2, <1>4, IInvFacts, ThreadsStay DEF StepOK, View, Time
<1> QED
  BY <1>2, <1>5, IInvFacts, ThreadNames, StepOKKept

LEMMA LoseKept ==
  ASSUME IInv, NEW s \in AllSteps, Lose(s)
  PROVE  Kept
<1>1. queue' \in [AllSteps -> Nat]
  BY IInvFacts DEF Lose, Take
<1>2. UNCHANGED <<run, stored, delayKey, alarm, thread, dlq, row>>
  BY DEF Lose
<1>3. Grows(run, stored, run', stored')
  BY <1>2 DEF Grows
<1>4. StepOK(Alarm, run, stored)
  BY <1>1, <1>2, <1>3, IInvFacts, ThreadNames, ThreadsStay, ThreadStep
<1> QED
  BY <1>2, <1>4, IInvFacts, ThreadNames, StepOKKept

LEMMA DownType ==
  ASSUME NEW c \in Time
  PROVE  Down(c) \in Time
  BY DEF Down, Time, NoTime

LEMMA LaterSame ==
  ASSUME NEW r \in RunType
  PROVE  Same(r, [r EXCEPT !.due = [s \in AllSteps |-> Down(@[s])]])
<1> DEFINE q == [r EXCEPT !.due = [s \in AllSteps |-> Down(@[s])]]
<1>1. \A s \in AllSteps : Down(r.due[s]) \in Nat \cup {NoTime}
  BY DownType DEF RunType, Time
<1>2. q \in RunType /\ q.status = r.status /\ q.step = r.step
  BY <1>1 DEF RunType
<1> HIDE DEF q
<1>3. Same(r, q)
  BY <1>2 DEF Same, Undone
<1> QED
  BY <1>3 DEF q

LEMMA TickKept ==
  ASSUME IInv, Tick
  PROVE  Kept
<1>1. Same(run, run') /\ Same(stored, stored')
  BY IInvFacts, LaterSame DEF Tick
<1>2. /\ RunPair(run', stored') /\ Grows(run, stored, run', stored')
      /\ SameView(run, stored, run', stored')
  BY <1>1, IInvFacts DEF RunPair, SafeRun, Same, Grows, SameView
<1>3. alarm' \in Time /\ delayKey' \in [Steps -> Time] /\ UNCHANGED <<thread, queue, dlq, row>>
  BY IInvFacts, DownType DEF Tick
<1>4. StepOK(Alarm, run, stored)
  BY <1>2, <1>3, IInvFacts, ThreadsStay DEF StepOK, View
<1> QED
  BY <1>3, <1>4, IInvFacts, ThreadNames, StepOKKept

LEMMA EvictKept ==
  ASSUME IInv, Evict
  PROVE  /\ IInv' /\ run'.status = stored.status /\ stored'.status = stored.status
         /\ Undone(run') <=> (stored.status \in {"compensating", "failed"} /\ Undone(run))
<1>1. run' = stored /\ UNCHANGED <<stored, delayKey, queue, dlq, row>>
  BY DEF Evict
<1>2. RunPair(run', stored')
  BY <1>1, IInvFacts DEF RunPair
<1>3. \A t \in Threads : ThreadOK(thread'[t], run', stored')
  <2> TAKE t \in Threads
  <2>0. thread'[t] = IF thread[t].pc \notin Inside THEN thread[t]
                     ELSE IF t \in Executors THEN [thread[t] EXCEPT !.pc = "threw", !.todo = {}]
                     ELSE IdleThread
    BY DEF Evict
  <2>1. thread[t] \in ThreadType /\ ThreadOK(thread[t], run, stored)
    BY IInvFacts
  <2>2. CASE thread[t].pc \notin Inside
    BY <2>0, <2>1, <2>2 DEF ThreadOK, Inside
  <2>3. CASE thread[t].pc \in Inside
    <3>1. thread[t].step \in AllSteps
      BY <2>1, <2>3 DEF ThreadOK, Inside
    <3> DEFINE th == [thread[t] EXCEPT !.pc = "threw", !.todo = {}]
    <3>2. ThreadOK(th, run', stored')
      BY <2>1, <3>1 DEF ThreadOK, ThreadType, Inside, Outside
    <3> QED
      BY <2>0, <2>3, <3>2, IdleOK
  <2> QED
    BY <2>2, <2>3
<1>4. thread' \in [Threads -> ThreadType]
  <2>1. \A t \in Threads : thread'[t] \in ThreadType
    BY <1>3 DEF ThreadOK
  <2> QED
    BY <2>1 DEF Evict
<1>5. RestOK'
  BY <1>1, IInvFacts DEF RestOK, Evict, Time
<1>6. RowIsBacked'
  BY <1>1 DEF IInv, RowIsBacked
<1> QED
  BY <1>1, <1>2, <1>3, <1>4, <1>5, <1>6, IInvFacts DEF IInv, RunPair, SafeRun

-----------------------------------------------------------------------------
(* The theorems *)

LEMMA InitInv == SystemInit => IInv
<1> SUFFICES ASSUME SystemInit PROVE IInv
  OBVIOUS
<1>1. run = NoRun /\ stored = NoRun
  BY DEF SystemInit, Init
<1>2. RunPair(run, stored)
  BY <1>1, NewRunFacts DEF RunPair, SafeRun, Terminal
<1>3. thread = [t \in Threads |-> IdleThread] /\ \A t \in Threads : ThreadOK(thread[t], run, stored)
  BY IdleOK DEF SystemInit, Init
<1>4. thread \in [Threads -> ThreadType]
  BY <1>3 DEF ThreadOK
<1>5. RestOK /\ RowIsBacked
  BY DEF SystemInit, Init, RestOK, RowIsBacked, Time, Terminal
<1> QED
  BY <1>2, <1>3, <1>4, <1>5 DEF IInv

\* Every step keeps the invariant, and is one of RunLifecycle or none at all.
LEMMA ResumeKept ==
  ASSUME IInv, NEW t \in Threads, Resume(t)
  PROVE  Kept
  BY ContinueAdvanceKept, ContinueCompensateKept, RecordCompletionKept, FinishCompletionKept,
     WriteFinalKept, EmitFailureKept, FinishFailureKept DEF Resume

LEMMA StepInv ==
  ASSUME IInv, [Next]_vars
  PROVE  Kept \/ (Start /\ IInv') \/ (Eviction /\ IInv')
<1>1. CASE Object
  <2>1. CASE Start
    BY <2>1, StartKept
  <2>2. CASE RecordRun \/ AlarmFires \/ ResumeAlarm \/ \E t \in Threads : Resume(t)
    BY <2>2, RecordRunKept, AlarmFiresKept, AlarmPublishedKept, AlarmDeadLetteredKept,
       ResumeKept DEF ResumeAlarm
  <2> QED
    BY <1>1, <2>1, <2>2 DEF Object, Handlers
<1>2. CASE Clock
  BY <1>2, TickKept DEF Clock
<1>3. CASE Eviction
  BY <1>3, EvictKept DEF Eviction
<1>4. CASE Cancellation
  BY <1>4, CancelKept DEF Cancellation
<1>5. CASE \E w \in Executors : Execute(w) \/ \E s \in AllSteps : Deliver(w, s)
  BY <1>5, ExecuteKept, DeliverKept
<1>6. CASE \E s \in AllSteps : Lose(s)
  BY <1>6, LoseKept
<1>7. CASE UNCHANGED vars
  <2>1. UNCHANGED <<run, stored, delayKey, alarm, thread, queue, dlq, row>>
    BY <1>7 DEF vars
  <2>2. IInv'
    BY <2>1 DEF IInv, RestOK, RowIsBacked
  <2>3. View(run, stored, run', stored')
    BY <2>1 DEF View, SameView
  <2> QED
    BY <2>2, <2>3 DEF Kept
<1> QED
  BY <1>1, <1>2, <1>3, <1>4, <1>5, <1>6, <1>7 DEF Next, Stopped

THEOREM Invariance == Spec => []IInv
<1>1. IInv /\ [Next]_vars => IInv'
  BY StepInv DEF Kept
<1> QED
  BY <1>1, InitInv, PTL DEF Spec

\* The object's state, its alarm, the queue and the D1 rows keep their types.
THEOREM TypeCorrect == Spec => []TypeOK
<1>1. IInv => TypeOK
  BY DEF IInv, RunPair, SafeRun, RestOK, TypeOK, Time
<1> QED
  BY <1>1, Invariance, PTL

\* However handlers interleave and whenever the object is evicted, a run that
\* completed was never undone, in memory or in storage.
THEOREM NeverUndoCompletedHolds == Spec => []NeverUndoCompleted
<1>1. IInv => NeverUndoCompleted
  BY DEF IInv, RunPair, SafeRun, NeverUndoCompleted
<1> QED
  BY <1>1, Invariance, PTL

\* The D1 row never claims an outcome that storage does not have.
THEOREM RowIsBackedHolds == Spec => []RowIsBacked
<1>1. IInv => RowIsBacked
  BY DEF IInv
<1> QED
  BY <1>1, Invariance, PTL

\* The status of a run behaves as RunLifecycle says.
THEOREM Refinement == Spec => ImplementsLifecycle
<1>1. SystemInit => Lifecycle!LifecycleInit
  BY NewRunFacts DEF SystemInit, Init, Lifecycle!LifecycleInit
<1>2. IInv /\ [Next]_vars => [Lifecycle!LifecycleNext]_(Lifecycle!lifecycleVars)
  <2> SUFFICES ASSUME IInv, [Next]_vars
               PROVE  [Lifecycle!LifecycleNext]_(Lifecycle!lifecycleVars)
    OBVIOUS
  <2>1. CASE SameView(run, stored, run', stored')
    BY <2>1 DEF SameView, Lifecycle!lifecycleVars, Undone
  <2>2. CASE Saved(run, stored, run', stored')
    BY <2>2 DEF Saved, Lifecycle!LifecycleNext, Lifecycle!Checkpoint, Undone
  <2>3. CASE Moved(run, stored, run', stored')
    BY <2>3 DEF Moved, Terminal, Lifecycle!LifecycleNext, Lifecycle!Move,
       Lifecycle!Transitions, Lifecycle!Ended, Undone
  <2>4. CASE Start
    BY <2>4, StartKept DEF Lifecycle!LifecycleNext, Lifecycle!Begin, Undone
  <2>5. CASE Eviction
    <3>1. run'.status = stored.status /\ stored'.status = stored.status /\ stored.status # "none"
      BY <2>5, EvictKept, IInvFacts DEF Eviction, RunPair
    <3>2. Undone(run)' <=> (stored.status \in {"compensating", "failed"} /\ Undone(run))
      BY <2>5, EvictKept DEF Eviction, Undone
    <3> QED
      BY <3>1, <3>2 DEF Lifecycle!LifecycleNext, Lifecycle!Forget, Undone
  <2> QED
    BY <2>1, <2>2, <2>3, <2>4, <2>5, StepInv DEF Kept, View
<1> QED
  BY <1>1, <1>2, Invariance, PTL DEF Spec, ImplementsLifecycle, Lifecycle!LifecycleSpec

=============================================================================
