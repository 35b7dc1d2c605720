------------------------ MODULE WorkflowExecutionsProofs ------------------------
(***************************************************************************)
(* WorkflowExecutions, for any number of requests, isolates, tenants, keys *)
(* and steps: its types, the one answer to a key, and the only reason for  *)
(* which an execution lacks a step.                                        *)
(***************************************************************************)
EXTENDS WorkflowExecutions, TLAPS

LEMMA Constants == None \notin Calls /\ None \notin Row /\ StepCount \in Nat /\ StepCount >= 1
  BY ExecAssumption DEF Row

USE Constants

\* A function stays of its kind when one value of it is counted up.
LEMMA CountedUp ==
  ASSUME NEW D, NEW f \in [D -> Nat], NEW d \in D
  PROVE  [f EXCEPT ![d] = @ + 1] \in [D -> Nat]
  OBVIOUS

\* Where a request has its id.
Drawn == {"insert", "delete", "steps", "read"}

\* A request that records has an id, and has the next step yet to write.
Typed ==
  /\ ExecTypeOK
  /\ \A c \in Calls :
       /\ call[c].at \in Drawn => call[c].id \in Calls
       /\ call[c].at = "steps" => call[c].next \in 1 .. StepCount
       /\ call[c].at \in {"new", "find", "cached", "execute", "insert", "delete"} =>
            call[c].next = 1

\* What a request is asked never changes.
Asked ==
  \A c \in Calls : /\ call'[c].tenant = call[c].tenant
                   /\ call'[c].key = call[c].key
                   /\ call'[c].isolate = call[c].isolate

-----------------------------------------------------------------------------
(* How a step changes a request *)

LEMMA CallFields ==
  ASSUME Typed, NEW c \in Calls
  PROVE  /\ call[c] \in Call /\ call[c].at \in Places /\ call[c].isolate \in Isolates
         /\ call[c].tenant \in Tenants /\ call[c].key \in Keys
         /\ call[c].id \in Calls \cup {None} /\ call[c].next \in 1 .. StepCount + 1
  BY DEF Typed, ExecTypeOK, Call

LEMMA GoEffect ==
  ASSUME Typed, NEW c \in Calls, NEW p \in Places, Go(c, p)
  PROVE  /\ call' \in [Calls -> Call]
         /\ \A d \in Calls : d # c => call'[d] = call[d]
         /\ call'[c].at = p /\ call'[c].id = call[c].id /\ call'[c].next = call[c].next
         /\ Asked
<1>1. call \in [Calls -> Call] /\ call' = [call EXCEPT ![c] = [call[c] EXCEPT !.at = p]]
  BY DEF Typed, ExecTypeOK, Go
<1>2. [call[c] EXCEPT !.at = p] \in Call
  BY CallFields DEF Call
<1> QED BY <1>1, <1>2, CallFields DEF Call, Asked

LEMMA AnswerEffect ==
  ASSUME Typed, NEW c \in Calls, NEW i \in Calls, Answer(c, i)
  PROVE  /\ call' \in [Calls -> Call]
         /\ \A d \in Calls : d # c => call'[d] = call[d]
         /\ call'[c].at = "answered" /\ call'[c].id = i /\ call'[c].next = call[c].next
         /\ Asked
<1> DEFINE x == [call[c] EXCEPT !.at = "answered", !.id = i]
<1>1. call \in [Calls -> Call] /\ call' = [call EXCEPT ![c] = x]
  BY DEF Typed, ExecTypeOK, Answer
<1>2. /\ x \in Call /\ x.at = "answered" /\ x.id = i /\ x.next = call[c].next
      /\ x.tenant = call[c].tenant /\ x.key = call[c].key /\ x.isolate = call[c].isolate
  BY CallFields DEF Call, Places
<1> HIDE DEF x
<1> QED BY <1>1, <1>2 DEF Asked

LEMMA DrawEffect ==
  ASSUME Typed, NEW c \in Calls, NEW i \in Calls,
         call' = [call EXCEPT ![c].at = "insert", ![c].id = i]
  PROVE  /\ call' \in [Calls -> Call]
         /\ \A d \in Calls : d # c => call'[d] = call[d]
         /\ call'[c].at = "insert" /\ call'[c].id = i /\ call'[c].next = call[c].next
         /\ Asked
<1> DEFINE x == [call[c] EXCEPT !.at = "insert", !.id = i]
<1>1. call \in [Calls -> Call] /\ call' = [call EXCEPT ![c] = x]
  BY DEF Typed, ExecTypeOK
<1>2. /\ x \in Call /\ x.at = "insert" /\ x.id = i /\ x.next = call[c].next
      /\ x.tenant = call[c].tenant /\ x.key = call[c].key /\ x.isolate = call[c].isolate
  BY CallFields DEF Call, Places
<1> HIDE DEF x
<1> QED BY <1>1, <1>2 DEF Asked

LEMMA StepEffect ==
  ASSUME Typed, NEW c \in Calls, Step(c)
  PROVE  /\ call' \in [Calls -> Call]
         /\ \A d \in Calls : d # c => call'[d] = call[d]
         /\ call'[c].at = (IF Last(c) THEN "read" ELSE "steps")
         /\ call'[c].id = call[c].id /\ call'[c].next = call[c].next + 1
         /\ call[c].next \in 1 .. StepCount /\ call[c].id \in Calls
         /\ Asked
<1> DEFINE p == IF Last(c) THEN "read" ELSE "steps"
           x == [call[c] EXCEPT !.next = call[c].next + 1, !.at = p]
<1>0. call[c].at = "steps" /\ call[c].next \in 1 .. StepCount /\ call[c].id \in Calls
  BY DEF Step, Typed, Drawn
<1>1. call \in [Calls -> Call] /\ call' = [call EXCEPT ![c] = x]
  BY <1>0 DEF Typed, ExecTypeOK, Step
<1>2. p \in Places
  BY DEF Places
<1>3. /\ x \in Call /\ x.at = p /\ x.id = call[c].id /\ x.next = call[c].next + 1
      /\ x.tenant = call[c].tenant /\ x.key = call[c].key /\ x.isolate = call[c].isolate
  <2>1. call[c].next + 1 \in 1 .. StepCount + 1
    BY <1>0
  <2> DEFINE n == call[c].next + 1
  <2> HIDE DEF p, n
  <2>2. n \in 1 .. StepCount + 1
    BY <2>1 DEF n
  <2>3. x = [call[c] EXCEPT !.next = n, !.at = p]
    BY DEF n
  <2> HIDE DEF x
  <2>4. /\ x \in Call /\ x.at = p /\ x.id = call[c].id /\ x.next = n
        /\ x.tenant = call[c].tenant /\ x.key = call[c].key /\ x.isolate = call[c].isolate
    BY <1>2, <2>2, <2>3, CallFields DEF Call
  <2> QED BY <2>4 DEF n
<1> HIDE DEF x
<1> QED BY <1>0, <1>1, <1>3 DEF Asked

LEMMA BrokenPlace == \A a : Broken(a) \in {"torn", "failed"}
  BY DEF Broken

LEMMA CrashEffect ==
  ASSUME Typed, NEW i \in Isolates, Crash(i)
  PROVE  /\ call' \in [Calls -> Call]
         /\ \A c \in Calls : /\ call'[c].id = call[c].id /\ call'[c].next = call[c].next
                             /\ \/ call'[c].at = call[c].at
                                \/ call'[c].at = Broken(call[c].at)
         /\ Asked
<1> DEFINE lost(c) == call[c].isolate = i /\ call[c].at \in Running
           x(c) == IF lost(c) THEN [call[c] EXCEPT !.at = Broken(call[c].at)] ELSE call[c]
<1>1. call' = [c \in Calls |-> x(c)]
  BY DEF Crash
<1>2. ASSUME NEW c \in Calls
      PROVE  /\ x(c) \in Call /\ x(c).id = call[c].id /\ x(c).next = call[c].next
             /\ x(c).tenant = call[c].tenant /\ x(c).key = call[c].key
             /\ x(c).isolate = call[c].isolate
             /\ x(c).at = call[c].at \/ x(c).at = Broken(call[c].at)
  <2>1. Broken(call[c].at) \in Places
    BY BrokenPlace DEF Places
  <2> QED BY <2>1, CallFields DEF Call
<1> HIDE DEF x
<1> QED BY <1>1, <1>2 DEF Asked

-----------------------------------------------------------------------------
(* Types *)

LEMMA TypedInit == Init => Typed
<1> SUFFICES ASSUME Init PROVE Typed
  OBVIOUS
<1>1. call \in [Calls -> Call] /\ \A c \in Calls : call[c].at = "new" /\ call[c].next = 1
  BY DEF Init, Call, Places
<1>2. crashes \in 0 .. MaxCrashes
  BY ExecAssumption DEF Init
<1> QED BY <1>1, <1>2 DEF Init, Typed, ExecTypeOK, Drawn

\* The tables and the maps but not the requests
Stored ==
  /\ rows \in [Calls -> Row \cup {None}]
  /\ steps \in [Calls -> [1 .. StepCount -> Nat]]
  /\ synthetic \in [Isolates -> [Keys -> Calls \cup {None}]]
  /\ known \in [Isolates -> [Tenants -> [Keys -> Calls \cup {None}]]]
  /\ crashes \in 0 .. MaxCrashes

LEMMA TypedKept ==
  ASSUME Typed, Stored', NEW c \in Calls, call' \in [Calls -> Call],
         \A d \in Calls : d # c => call'[d] = call[d],
         call'[c].at \in Drawn => call'[c].id \in Calls,
         call'[c].at = "steps" => call'[c].next \in 1 .. StepCount,
         call'[c].at \in {"new", "find", "cached", "execute", "insert", "delete"} =>
           call'[c].next = 1
  PROVE  Typed'
<1>1. ASSUME NEW d \in Calls
      PROVE  /\ call'[d].at \in Drawn => call'[d].id \in Calls
             /\ call'[d].at = "steps" => call'[d].next \in 1 .. StepCount
             /\ call'[d].at \in {"new", "find", "cached", "execute", "insert", "delete"} =>
                  call'[d].next = 1
  <2>1. CASE d = c
    BY <2>1
  <2>2. CASE d # c
    BY <2>2 DEF Typed
  <2> QED BY <2>1, <2>2
<1> QED BY <1>1 DEF Typed, ExecTypeOK, Stored

LEMMA TypedStep == Typed /\ [Next]_vars => Typed'
<1> SUFFICES ASSUME Typed, [Next]_vars PROVE Typed'
  OBVIOUS
<1>s. Stored
  BY DEF Typed, ExecTypeOK, Stored
<1>n. \A c \in Calls : call[c].at \in {"new", "find", "cached", "execute", "insert", "delete"} =>
        call[c].next = 1
  BY DEF Typed
<1>1. ASSUME NEW c \in Calls, Begin(c) PROVE Typed'
  <2>1. Go(c, "find") /\ call[c].at = "new" /\ Stored'
    BY <1>1, <1>s DEF Begin, Stored
  <2>2. "find" \in Places /\ "find" \notin Drawn
    BY DEF Places, Drawn
  <2> QED BY <1>n, <2>1, <2>2, GoEffect, TypedKept
<1>2. ASSUME NEW c \in Calls, Find(c) PROVE Typed'
  <2>0. call[c].at = "find" /\ Stored'
    BY <1>2, <1>s DEF Find, Stored
  <2>1. CASE Go(c, "cached")
    <3>1. "cached" \in Places /\ "cached" \notin Drawn
      BY DEF Places, Drawn
    <3> QED BY <1>n, <2>0, <2>1, <3>1, GoEffect, TypedKept
  <2>2. CASE \E i \in Calls : Answer(c, i)
    <3>1. "answered" \notin Drawn
      BY DEF Drawn
    <3> QED BY <2>0, <2>2, <3>1, AnswerEffect, TypedKept
  <2> QED BY <1>2, <2>1, <2>2 DEF Find, Recorded
<1>3. ASSUME NEW c \in Calls, FindCached(c) PROVE Typed'
  <2>0. call[c].at = "cached" /\ Stored'
    BY <1>3, <1>s DEF FindCached, Stored
  <2>1. CASE Go(c, "execute")
    <3>1. "execute" \in Places /\ "execute" \notin Drawn
      BY DEF Places, Drawn
    <3> QED BY <1>n, <2>0, <2>1, <3>1, GoEffect, TypedKept
  <2>2. CASE \E i \in Calls : Answer(c, i)
    <3>1. "answered" \notin Drawn
      BY DEF Drawn
    <3> QED BY <2>0, <2>2, <3>1, AnswerEffect, TypedKept
  <2>3. known[call[c].isolate][call[c].tenant][call[c].key] \in Calls \cup {None}
    BY <1>s, CallFields DEF Stored
  <2> QED BY <1>3, <2>1, <2>2, <2>3 DEF FindCached, Own
<1>4. ASSUME NEW c \in Calls, Execute(c) PROVE Typed'
  <2>0. call[c].at = "execute"
    BY <1>4 DEF Execute
  <2> PICK i \in Calls :
        /\ call' = [call EXCEPT ![c].at = "insert", ![c].id = i]
        /\ \/ UNCHANGED synthetic
           \/ synthetic' = [synthetic EXCEPT ![call[c].isolate][call[c].key] = c]
    <3>1. synthetic[call[c].isolate][call[c].key] \in Calls \cup {None}
      BY <1>s, CallFields DEF Stored
    <3> QED BY <1>4, <3>1 DEF Execute
  <2>1. Stored'
    <3>1. synthetic' \in [Isolates -> [Keys -> Calls \cup {None}]]
      <4>1. /\ synthetic \in [Isolates -> [Keys -> Calls \cup {None}]]
            /\ call[c].isolate \in Isolates /\ call[c].key \in Keys
        BY <1>s, CallFields DEF Stored
      <4>2. CASE UNCHANGED synthetic
        BY <4>1, <4>2
      <4>3. CASE synthetic' = [synthetic EXCEPT ![call[c].isolate][call[c].key] = c]
        BY <4>1, <4>3
      <4> QED BY <4>2, <4>3
    <3>2. UNCHANGED <<rows, steps, known, crashes>>
      BY <1>4 DEF Execute
    <3> QED BY <1>s, <3>1, <3>2 DEF Stored
  <2>2. /\ call' \in [Calls -> Call]
        /\ \A d \in Calls : d # c => call'[d] = call[d]
        /\ call'[c].at = "insert" /\ call'[c].id = i /\ call'[c].next = call[c].next
    BY DrawEffect
  <2> QED BY <1>n, <2>0, <2>1, <2>2, TypedKept
<1>5. ASSUME NEW c \in Calls, Insert(c) PROVE Typed'
  <2>0. call[c].at = "insert" /\ call[c].id \in Calls
    BY <1>5 DEF Insert, Typed, Drawn
  <2>1. CASE Upsert(c) /\ Go(c, "delete")
    <3>1. Stored'
      <4>1. \A m \in Calls : rows[m] \in Row \cup {None}
        BY <1>s DEF Stored
      <4>2. [tenant |-> IF rows[call[c].id] = None THEN call[c].tenant ELSE rows[call[c].id].tenant,
             key |-> call[c].key, by |-> c] \in Row
        BY <2>0, <4>1, CallFields DEF Row
      <4>3. rows' \in [Calls -> Row \cup {None}]
        BY <1>s, <2>0, <2>1, <4>2 DEF Upsert, Stored
      <4> QED BY <1>5, <1>s, <4>3 DEF Insert, Stored
    <3>2. "delete" \in Places
      BY DEF Places
    <3> QED BY <1>n, <2>0, <2>1, <3>1, <3>2, GoEffect, TypedKept
  <2>2. CASE Go(c, "failed") /\ UNCHANGED rows
    <3>1. Stored'
      BY <1>5, <1>s, <2>2 DEF Insert, Stored
    <3>2. "failed" \in Places /\ "failed" \notin Drawn
      BY DEF Places, Drawn
    <3> QED BY <2>2, <3>1, <3>2, GoEffect, TypedKept
  <2> QED BY <1>5, <2>1, <2>2 DEF Insert
<1>6. ASSUME NEW c \in Calls, Delete(c) PROVE Typed'
  <2>0. call[c].at = "delete" /\ call[c].id \in Calls /\ Go(c, "steps")
    BY <1>6 DEF Delete, Typed, Drawn
  <2>1. Stored'
    BY <1>6, <1>s, <2>0 DEF Delete, Stored
  <2>2. "steps" \in Places
    BY DEF Places
  <2> QED BY <1>n, <2>0, <2>1, <2>2, GoEffect, TypedKept
<1>7. ASSUME NEW c \in Calls, Step(c) PROVE Typed'
  <2>0. call[c].next \in 1 .. StepCount /\ call[c].id \in Calls
    BY <1>7, StepEffect
  <2>1. Stored'
    <3>1. steps' \in [Calls -> [1 .. StepCount -> Nat]]
      <4>1. steps \in [Calls -> [1 .. StepCount -> Nat]]
        BY <1>s DEF Stored
      <4>2. steps' = [steps EXCEPT ![call[c].id][call[c].next] = @ + 1]
        BY <1>7 DEF Step
      <4> DEFINE row == [steps[call[c].id] EXCEPT ![call[c].next] = @ + 1]
      <4>3. row \in [1 .. StepCount -> Nat]
        <5>1. steps[call[c].id] \in [1 .. StepCount -> Nat]
          BY <2>0, <4>1
        <5> QED BY <2>0, <5>1, CountedUp
      <4>4. steps' = [steps EXCEPT ![call[c].id] = row]
        BY <4>2
      <4> HIDE DEF row
      <4> QED BY <2>0, <4>1, <4>3, <4>4
    <3>2. known' \in [Isolates -> [Tenants -> [Keys -> Calls \cup {None}]]]
      <4>1. known \in [Isolates -> [Tenants -> [Keys -> Calls \cup {None}]]]
        BY <1>s DEF Stored
      <4>2. CASE Last(c)
        <5>1. known' = [known EXCEPT ![call[c].isolate][call[c].tenant][call[c].key] = call[c].id]
          BY <1>7, <4>2 DEF Step
        <5> QED BY <2>0, <4>1, <5>1
      <4>3. CASE ~Last(c)
        BY <1>7, <4>1, <4>3 DEF Step
      <4> QED BY <4>2, <4>3
    <3> QED BY <1>7, <1>s, <3>1, <3>2 DEF Step, Stored
  <2>2. call'[c].at = "steps" => call[c].next # StepCount
    BY <1>7, StepEffect DEF Last
  <2>3. call'[c].at \in {"read", "steps"} /\ call'[c].next = call[c].next + 1 /\ call'[c].id \in Calls
    BY <1>7, StepEffect
  <2> QED BY <1>7, <2>0, <2>1, <2>2, <2>3, StepEffect, TypedKept
<1>8. ASSUME NEW c \in Calls, Read(c) PROVE Typed'
  <2>1. Go(c, "answered") \/ Go(c, "failed")
    BY <1>8 DEF Read
  <2>2. Stored'
    BY <1>8, <1>s DEF Read, Stored
  <2>3. {"answered", "failed"} \subseteq Places \ Drawn
    BY DEF Places, Drawn
  <2> QED BY <2>1, <2>2, <2>3, GoEffect, TypedKept
<1>9. ASSUME NEW c \in Calls, Fail(c) PROVE Typed'
  <2>1. Go(c, Broken(call[c].at))
    BY <1>9 DEF Fail
  <2>2. Stored'
    BY <1>9, <1>s DEF Fail, Stored
  <2>3. {"torn", "failed"} \subseteq Places \ Drawn
    BY DEF Places, Drawn
  <2> QED BY <2>1, <2>2, <2>3, BrokenPlace, GoEffect, TypedKept
<1>10. ASSUME NEW i \in Isolates, Crash(i) PROVE Typed'
  <2>1. Stored'
    <3>1. crashes' \in 0 .. MaxCrashes
      BY <1>10, <1>s, ExecAssumption DEF Crash, Stored
    <3> QED BY <1>10, <1>s, <3>1 DEF Crash, Stored
  <2>2. \A c \in Calls : call'[c].at = call[c].at \/ call'[c].at \in {"torn", "failed"}
    BY <1>10, CrashEffect, BrokenPlace
  <2>3. {"torn", "failed"} \cap Drawn = {}
    BY DEF Drawn
  <2>4. call' \in [Calls -> Call] /\ \A c \in Calls : call'[c].id = call[c].id /\ call'[c].next = call[c].next
    BY <1>10, CrashEffect
  <2> QED BY <2>1, <2>2, <2>3, <2>4 DEF Typed, ExecTypeOK, Stored
<1>11. CASE UNCHANGED vars
  BY <1>11 DEF vars, Typed, ExecTypeOK
<1> QED BY <1>1, <1>2, <1>3, <1>4, <1>5, <1>6, <1>7, <1>8, <1>9, <1>10, <1>11 DEF Next, Handle

\* The tables, the maps and the requests have their types.
THEOREM TypeCorrect == Spec => []ExecTypeOK
<1>1. Typed => ExecTypeOK
  BY DEF Typed
<1> QED BY <1>1, TypedInit, TypedStep, PTL DEF Spec

-----------------------------------------------------------------------------
(* One answer *)

\* Every id belongs to the key of the call that drew it, a tenant's key has one row,
\* and an answer is the row of the tenant's key.
Agreed ==
  /\ \A i \in Isolates, k \in Keys :
       synthetic[i][k] # None => call[synthetic[i][k]].key = k
  /\ \A i \in Isolates, t \in Tenants, k \in Keys :
       known[i][t][k] # None => call[known[i][t][k]].key = k
  /\ \A c \in Calls : call[c].at \in Drawn => call[call[c].id].key = call[c].key
  /\ \A m \in Calls : rows[m] # None => rows[m].key = call[m].key
  /\ \A m, n \in Calls :
       /\ rows[m] # None /\ rows[n] # None
       /\ rows[m].tenant = rows[n].tenant /\ rows[m].key = rows[n].key
       => m = n
  /\ \A c \in Calls : call[c].at = "answered" =>
       call[c].id \in Recorded(call[c].tenant, call[c].key)

\* The maps as Agreed wants them, whichever request asks.
MapsAgree ==
  /\ \A i \in Isolates, k \in Keys :
       synthetic[i][k] # None => call[synthetic[i][k]].key = k
  /\ \A i \in Isolates, t \in Tenants, k \in Keys :
       known[i][t][k] # None => call[known[i][t][k]].key = k

\* A step of one request that leaves the rows alone
LEMMA AgreedKept ==
  ASSUME Typed, Agreed, rows' = rows, MapsAgree', Asked, NEW c \in Calls,
         \A d \in Calls : d # c => call'[d] = call[d],
         call'[c].at \in Drawn => call'[c].id \in Calls /\ call[call'[c].id].key = call[c].key,
         call'[c].at = "answered" =>
           call'[c].id \in Recorded(call[c].tenant, call[c].key)
  PROVE  Agreed'
<1>1. \A t \in Tenants, k \in Keys : Recorded(t, k)' = Recorded(t, k)
  BY DEF Recorded
<1>2. \A d \in Calls : call'[d].at \in Drawn => call'[call'[d].id].key = call'[d].key
  <2> SUFFICES ASSUME NEW d \in Calls, call'[d].at \in Drawn
               PROVE  call'[call'[d].id].key = call'[d].key
    OBVIOUS
  <2>1. CASE d = c
    BY <2>1 DEF Asked
  <2>2. CASE d # c
    <3>1. call'[d] = call[d] /\ call[d].id \in Calls /\ call[call[d].id].key = call[d].key
      BY <2>2 DEF Typed, Agreed
    <3> QED BY <3>1 DEF Asked
  <2> QED BY <2>1, <2>2
<1>3. ASSUME NEW d \in Calls, call'[d].at = "answered"
      PROVE  (call[d].id \in Recorded(call[d].tenant, call[d].key))'
  <2>1. call'[d].id \in Recorded(call[d].tenant, call[d].key)
    <3>1. CASE d = c
      BY <1>3, <3>1
    <3>2. CASE d # c
      BY <1>3, <3>2 DEF Agreed
    <3> QED BY <3>1, <3>2
  <2>2. call'[d].tenant = call[d].tenant /\ call'[d].key = call[d].key
    BY DEF Asked
  <2> QED BY <2>1, <2>2 DEF Recorded
<1>4. \A m \in Calls : rows[m] # None => rows[m].key = call'[m].key
  BY DEF Agreed, Asked
<1>5. \A m, n \in Calls :
        /\ rows[m] # None /\ rows[n] # None
        /\ rows[m].tenant = rows[n].tenant /\ rows[m].key = rows[n].key
        => m = n
  BY DEF Agreed
<1> QED BY <1>2, <1>3, <1>4, <1>5 DEF Agreed, MapsAgree

LEMMA MapsKept ==
  ASSUME Typed, Agreed, synthetic' = synthetic, known' = known, Asked
  PROVE  MapsAgree'
<1>1. \A i \in Isolates, k \in Keys : synthetic[i][k] # None => synthetic[i][k] \in Calls
  BY DEF Typed, ExecTypeOK
<1>2. \A i \in Isolates, t \in Tenants, k \in Keys : known[i][t][k] # None => known[i][t][k] \in Calls
  BY DEF Typed, ExecTypeOK
<1> QED BY <1>1, <1>2 DEF Agreed, MapsAgree, Asked

LEMMA AgreedInit == Init => Agreed
  BY DEF Init, Agreed, Drawn

LEMMA AgreedStep == Typed /\ Agreed /\ [Next]_vars => Agreed'
<1> SUFFICES ASSUME Typed, Agreed, [Next]_vars PROVE Agreed'
  OBVIOUS
<1>s. /\ synthetic \in [Isolates -> [Keys -> Calls \cup {None}]]
      /\ known \in [Isolates -> [Tenants -> [Keys -> Calls \cup {None}]]]
      /\ rows \in [Calls -> Row \cup {None}]
  BY DEF Typed, ExecTypeOK
<1>k. \A c \in Calls : call[c].at \in Drawn => call[c].id \in Calls /\ call[call[c].id].key = call[c].key
  BY DEF Typed, Agreed
<1>1. ASSUME NEW c \in Calls, Begin(c) PROVE Agreed'
  <2>1. Go(c, "find") /\ rows' = rows /\ synthetic' = synthetic /\ known' = known
    BY <1>1 DEF Begin
  <2>2. "find" \in Places /\ "find" \notin Drawn
    BY DEF Places, Drawn
  <2> QED BY <2>1, <2>2, GoEffect, MapsKept, AgreedKept
<1>2. ASSUME NEW c \in Calls, Find(c) PROVE Agreed'
  <2>1. rows' = rows /\ synthetic' = synthetic /\ known' = known
    BY <1>2 DEF Find
  <2>2. CASE Go(c, "cached")
    <3>1. "cached" \in Places /\ "cached" \notin Drawn
      BY DEF Places, Drawn
    <3> QED BY <2>1, <2>2, <3>1, GoEffect, MapsKept, AgreedKept
  <2>3. ASSUME NEW i \in Recorded(call[c].tenant, call[c].key), Answer(c, i) PROVE Agreed'
    <3>1. "answered" \notin Drawn /\ i \in Calls
      BY DEF Drawn, Recorded
    <3>2. /\ \A d \in Calls : d # c => call'[d] = call[d]
          /\ call'[c].at = "answered" /\ call'[c].id = i /\ Asked
      BY <2>3, <3>1, AnswerEffect
    <3> QED BY <2>1, <2>3, <3>1, <3>2, MapsKept, AgreedKept
  <2> QED BY <1>2, <2>2, <2>3 DEF Find
<1>3. ASSUME NEW c \in Calls, FindCached(c) PROVE Agreed'
  <2> DEFINE i == known[call[c].isolate][call[c].tenant][call[c].key]
  <2>1. rows' = rows /\ synthetic' = synthetic /\ known' = known
    BY <1>3 DEF FindCached
  <2>2. CASE Go(c, "execute")
    <3>1. "execute" \in Places /\ "execute" \notin Drawn
      BY DEF Places, Drawn
    <3> QED BY <2>1, <2>2, <3>1, GoEffect, MapsKept, AgreedKept
  <2>3. CASE Own(i, call[c].tenant) /\ Answer(c, i)
    <3>1. i \in Calls /\ rows[i] # None /\ rows[i].tenant = call[c].tenant
      <4>1. i \in Calls \cup {None}
        BY <1>s, CallFields
      <4> HIDE DEF i
      <4> QED BY <2>3, <4>1 DEF Own
    <3>2. call[i].key = call[c].key
      BY <3>1, CallFields DEF Agreed
    <3>3. rows[i].key = call[c].key
      BY <3>1, <3>2 DEF Agreed
    <3>4. i \in Recorded(call[c].tenant, call[c].key)
      BY <3>1, <3>3 DEF Recorded
    <3>5. /\ \A d \in Calls : d # c => call'[d] = call[d]
          /\ call'[c].at = "answered" /\ call'[c].id = i /\ Asked
      BY <2>3, <3>1, AnswerEffect
    <3>6. "answered" \notin Drawn
      BY DEF Drawn
    <3> QED BY <2>1, <3>4, <3>5, <3>6, MapsKept, AgreedKept
  <2> QED BY <1>3, <2>2, <2>3 DEF FindCached
<1>4. ASSUME NEW c \in Calls, Execute(c) PROVE Agreed'
  <2> DEFINE i == call[c].isolate
             k == call[c].key
  <2>0. i \in Isolates /\ k \in Keys /\ rows' = rows /\ known' = known
    BY <1>4, CallFields DEF Execute
  <2>1. CASE /\ synthetic[i][k] # None /\ UNCHANGED synthetic
             /\ call' = [call EXCEPT ![c].at = "insert", ![c].id = synthetic[i][k]]
    <3> DEFINE m == synthetic[i][k]
    <3>1. m \in Calls /\ call[m].key = call[c].key
      BY <1>s, <2>0, <2>1 DEF Agreed
    <3>2. call' = [call EXCEPT ![c].at = "insert", ![c].id = m] /\ synthetic' = synthetic
      BY <2>1
    <3> HIDE DEF m
    <3>3. /\ \A d \in Calls : d # c => call'[d] = call[d]
          /\ call'[c].at = "insert" /\ call'[c].id = m /\ Asked
      BY <3>1, <3>2, DrawEffect
    <3> QED BY <2>0, <3>1, <3>2, <3>3, MapsKept, AgreedKept
  <2>2. CASE /\ synthetic' = [synthetic EXCEPT ![i][k] = c]
             /\ call' = [call EXCEPT ![c].at = "insert", ![c].id = c]
    <3>1. /\ \A d \in Calls : d # c => call'[d] = call[d]
          /\ call'[c].at = "insert" /\ call'[c].id = c /\ Asked
      BY <2>2, DrawEffect
    <3>2. ASSUME NEW j \in Isolates, NEW l \in Keys, synthetic'[j][l] # None
          PROVE  call'[synthetic'[j][l]].key = l
      <4>1. synthetic[j] \in [Keys -> Calls \cup {None}] /\ synthetic[i] \in [Keys -> Calls \cup {None}]
        BY <1>s, <2>0
      <4>2. CASE j = i /\ l = k
        <5>1. synthetic'[j][l] = c
          BY <1>s, <2>0, <2>2, <4>1, <4>2
        <5> QED BY <3>1, <4>2, <5>1 DEF Asked
      <4>3. CASE ~(j = i /\ l = k)
        <5>1. synthetic'[j][l] = synthetic[j][l]
          BY <1>s, <2>0, <2>2, <4>1, <4>3
        <5>2. synthetic[j][l] \in Calls
          BY <3>2, <4>1, <5>1
        <5> QED BY <3>1, <3>2, <5>1, <5>2 DEF Agreed, Asked
      <4> QED BY <4>2, <4>3
    <3>3. \A j \in Isolates, t \in Tenants, l \in Keys :
            known[j][t][l] # None => call'[known[j][t][l]].key = l
      <4>1. \A j \in Isolates, t \in Tenants, l \in Keys : known[j][t][l] # None => known[j][t][l] \in Calls
        BY <1>s
      <4> QED BY <3>1, <4>1 DEF Agreed, Asked
    <3>4. MapsAgree'
      BY <2>0, <3>2, <3>3 DEF MapsAgree
    <3> QED BY <2>0, <3>1, <3>4, AgreedKept
  <2> QED BY <1>4, <2>1, <2>2 DEF Execute
<1>5. ASSUME NEW c \in Calls, Insert(c) PROVE Agreed'
  <2>0. call[c].at = "insert" /\ call[c].id \in Calls /\ call[call[c].id].key = call[c].key
    BY <1>5, <1>k DEF Insert, Drawn
  <2>1. synthetic' = synthetic /\ known' = known
    BY <1>5 DEF Insert
  <2>2. CASE Go(c, "failed") /\ UNCHANGED rows
    <3>1. "failed" \in Places /\ "failed" \notin Drawn
      BY DEF Places, Drawn
    <3> QED BY <2>1, <2>2, <3>1, GoEffect, MapsKept, AgreedKept
  <2>3. CASE /\ rows[call[c].id] # None \/ Recorded(call[c].tenant, call[c].key) = {}
             /\ Upsert(c) /\ Go(c, "delete")
    <3> DEFINE m == call[c].id
               t == IF rows[m] = None THEN call[c].tenant ELSE rows[m].tenant
    <3>1. /\ \A d \in Calls : d # c => call'[d] = call[d]
          /\ call'[c].at = "delete" /\ call'[c].id = m /\ Asked
      <4>1. "delete" \in Places
        BY DEF Places
      <4> QED BY <2>3, <4>1, GoEffect
    <3>2. /\ rows'[m] # None /\ rows'[m].tenant = t /\ rows'[m].key = call[c].key
          /\ \A n \in Calls : n # m => rows'[n] = rows[n]
      <4>1. rows' = [rows EXCEPT ![m] = [tenant |-> t, key |-> call[c].key, by |-> c]]
        BY <2>3 DEF Upsert
      <4>2. t \in Tenants
        <5>1. rows[m] \in Row \cup {None} /\ call[c].tenant \in Tenants
          BY <1>s, <2>0, CallFields
        <5> HIDE DEF m
        <5> QED BY <5>1 DEF Row
      <4> HIDE DEF t
      <4>3. [tenant |-> t, key |-> call[c].key, by |-> c] \in Row
        BY <4>2, CallFields DEF Row
      <4> QED BY <1>s, <2>0, <4>1, <4>3
    <3>3. rows[m] # None => rows[m].tenant = t /\ rows[m].key = call[c].key
      BY <2>0 DEF Agreed
    <3>4. rows[m] = None => t = call[c].tenant /\ Recorded(call[c].tenant, call[c].key) = {}
      BY <2>3
    <3>5. m \in Calls /\ call[m].key = call[c].key
      BY <2>0
    <3> HIDE DEF m, t
    <3>6. \A n \in Calls : rows'[n] # None => rows'[n].key = call'[n].key
      BY <3>1, <3>2, <3>5 DEF Agreed, Asked
    <3>7. ASSUME NEW a \in Calls, NEW b \in Calls, rows'[a] # None, rows'[b] # None,
                 rows'[a].tenant = rows'[b].tenant, rows'[a].key = rows'[b].key
          PROVE  a = b
      <4>1. CASE rows[m] # None
        <5>1. /\ rows[a] # None /\ rows[a].tenant = rows'[a].tenant /\ rows[a].key = rows'[a].key
              /\ rows[b] # None /\ rows[b].tenant = rows'[b].tenant /\ rows[b].key = rows'[b].key
          BY <3>2, <3>3, <3>7, <4>1
        <5> QED BY <3>7, <5>1 DEF Agreed
      <4>2. CASE rows[m] = None
        <5>1. \A n \in Calls : n # m /\ rows'[n] # None =>
                ~(rows'[n].tenant = t /\ rows'[n].key = call[c].key)
          BY <3>2, <3>4, <4>2 DEF Recorded
        <5>2. CASE a = m \/ b = m
          BY <3>2, <3>7, <5>1, <5>2
        <5>3. CASE a # m /\ b # m
          BY <3>2, <3>7, <5>3 DEF Agreed
        <5> QED BY <5>2, <5>3
      <4> QED BY <4>1, <4>2
    <3>8. ASSUME NEW d \in Calls, call'[d].at = "answered"
          PROVE  (call[d].id \in Recorded(call[d].tenant, call[d].key))'
      <4>1. d # c /\ call'[d] = call[d]
        BY <3>1, <3>8
      <4> DEFINE n == call[d].id
      <4>2. n \in Calls /\ rows[n] # None /\ rows[n].tenant = call[d].tenant /\ rows[n].key = call[d].key
        BY <3>8, <4>1 DEF Agreed, Recorded
      <4> HIDE DEF n
      <4>3. rows'[n] # None /\ rows'[n].tenant = call[d].tenant /\ rows'[n].key = call[d].key
        BY <3>2, <3>3, <4>2
      <4> QED BY <4>1, <4>2, <4>3 DEF Recorded, n
    <3>9. \A d \in Calls : call'[d].at \in Drawn => call'[call'[d].id].key = call'[d].key
      <4> SUFFICES ASSUME NEW d \in Calls, call'[d].at \in Drawn
                   PROVE  call'[call'[d].id].key = call'[d].key
        OBVIOUS
      <4>1. CASE d = c
        BY <3>1, <3>5, <4>1 DEF Asked
      <4>2. CASE d # c
        BY <1>k, <3>1, <4>2 DEF Asked
      <4> QED BY <4>1, <4>2
    <3>10. MapsAgree'
      BY <2>1, <3>1, MapsKept
    <3> QED BY <3>6, <3>7, <3>8, <3>9, <3>10 DEF Agreed, MapsAgree
  <2> QED BY <1>5, <2>2, <2>3 DEF Insert
<1>6. ASSUME NEW c \in Calls, Delete(c) PROVE Agreed'
  <2>1. /\ call[c].at = "delete" /\ Go(c, "steps")
        /\ rows' = rows /\ synthetic' = synthetic /\ known' = known
    BY <1>6 DEF Delete
  <2>2. "steps" \in Places /\ "delete" \in Drawn /\ "steps" # "answered"
    BY DEF Places, Drawn
  <2>3. call'[c].id \in Calls /\ call[call'[c].id].key = call[c].key
    BY <1>k, <2>1, <2>2, GoEffect
  <2> QED BY <2>1, <2>2, <2>3, GoEffect, MapsKept, AgreedKept
<1>7. ASSUME NEW c \in Calls, Step(c) PROVE Agreed'
  <2> DEFINE i == call[c].isolate
             t == call[c].tenant
             k == call[c].key
             m == call[c].id
  <2>1. /\ rows' = rows /\ synthetic' = synthetic
        /\ known' = IF Last(c) THEN [known EXCEPT ![i][t][k] = m] ELSE known
    BY <1>7 DEF Step
  <2>2. /\ \A d \in Calls : d # c => call'[d] = call[d]
        /\ call'[c].at # "answered" /\ call'[c].id = m /\ m \in Calls /\ Asked
    BY <1>7, StepEffect
  <2>3. call[m].key = call[c].key
    <3>1. call[c].at = "steps" /\ "steps" \in Drawn
      BY <1>7 DEF Step, Drawn
    <3> QED BY <1>k, <3>1
  <2>4. i \in Isolates /\ t \in Tenants /\ k \in Keys
    BY CallFields
  <2>5. \A j \in Isolates, l \in Keys : synthetic[j][l] # None => call'[synthetic[j][l]].key = l
    <3>1. \A j \in Isolates, l \in Keys : synthetic[j][l] # None => synthetic[j][l] \in Calls
      BY <1>s
    <3> QED BY <2>2, <3>1 DEF Agreed, Asked
  <2>6. ASSUME NEW j \in Isolates, NEW u \in Tenants, NEW l \in Keys, known'[j][u][l] # None
        PROVE  call'[known'[j][u][l]].key = l
    <3>1. CASE known'[j][u][l] = known[j][u][l]
      <4>1. known[j][u][l] \in Calls
        BY <1>s, <2>6, <3>1
      <4> QED BY <2>2, <2>6, <3>1, <4>1 DEF Agreed, Asked
    <3>2. CASE known'[j][u][l] = m /\ l = k
      BY <2>2, <2>3, <3>2 DEF Asked
    <3>3. known'[j][u][l] = known[j][u][l] \/ (known'[j][u][l] = m /\ l = k)
      <4> HIDE DEF m, i, t, k
      <4>1. CASE ~Last(c)
        BY <2>1, <4>1
      <4>2. CASE Last(c)
        <5>1. known' = [known EXCEPT ![i] = [known[i] EXCEPT ![t] = [known[i][t] EXCEPT ![k] = m]]]
          BY <2>1, <4>2
        <5>2. /\ known[i] \in [Tenants -> [Keys -> Calls \cup {None}]]
              /\ known[i][t] \in [Keys -> Calls \cup {None}]
          BY <1>s, <2>4
        <5>3. CASE j # i
          BY <1>s, <2>4, <5>1, <5>3
        <5>4. CASE j = i /\ u # t
          BY <1>s, <2>4, <5>1, <5>2, <5>4
        <5>5. CASE j = i /\ u = t
          <6>1. known'[j][u] = [known[i][t] EXCEPT ![k] = m]
            BY <1>s, <2>4, <5>1, <5>2, <5>5
          <6> QED BY <2>4, <5>2, <5>5, <6>1
        <5> QED BY <5>3, <5>4, <5>5
      <4> QED BY <4>1, <4>2
    <3> QED BY <3>1, <3>2, <3>3
  <2>7. MapsAgree'
    BY <2>1, <2>5, <2>6 DEF MapsAgree
  <2> HIDE DEF m
  <2> QED BY <2>1, <2>2, <2>3, <2>7, AgreedKept
<1>8. ASSUME NEW c \in Calls, Read(c) PROVE Agreed'
  <2>1. rows' = rows /\ synthetic' = synthetic /\ known' = known /\ call[c].at = "read"
    BY <1>8 DEF Read
  <2>2. CASE Go(c, "failed")
    <3>1. "failed" \in Places /\ "failed" \notin Drawn
      BY DEF Places, Drawn
    <3> QED BY <2>1, <2>2, <3>1, GoEffect, MapsKept, AgreedKept
  <2>3. CASE Own(call[c].id, call[c].tenant) /\ Go(c, "answered")
    <3>1. "answered" \in Places /\ "answered" \notin Drawn /\ "read" \in Drawn
      BY DEF Places, Drawn
    <3>2. call[c].id \in Calls /\ call[call[c].id].key = call[c].key
      BY <1>k, <2>1, <3>1
    <3>3. call[c].id \in Recorded(call[c].tenant, call[c].key)
      BY <2>3, <3>2 DEF Own, Recorded, Agreed
    <3> QED BY <2>1, <2>3, <3>1, <3>3, GoEffect, MapsKept, AgreedKept
  <2> QED BY <1>8, <2>2, <2>3 DEF Read
<1>9. ASSUME NEW c \in Calls, Fail(c) PROVE Agreed'
  <2>1. /\ Go(c, Broken(call[c].at))
        /\ rows' = rows /\ synthetic' = synthetic /\ known' = known
    BY <1>9 DEF Fail
  <2>2. {"torn", "failed"} \subseteq Places \ Drawn /\ "answered" \notin {"torn", "failed"}
    BY DEF Places, Drawn
  <2> QED BY <2>1, <2>2, BrokenPlace, GoEffect, MapsKept, AgreedKept
<1>10. ASSUME NEW i \in Isolates, Crash(i) PROVE Agreed'
  <2>1. \A c \in Calls : call'[c].at = call[c].at \/ call'[c].at \in {"torn", "failed"}
    BY <1>10, CrashEffect, BrokenPlace
  <2>2. {"torn", "failed"} \cap Drawn = {} /\ "answered" \notin {"torn", "failed"}
    BY DEF Drawn
  <2>3. \A c \in Calls : call'[c].id = call[c].id
    BY <1>10, CrashEffect
  <2>4. Asked
    BY <1>10, CrashEffect
  <2>5. /\ rows' = rows
        /\ synthetic' = [synthetic EXCEPT ![i] = [k \in Keys |-> None]]
        /\ known' = [known EXCEPT ![i] = [t \in Tenants |-> [k \in Keys |-> None]]]
    BY <1>10 DEF Crash
  <2>6. \A j \in Isolates, k \in Keys :
          synthetic'[j][k] # None => synthetic'[j][k] = synthetic[j][k] /\ synthetic[j][k] \in Calls
    BY <1>s, <2>5
  <2>7. \A j \in Isolates, t \in Tenants, k \in Keys :
          known'[j][t][k] # None => known'[j][t][k] = known[j][t][k] /\ known[j][t][k] \in Calls
    BY <1>s, <2>5
  <2>8. MapsAgree'
    BY <2>4, <2>6, <2>7 DEF MapsAgree, Agreed, Asked
  <2>9. \A c \in Calls : call'[c].at \in Drawn => call'[call'[c].id].key = call'[c].key
    <3>1. \A c \in Calls : call'[c].at \in Drawn => call[c].at \in Drawn
      BY <2>1, <2>2
    <3> QED BY <1>k, <2>3, <2>4, <3>1 DEF Asked
  <2>10. ASSUME NEW c \in Calls, call'[c].at = "answered"
         PROVE  (call[c].id \in Recorded(call[c].tenant, call[c].key))'
    <3>1. call[c].id \in Recorded(call[c].tenant, call[c].key)
      BY <2>1, <2>2, <2>10 DEF Agreed
    <3>2. call'[c].id = call[c].id /\ call'[c].tenant = call[c].tenant /\ call'[c].key = call[c].key
      BY <2>3, <2>4 DEF Asked
    <3> QED BY <2>5, <3>1, <3>2 DEF Recorded
  <2>11. \A m \in Calls : rows'[m] # None => rows'[m].key = call'[m].key
    BY <2>4, <2>5 DEF Agreed, Asked
  <2>12. \A m, n \in Calls :
           /\ rows'[m] # None /\ rows'[n] # None
           /\ rows'[m].tenant = rows'[n].tenant /\ rows'[m].key = rows'[n].key
           => m = n
    BY <2>5 DEF Agreed
  <2> QED BY <2>8, <2>9, <2>10, <2>11, <2>12 DEF Agreed, MapsAgree
<1>11. CASE UNCHANGED vars
  BY <1>11 DEF vars, Agreed, Recorded
<1> QED BY <1>1, <1>2, <1>3, <1>4, <1>5, <1>6, <1>7, <1>8, <1>9, <1>10, <1>11 DEF Next, Handle

\* executeWorkflow answers a tenant's key with one execution, the tenant's own, in
\* whatever isolates and however side by side it is asked.
THEOREM AnswersAgree == Spec => []OneAnswerPerKey
<1>1. Typed /\ Agreed => OneAnswerPerKey
  BY DEF Agreed, OneAnswerPerKey, Recorded
<1>2. Init => Typed /\ Agreed
  BY TypedInit, AgreedInit
<1>3. Typed /\ Agreed /\ [Next]_vars => (Typed /\ Agreed)'
  BY TypedStep, AgreedStep
<1> QED BY <1>1, <1>2, <1>3, PTL DEF Spec

-----------------------------------------------------------------------------
(* Missing steps *)

\* A request has yet to write step n of execution i, or broke off while recording it.
Owes(c, i, n) ==
  /\ call[c].id = i
  /\ \/ call[c].at \in {"delete", "torn"}
     \/ call[c].at = "steps" /\ call[c].next <= n

Owed ==
  \A i \in Calls, n \in 1 .. StepCount :
    rows[i] # None /\ steps[i][n] = 0 => \E c \in Calls : Owes(c, i, n)

\* A step that takes no execution a row or a step nor any request its debt
LEMMA OwedKept ==
  ASSUME Owed, rows' = rows, steps' = steps,
         \A c \in Calls : call[c].at \in {"delete", "torn", "steps"} =>
           /\ call'[c].id = call[c].id /\ call'[c].next = call[c].next
           /\ call'[c].at \in {call[c].at, "torn"}
  PROVE  Owed'
<1> SUFFICES ASSUME NEW i \in Calls, NEW n \in 1 .. StepCount, rows'[i] # None, steps'[i][n] = 0
             PROVE  \E c \in Calls : Owes(c, i, n)'
  BY DEF Owed
<1> PICK c \in Calls : Owes(c, i, n)
  BY DEF Owed
<1>1. Owes(c, i, n)'
  BY DEF Owes
<1> QED BY <1>1

LEMMA OwedInit == Init => Owed
  BY DEF Init, Owed

LEMMA OwedStep == Typed /\ Owed /\ [Next]_vars => Owed'
<1> SUFFICES ASSUME Typed, Owed, [Next]_vars PROVE Owed'
  OBVIOUS
<1>s. /\ rows \in [Calls -> Row \cup {None}]
      /\ steps \in [Calls -> [1 .. StepCount -> Nat]]
  BY DEF Typed, ExecTypeOK
<1>1. ASSUME NEW c \in Calls, Begin(c) \/ Find(c) \/ FindCached(c) \/ Execute(c) \/ Read(c)
      PROVE  Owed'
  <2>1. rows' = rows /\ steps' = steps /\ call[c].at \notin {"delete", "torn", "steps"}
    BY <1>1 DEF Begin, Find, FindCached, Execute, Read
  <2>2. \A d \in Calls : d # c => call'[d] = call[d]
    BY <1>1 DEF Begin, Find, FindCached, Execute, Read, Go, Answer, Typed, ExecTypeOK
  <2> QED BY <2>1, <2>2, OwedKept
<1>2. ASSUME NEW c \in Calls, Insert(c) PROVE Owed'
  <2>0. call[c].at = "insert" /\ call[c].id \in Calls /\ steps' = steps
    BY <1>2 DEF Insert, Typed, Drawn
  <2>1. CASE Go(c, "failed") /\ UNCHANGED rows
    <3>1. \A d \in Calls : d # c => call'[d] = call[d]
      BY <2>1 DEF Go, Typed, ExecTypeOK
    <3> QED BY <2>0, <2>1, <3>1, OwedKept
  <2>2. CASE Upsert(c) /\ Go(c, "delete")
    <3>1. /\ \A d \in Calls : d # c => call'[d] = call[d]
          /\ call'[c].at = "delete" /\ call'[c].id = call[c].id
      <4>1. "delete" \in Places
        BY DEF Places
      <4> QED BY <2>2, <4>1, GoEffect
    <3>2. \A i \in Calls : i # call[c].id => rows'[i] = rows[i]
      BY <1>s, <2>2 DEF Upsert
    <3> SUFFICES ASSUME NEW i \in Calls, NEW n \in 1 .. StepCount, rows'[i] # None, steps'[i][n] = 0
                 PROVE  \E d \in Calls : Owes(d, i, n)'
      BY DEF Owed
    <3>3. CASE i = call[c].id
      <4>1. Owes(c, i, n)'
        BY <3>1, <3>3 DEF Owes
      <4> QED BY <4>1
    <3>4. CASE i # call[c].id
      <4> PICK d \in Calls : Owes(d, i, n)
        BY <2>0, <3>2, <3>4 DEF Owed
      <4>1. Owes(d, i, n)'
        BY <2>0, <3>1, <3>4 DEF Owes
      <4> QED BY <4>1
    <3> QED BY <3>3, <3>4
  <2> QED BY <1>2, <2>1, <2>2 DEF Insert
<1>3. ASSUME NEW c \in Calls, Delete(c) PROVE Owed'
  <2>1. /\ call[c].at = "delete" /\ call[c].id \in Calls /\ call[c].next = 1 /\ rows' = rows
        /\ steps' = [steps EXCEPT ![call[c].id] = [n \in 1 .. StepCount |-> 0]]
    BY <1>3 DEF Delete, Typed, Drawn
  <2>2. /\ \A d \in Calls : d # c => call'[d] = call[d]
        /\ call'[c].at = "steps" /\ call'[c].id = call[c].id /\ call'[c].next = 1
    <3>1. "steps" \in Places /\ Go(c, "steps")
      BY <1>3 DEF Places, Delete
    <3> QED BY <2>1, <3>1, GoEffect
  <2> SUFFICES ASSUME NEW i \in Calls, NEW n \in 1 .. StepCount, rows'[i] # None, steps'[i][n] = 0
               PROVE  \E d \in Calls : Owes(d, i, n)'
    BY DEF Owed
  <2>3. CASE i = call[c].id
    <3>1. Owes(c, i, n)'
      BY <2>2, <2>3 DEF Owes
    <3> QED BY <3>1
  <2>4. CASE i # call[c].id
    <3>1. steps'[i] = steps[i]
      BY <1>s, <2>1, <2>4
    <3> PICK d \in Calls : Owes(d, i, n)
      BY <2>1, <3>1 DEF Owed
    <3>2. Owes(d, i, n)'
      BY <2>2, <2>4 DEF Owes
    <3> QED BY <3>2
  <2> QED BY <2>3, <2>4
<1>4. ASSUME NEW c \in Calls, Step(c) PROVE Owed'
  <2> DEFINE m == call[c].id
             k == call[c].next
  <2>1. /\ call[c].at = "steps" /\ rows' = rows
        /\ steps' = [steps EXCEPT ![m] = [steps[m] EXCEPT ![k] = steps[m][k] + 1]]
    BY <1>4 DEF Step
  <2>2. /\ m \in Calls /\ k \in 1 .. StepCount
        /\ \A d \in Calls : d # c => call'[d] = call[d]
        /\ call'[c].id = m /\ call'[c].next = k + 1
        /\ k # StepCount => call'[c].at = "steps"
    BY <1>4, StepEffect DEF Last
  <2> HIDE DEF m, k
  <2>3. /\ \A i \in Calls : i # m => steps'[i] = steps[i]
        /\ steps'[m] = [steps[m] EXCEPT ![k] = steps[m][k] + 1]
        /\ steps[m] \in [1 .. StepCount -> Nat]
    BY <1>s, <2>1, <2>2
  <2>4. /\ steps'[m][k] = steps[m][k] + 1 /\ steps[m][k] \in Nat
        /\ \A n \in 1 .. StepCount : n # k => steps'[m][n] = steps[m][n]
    BY <2>2, <2>3
  <2> SUFFICES ASSUME NEW i \in Calls, NEW n \in 1 .. StepCount, rows'[i] # None, steps'[i][n] = 0
               PROVE  \E d \in Calls : Owes(d, i, n)'
    BY DEF Owed
  <2>5. steps[i][n] = 0 /\ (i = m => n # k)
    BY <2>3, <2>4
  <2> PICK d \in Calls : Owes(d, i, n)
    BY <2>1, <2>5 DEF Owed
  <2>6. CASE d # c
    <3>1. Owes(d, i, n)'
      BY <2>2, <2>6 DEF Owes
    <3> QED BY <3>1
  <2>7. CASE d = c
    <3>1. i = m /\ k <= n
      BY <2>1, <2>7 DEF Owes, m, k
    <3>2. k + 1 <= n /\ k # StepCount
      BY <2>2, <2>5, <3>1
    <3>3. Owes(c, i, n)'
      BY <2>2, <3>1, <3>2 DEF Owes
    <3> QED BY <3>3
  <2> QED BY <2>6, <2>7
<1>5. ASSUME NEW c \in Calls, Fail(c) PROVE Owed'
  <2>1. rows' = rows /\ steps' = steps /\ Go(c, Broken(call[c].at))
    BY <1>5 DEF Fail
  <2>2. Broken(call[c].at) \in Places
    BY BrokenPlace DEF Places
  <2>3. /\ \A d \in Calls : d # c => call'[d] = call[d]
        /\ call'[c].at = Broken(call[c].at) /\ call'[c].id = call[c].id
        /\ call'[c].next = call[c].next
    BY <2>1, <2>2, GoEffect
  <2>4. call[c].at \in {"delete", "torn", "steps"} => Broken(call[c].at) = "torn"
    BY <1>5 DEF Fail, Running, Broken
  <2> QED BY <2>1, <2>3, <2>4, OwedKept
<1>6. ASSUME NEW i \in Isolates, Crash(i) PROVE Owed'
  <2>1. rows' = rows /\ steps' = steps
    BY <1>6 DEF Crash
  <2>2. \A c \in Calls : call'[c].id = call[c].id /\ call'[c].next = call[c].next
    BY <1>6, CrashEffect
  <2>3. \A c \in Calls : call[c].at \in {"delete", "torn", "steps"} =>
          call'[c].at \in {call[c].at, "torn"}
    <3> SUFFICES ASSUME NEW c \in Calls, call[c].at \in {"delete", "torn", "steps"},
                        call'[c].at # call[c].at
                 PROVE  call'[c].at = "torn"
      OBVIOUS
    <3>1. call'[c] = IF call[c].isolate = i /\ call[c].at \in Running
                     THEN [call[c] EXCEPT !.at = Broken(call[c].at)] ELSE call[c]
      BY <1>6 DEF Crash
    <3>2. call[c].at \in Running /\ call'[c].at = Broken(call[c].at)
      BY <1>6, <3>1, CrashEffect
    <3> QED BY <3>2 DEF Running, Broken
  <2> QED BY <2>1, <2>2, <2>3, OwedKept
<1>7. CASE UNCHANGED vars
  BY <1>7, OwedKept DEF vars
<1> QED BY <1>1, <1>2, <1>3, <1>4, <1>5, <1>6, <1>7 DEF Next, Handle

\* A recorded execution lacks a step only while a request is between its row and its
\* last step, or because one broke off there.
THEOREM MissingExplained == Spec => []StepsExplained
<1>1. Typed /\ Owed => StepsExplained
  BY DEF Owed, Owes, StepsExplained
<1>2. Init => Typed /\ Owed
  BY TypedInit, OwedInit
<1>3. Typed /\ Owed /\ [Next]_vars => (Typed /\ Owed)'
  BY TypedStep, OwedStep
<1> QED BY <1>1, <1>2, <1>3, PTL DEF Spec

=============================================================================
