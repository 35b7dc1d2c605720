-------------------------- MODULE EventPipelineProofs --------------------------
(***************************************************************************)
(* Proofs about EventPipeline, for any clients, administrators, agents,    *)
(* tenants, keys and limits: the six properties of the run `events' are    *)
(* consequences of one inductive invariant.                                *)
(***************************************************************************)
EXTENDS EventPipeline, TLAPS

-----------------------------------------------------------------------------
(* The inductive invariant *)

\* A request has its event once it is past the INSERT, and its fan-out once it
\* knows the subscribers; a "deduplicated" answer was read from the cache.
RequestOK(r) ==
  /\ req[r] \in {"idle", "insert"} => event[r] = "absent"
  /\ req[r] \in {"cache", "subscribe", "mark", "created"} => event[r] # "absent"
  /\ req[r] \in {"idle", "insert", "cache", "subscribe"} =>
       fan[r] = "none" /\ \A g \in Agents : hook[r][g] = "none"
  /\ req[r] \in {"cache", "duplicate"} => KeyOf[r] # NoKey
  /\ req[r] = "duplicate" => kv[Slot(r)] # NoEvent
  /\ fan[r] # "none" => event[r] # "absent"

\* What the fan-out found still holds when it is written, and after: no delivery
\* of the event goes on.  Only the fan-out ends an event.
SettleOK(r) ==
  /\ fan[r] \in {"settle", "done"} =>
       /\ \A g \in Agents : hook[r][g] \in {"none", "gone"}
       /\ tally[r] = IF AllDone(r) THEN "completed" ELSE "failed"
  /\ event[r] \in {"completed", "failed"} => fan[r] = "done" /\ event[r] = tally[r]

\* A delivery belongs to an event and posts once.
PostOK(r, g) ==
  /\ hook[r][g] # "none" => event[r] # "absent"
  /\ posts[r][g] <= 1
  /\ hook[r][g] \in {"none", "insert", "post"} => posts[r][g] = 0

\* The entry of the dead letter queue is written before the status that promises it.
LetterOK(r, g) ==
  /\ hook[r][g] = "status" => letter[<<r, g, block[r][g]>>] # "none"
  /\ delivery[r][g] = "dead_letter" => \E b \in Blocks : letter[<<r, g, b>>] # "none"

\* The UNIQUE column.
UniqueKeys ==
  \A r, q \in Requests :
    event[r] # "absent" /\ event[q] # "absent" /\ KeyOf[r] = KeyOf[q] /\ KeyOf[r] # NoKey
      => r = q

\* The cache tells each tenant about its own events only.
CacheOK ==
  \A t \in Tenants, k \in Keys :
    kv[<<t, k>>] # NoEvent =>
      LET q == kv[<<t, k>>] IN event[q] # "absent" /\ KeyOf[q] = k /\ TenantOf[q] = t

IInv ==
  /\ EventTypeOK
  /\ \A r \in Requests : RequestOK(r)
  /\ \A r \in Requests : SettleOK(r)
  /\ \A r \in Requests, g \in Agents : PostOK(r, g) /\ LetterOK(r, g)
  /\ UniqueKeys
  /\ CacheOK
  /\ ReplayPublished

-----------------------------------------------------------------------------
(* The steps *)

\* Every step of the system is a step of a request, of a delivery or of a replay.
LEMMA StepCases ==
  ASSUME [Next]_vars
  PROVE  \/ \E r \in Requests : Lookup(r) \/ Insert(r) \/ Cache(r) \/ FanOut(r) \/ Mark(r)
                                \/ HandlerFails(r) \/ Tally(r) \/ Settle(r) \/ Crash(r)
         \/ \E r \in Requests, g \in Agents :
              \/ RecordDelivery(r, g) \/ Post(r, g) \/ RecordOutcome(r, g)
              \/ CheckAttempts(r, g) \/ WriteLetter(r, g) \/ MarkDelivery(r, g)
              \/ StatementFails(r, g)
         \/ \E a \in Admins : Replay(a) \/ EndReplay(a)
         \/ UNCHANGED vars
BY DEF Next, Handle, Finish, Deliver

\* The status that the fan-out is about to write.
LEMMA FinalStatus ==
  ASSUME NEW r \in Requests, SettleOK(r), fan[r] = "settle"
  PROVE  tally[r] \in {"completed", "failed"}
BY DEF SettleOK

\* Every step keeps the types.
LEMMA TypeStep ==
  ASSUME IInv, [Next]_vars
  PROVE  EventTypeOK'
<1> USE RequestAssumption DEF IInv, EventTypeOK, ReqPc, FanPc, HookPc, EventRow,
         SendRow, LetterRow, Blocks
<1>1. ASSUME NEW r \in Requests, Lookup(r) PROVE EventTypeOK'
  <2>1. CASE req' = [req EXCEPT ![r] = "duplicate"]
    BY <1>1, <2>1 DEF Lookup, Go, sending
  <2>2. CASE req' = [req EXCEPT ![r] = "insert"]
    BY <1>1, <2>2 DEF Lookup, sending
  <2> QED
    BY <1>1, <2>1, <2>2 DEF Lookup, Go
<1>2. ASSUME NEW r \in Requests, Insert(r) PROVE EventTypeOK'
  <2>1. CASE KeyTaken(r)
    BY <1>2, <2>1 DEF Insert, Go, sending
  <2>2. CASE ~KeyTaken(r) /\ KeyOf[r] = NoKey
    BY <1>2, <2>2 DEF Insert, Go, sending
  <2>3. CASE ~KeyTaken(r) /\ KeyOf[r] # NoKey
    BY <1>2, <2>3 DEF Insert, Go, sending
  <2> QED
    BY <2>1, <2>2, <2>3
<1>3. ASSUME NEW r \in Requests, Cache(r) PROVE EventTypeOK'
  BY <1>3 DEF Cache, Slot, Go, sending
<1>4. ASSUME NEW r \in Requests, FanOut(r) PROVE EventTypeOK'
  BY <1>4 DEF FanOut, Go
<1>5. ASSUME NEW r \in Requests, Mark(r) PROVE EventTypeOK'
  BY <1>5 DEF Mark, Go, sending
<1>6. ASSUME NEW r \in Requests, HandlerFails(r) PROVE EventTypeOK'
  BY <1>6 DEF HandlerFails, InHandler, Go, sending
<1>7. ASSUME NEW r \in Requests, Tally(r) PROVE EventTypeOK'
  BY <1>7 DEF Tally, sending
<1>8. ASSUME NEW r \in Requests, Settle(r) PROVE EventTypeOK'
  <2>1. fan[r] = "settle" /\ tally[r] \in {"completed", "failed"}
    BY <1>8, FinalStatus DEF Settle
  <2> QED
    BY <1>8, <2>1 DEF Settle, sending
<1>9. ASSUME NEW r \in Requests, Crash(r) PROVE EventTypeOK'
  BY <1>9 DEF Crash, InHandler
<1>10. ASSUME NEW r \in Requests, NEW g \in Agents, RecordDelivery(r, g) PROVE EventTypeOK'
  BY <1>10 DEF RecordDelivery, GoHook
<1>11. ASSUME NEW r \in Requests, NEW g \in Agents, Post(r, g) PROVE EventTypeOK'
  BY <1>11 DEF Post, GoHook
<1>12. ASSUME NEW r \in Requests, NEW g \in Agents, RecordOutcome(r, g) PROVE EventTypeOK'
  BY <1>12 DEF RecordOutcome, GoHook
<1>13. ASSUME NEW r \in Requests, NEW g \in Agents, CheckAttempts(r, g) PROVE EventTypeOK'
  BY <1>13 DEF CheckAttempts, GoHook
<1>14. ASSUME NEW r \in Requests, NEW g \in Agents, WriteLetter(r, g) PROVE EventTypeOK'
  BY <1>14 DEF WriteLetter, GoHook
<1>15. ASSUME NEW r \in Requests, NEW g \in Agents, MarkDelivery(r, g) PROVE EventTypeOK'
  BY <1>15 DEF MarkDelivery, GoHook
<1>16. ASSUME NEW r \in Requests, NEW g \in Agents, StatementFails(r, g) PROVE EventTypeOK'
  BY <1>16 DEF StatementFails, GoHook
<1>17. ASSUME NEW a \in Admins, Replay(a) PROVE EventTypeOK'
  <2>0. \E pc \in ReqPc : req' = [req EXCEPT ![a] = pc]
    BY <1>17 DEF Replay, Go
  <2>1. req' \in [Requests -> ReqPc]
    BY <2>0 DEF Requests
  <2>2. target' \in [Admins -> Entries \cup {NoEntry}]
    BY <1>17 DEF Replay
  <2>3. UNCHANGED <<kv, event, fan, tally, faults, sending>>
    BY <1>17 DEF Replay
  <2>4. EventTypeOK
    OBVIOUS
  <2> QED
    BY ONLY <2>1, <2>2, <2>3, <2>4 DEF EventTypeOK, sending
<1>18. ASSUME NEW a \in Admins, EndReplay(a) PROVE EventTypeOK'
  <2>1. req' \in [Requests -> ReqPc]
    BY <1>18 DEF EndReplay, Go, Requests
  <2>2. letter' \in [Entries -> LetterRow]
    BY <1>18 DEF EndReplay
  <2> QED
    BY <1>18, <2>1, <2>2 DEF EndReplay
<1>19. ASSUME UNCHANGED vars PROVE EventTypeOK'
  BY <1>19 DEF vars
<1>20. QED
  BY <1>1, <1>2, <1>3, <1>4, <1>5, <1>6, <1>7, <1>8, <1>9, <1>10,
     <1>11, <1>12, <1>13, <1>14, <1>15, <1>16, <1>17, <1>18, <1>19, StepCases

\* The event row of a request comes and stays, and the fan-out begins after it.
LEMMA RequestStep ==
  ASSUME IInv, [Next]_vars
  PROVE  (\A q \in Requests : RequestOK(q))'
<1> USE RequestAssumption DEF IInv, EventTypeOK, ReqPc, FanPc, HookPc, EventRow,
         SendRow, LetterRow, Blocks, RequestOK, PostOK
<1> SUFFICES ASSUME NEW q \in Requests PROVE RequestOK(q)'
  OBVIOUS
<1>1. ASSUME NEW r \in Requests, Lookup(r) PROVE RequestOK(q)'
  <2>1. CASE req' = [req EXCEPT ![r] = "duplicate"]
    BY <1>1, <2>1 DEF Lookup, Go, sending
  <2>2. CASE req' = [req EXCEPT ![r] = "insert"]
    BY <1>1, <2>2 DEF Lookup, sending
  <2> QED
    BY <1>1, <2>1, <2>2 DEF Lookup, Go
<1>2. ASSUME NEW r \in Requests, Insert(r) PROVE RequestOK(q)'
  <2>1. CASE KeyTaken(r)
    BY <1>2, <2>1 DEF Insert, Go, sending
  <2>2. CASE ~KeyTaken(r) /\ KeyOf[r] = NoKey
    BY <1>2, <2>2 DEF Insert, Go, sending
  <2>3. CASE ~KeyTaken(r) /\ KeyOf[r] # NoKey
    BY <1>2, <2>3 DEF Insert, Go, sending
  <2> QED
    BY <2>1, <2>2, <2>3
<1>3. ASSUME NEW r \in Requests, Cache(r) PROVE RequestOK(q)'
  BY <1>3 DEF Cache, Slot, Go, sending, Slot
<1>4. ASSUME NEW r \in Requests, FanOut(r) PROVE RequestOK(q)'
  BY <1>4 DEF FanOut, Go
<1>5. ASSUME NEW r \in Requests, Mark(r) PROVE RequestOK(q)'
  BY <1>5 DEF Mark, Go, sending
<1>6. ASSUME NEW r \in Requests, HandlerFails(r) PROVE RequestOK(q)'
  BY <1>6 DEF HandlerFails, InHandler, Go, sending
<1>7. ASSUME NEW r \in Requests, Tally(r) PROVE RequestOK(q)'
  BY <1>7 DEF Tally, sending
<1>8. ASSUME NEW r \in Requests, Settle(r) PROVE RequestOK(q)'
  <2>1. fan[r] = "settle" /\ tally[r] \in {"completed", "failed"}
    BY <1>8, FinalStatus DEF Settle
  <2> QED
    BY <1>8, <2>1 DEF Settle, sending
<1>9. ASSUME NEW r \in Requests, Crash(r) PROVE RequestOK(q)'
  BY <1>9 DEF Crash, InHandler
<1>10. ASSUME NEW r \in Requests, NEW g \in Agents, RecordDelivery(r, g) PROVE RequestOK(q)'
  BY <1>10 DEF RecordDelivery, GoHook
<1>11. ASSUME NEW r \in Requests, NEW g \in Agents, Post(r, g) PROVE RequestOK(q)'
  BY <1>11 DEF Post, GoHook
<1>12. ASSUME NEW r \in Requests, NEW g \in Agents, RecordOutcome(r, g) PROVE RequestOK(q)'
  BY <1>12 DEF RecordOutcome, GoHook
<1>13. ASSUME NEW r \in Requests, NEW g \in Agents, CheckAttempts(r, g) PROVE RequestOK(q)'
  BY <1>13 DEF CheckAttempts, GoHook
<1>14. ASSUME NEW r \in Requests, NEW g \in Agents, WriteLetter(r, g) PROVE RequestOK(q)'
  BY <1>14 DEF WriteLetter, GoHook
<1>15. ASSUME NEW r \in Requests, NEW g \in Agents, MarkDelivery(r, g) PROVE RequestOK(q)'
  BY <1>15 DEF MarkDelivery, GoHook
<1>16. ASSUME NEW r \in Requests, NEW g \in Agents, StatementFails(r, g) PROVE RequestOK(q)'
  BY <1>16 DEF StatementFails, GoHook
<1>17. ASSUME NEW a \in Admins, Replay(a) PROVE RequestOK(q)'
  BY <1>17 DEF Replay, Go, sending, Requests
<1>18. ASSUME NEW a \in Admins, EndReplay(a) PROVE RequestOK(q)'
  BY <1>18 DEF EndReplay, Go, Requests
<1>19. ASSUME UNCHANGED vars PROVE RequestOK(q)'
  BY <1>19 DEF vars
<1>20. QED
  BY <1>1, <1>2, <1>3, <1>4, <1>5, <1>6, <1>7, <1>8, <1>9, <1>10,
     <1>11, <1>12, <1>13, <1>14, <1>15, <1>16, <1>17, <1>18, <1>19, StepCases

\* Nothing changes the rows of an event whose fan-out has read them.
LEMMA SettleStep ==
  ASSUME IInv, [Next]_vars
  PROVE  (\A q \in Requests : SettleOK(q))'
<1> USE RequestAssumption DEF IInv, EventTypeOK, ReqPc, FanPc, HookPc, EventRow,
         SendRow, LetterRow, Blocks, RequestOK, SettleOK, AllDone, Rows
<1> SUFFICES ASSUME NEW q \in Requests PROVE SettleOK(q)'
  OBVIOUS
<1>1. ASSUME NEW r \in Requests, Lookup(r) PROVE SettleOK(q)'
  <2>1. CASE req' = [req EXCEPT ![r] = "duplicate"]
    BY <1>1, <2>1 DEF Lookup, Go, sending
  <2>2. CASE req' = [req EXCEPT ![r] = "insert"]
    BY <1>1, <2>2 DEF Lookup, sending
  <2> QED
    BY <1>1, <2>1, <2>2 DEF Lookup, Go
<1>2. ASSUME NEW r \in Requests, Insert(r) PROVE SettleOK(q)'
  <2>1. CASE KeyTaken(r)
    BY <1>2, <2>1 DEF Insert, Go, sending
  <2>2. CASE ~KeyTaken(r) /\ KeyOf[r] = NoKey
    BY <1>2, <2>2 DEF Insert, Go, sending
  <2>3. CASE ~KeyTaken(r) /\ KeyOf[r] # NoKey
    BY <1>2, <2>3 DEF Insert, Go, sending
  <2> QED
    BY <2>1, <2>2, <2>3
<1>3. ASSUME NEW r \in Requests, Cache(r) PROVE SettleOK(q)'
  BY <1>3 DEF Cache, Slot, Go, sending
<1>4. ASSUME NEW r \in Requests, FanOut(r) PROVE SettleOK(q)'
  BY <1>4 DEF FanOut, Go
<1>5. ASSUME NEW r \in Requests, Mark(r) PROVE SettleOK(q)'
  BY <1>5 DEF Mark, Go, sending
<1>6. ASSUME NEW r \in Requests, HandlerFails(r) PROVE SettleOK(q)'
  BY <1>6 DEF HandlerFails, InHandler, Go, sending
<1>7. ASSUME NEW r \in Requests, Tally(r) PROVE SettleOK(q)'
  BY <1>7 DEF Tally, sending
<1>8. ASSUME NEW r \in Requests, Settle(r) PROVE SettleOK(q)'
  <2>1. fan[r] = "settle" /\ tally[r] \in {"completed", "failed"}
    BY <1>8, FinalStatus DEF Settle
  <2> QED
    BY <1>8, <2>1 DEF Settle, sending
<1>9. ASSUME NEW r \in Requests, Crash(r) PROVE SettleOK(q)'
  BY <1>9 DEF Crash, InHandler
<1>10. ASSUME NEW r \in Requests, NEW g \in Agents, RecordDelivery(r, g) PROVE SettleOK(q)'
  <2>1. CASE q = r
    BY <1>10, <2>1 DEF RecordDelivery, GoHook
  <2>2. CASE q # r
    BY <1>10, <2>2 DEF RecordDelivery, GoHook
  <2> QED
    BY <2>1, <2>2
<1>11. ASSUME NEW r \in Requests, NEW g \in Agents, Post(r, g) PROVE SettleOK(q)'
  BY <1>11 DEF Post, GoHook
<1>12. ASSUME NEW r \in Requests, NEW g \in Agents, RecordOutcome(r, g) PROVE SettleOK(q)'
  <2>1. CASE q = r
    BY <1>12, <2>1 DEF RecordOutcome, GoHook
  <2>2. CASE q # r
    BY <1>12, <2>2 DEF RecordOutcome, GoHook
  <2> QED
    BY <2>1, <2>2
<1>13. ASSUME NEW r \in Requests, NEW g \in Agents, CheckAttempts(r, g) PROVE SettleOK(q)'
  BY <1>13 DEF CheckAttempts, GoHook
<1>14. ASSUME NEW r \in Requests, NEW g \in Agents, WriteLetter(r, g) PROVE SettleOK(q)'
  BY <1>14 DEF WriteLetter, GoHook
<1>15. ASSUME NEW r \in Requests, NEW g \in Agents, MarkDelivery(r, g) PROVE SettleOK(q)'
  <2>1. CASE q = r
    BY <1>15, <2>1 DEF MarkDelivery, GoHook
  <2>2. CASE q # r
    BY <1>15, <2>2 DEF MarkDelivery, GoHook
  <2> QED
    BY <2>1, <2>2
<1>16. ASSUME NEW r \in Requests, NEW g \in Agents, StatementFails(r, g) PROVE SettleOK(q)'
  BY <1>16 DEF StatementFails, GoHook
<1>17. ASSUME NEW a \in Admins, Replay(a) PROVE SettleOK(q)'
  BY <1>17 DEF Replay, Go, sending, Requests
<1>18. ASSUME NEW a \in Admins, EndReplay(a) PROVE SettleOK(q)'
  BY <1>18 DEF EndReplay, Go, Requests
<1>19. ASSUME UNCHANGED vars PROVE SettleOK(q)'
  BY <1>19 DEF vars
<1>20. QED
  BY <1>1, <1>2, <1>3, <1>4, <1>5, <1>6, <1>7, <1>8, <1>9, <1>10,
     <1>11, <1>12, <1>13, <1>14, <1>15, <1>16, <1>17, <1>18, <1>19, StepCases

\* A delivery posts in one of its steps only, and none goes back before it.
LEMMA PostStep ==
  ASSUME IInv, [Next]_vars
  PROVE  (\A q \in Requests, h \in Agents : PostOK(q, h))'
<1> USE RequestAssumption DEF IInv, EventTypeOK, ReqPc, FanPc, HookPc, EventRow,
         SendRow, LetterRow, Blocks, RequestOK, PostOK
<1> SUFFICES ASSUME NEW q \in Requests, NEW h \in Agents PROVE PostOK(q, h)'
  OBVIOUS
<1>1. ASSUME NEW r \in Requests, Lookup(r) PROVE PostOK(q, h)'
  <2>1. CASE req' = [req EXCEPT ![r] = "duplicate"]
    BY <1>1, <2>1 DEF Lookup, Go, sending
  <2>2. CASE req' = [req EXCEPT ![r] = "insert"]
    BY <1>1, <2>2 DEF Lookup, sending
  <2> QED
    BY <1>1, <2>1, <2>2 DEF Lookup, Go
<1>2. ASSUME NEW r \in Requests, Insert(r) PROVE PostOK(q, h)'
  <2>1. CASE KeyTaken(r)
    BY <1>2, <2>1 DEF Insert, Go, sending
  <2>2. CASE ~KeyTaken(r) /\ KeyOf[r] = NoKey
    BY <1>2, <2>2 DEF Insert, Go, sending
  <2>3. CASE ~KeyTaken(r) /\ KeyOf[r] # NoKey
    BY <1>2, <2>3 DEF Insert, Go, sending
  <2> QED
    BY <2>1, <2>2, <2>3
<1>3. ASSUME NEW r \in Requests, Cache(r) PROVE PostOK(q, h)'
  BY <1>3 DEF Cache, Slot, Go, sending
<1>4. ASSUME NEW r \in Requests, FanOut(r) PROVE PostOK(q, h)'
  BY <1>4 DEF FanOut, Go
<1>5. ASSUME NEW r \in Requests, Mark(r) PROVE PostOK(q, h)'
  BY <1>5 DEF Mark, Go, sending
<1>6. ASSUME NEW r \in Requests, HandlerFails(r) PROVE PostOK(q, h)'
  BY <1>6 DEF HandlerFails, InHandler, Go, sending
<1>7. ASSUME NEW r \in Requests, Tally(r) PROVE PostOK(q, h)'
  BY <1>7 DEF Tally, sending
<1>8. ASSUME NEW r \in Requests, Settle(r) PROVE PostOK(q, h)'
  <2>1. fan[r] = "settle" /\ tally[r] \in {"completed", "failed"}
    BY <1>8, FinalStatus DEF Settle
  <2> QED
    BY <1>8, <2>1 DEF Settle, sending
<1>9. ASSUME NEW r \in Requests, Crash(r) PROVE PostOK(q, h)'
  BY <1>9 DEF Crash, InHandler
<1>10. ASSUME NEW r \in Requests, NEW g \in Agents, RecordDelivery(r, g) PROVE PostOK(q, h)'
  BY <1>10 DEF RecordDelivery, GoHook
<1>11. ASSUME NEW r \in Requests, NEW g \in Agents, Post(r, g) PROVE PostOK(q, h)'
  BY <1>11 DEF Post, GoHook
<1>12. ASSUME NEW r \in Requests, NEW g \in Agents, RecordOutcome(r, g) PROVE PostOK(q, h)'
  BY <1>12 DEF RecordOutcome, GoHook
<1>13. ASSUME NEW r \in Requests, NEW g \in Agents, CheckAttempts(r, g) PROVE PostOK(q, h)'
  BY <1>13 DEF CheckAttempts, GoHook
<1>14. ASSUME NEW r \in Requests, NEW g \in Agents, WriteLetter(r, g) PROVE PostOK(q, h)'
  BY <1>14 DEF WriteLetter, GoHook
<1>15. ASSUME NEW r \in Requests, NEW g \in Agents, MarkDelivery(r, g) PROVE PostOK(q, h)'
  BY <1>15 DEF MarkDelivery, GoHook
<1>16. ASSUME NEW r \in Requests, NEW g \in Agents, StatementFails(r, g) PROVE PostOK(q, h)'
  BY <1>16 DEF StatementFails, GoHook
<1>17. ASSUME NEW a \in Admins, Replay(a) PROVE PostOK(q, h)'
  BY <1>17 DEF Replay, Go, sending, Requests
<1>18. ASSUME NEW a \in Admins, EndReplay(a) PROVE PostOK(q, h)'
  BY <1>18 DEF EndReplay, Go, Requests
<1>19. ASSUME UNCHANGED vars PROVE PostOK(q, h)'
  BY <1>19 DEF vars
<1>20. QED
  BY <1>1, <1>2, <1>3, <1>4, <1>5, <1>6, <1>7, <1>8, <1>9, <1>10,
     <1>11, <1>12, <1>13, <1>14, <1>15, <1>16, <1>17, <1>18, <1>19, StepCases

\* An entry of the dead letter queue is never deleted, and written before the status.
LEMMA LetterStep ==
  ASSUME IInv, [Next]_vars
  PROVE  (\A q \in Requests, h \in Agents : LetterOK(q, h))'
<1> USE RequestAssumption DEF IInv, EventTypeOK, ReqPc, FanPc, HookPc, EventRow,
         SendRow, LetterRow, Blocks, RequestOK, LetterOK
<1> SUFFICES ASSUME NEW q \in Requests, NEW h \in Agents PROVE LetterOK(q, h)'
  OBVIOUS
<1>0. \A x \in Requests, y \in Agents, b \in Blocks : <<x, y, b>> \in Entries
  BY DEF Entries
<1> USE <1>0
<1>s. ASSUME UNCHANGED sending PROVE LetterOK(q, h)'
  <2>1. LetterOK(q, h)
    OBVIOUS
  <2> QED
    BY ONLY <1>s, <2>1 DEF LetterOK, sending
<1>1. ASSUME NEW r \in Requests, Lookup(r) PROVE LetterOK(q, h)'
  BY <1>1, <1>s DEF Lookup
<1>2. ASSUME NEW r \in Requests, Insert(r) PROVE LetterOK(q, h)'
  BY <1>2, <1>s DEF Insert
<1>3. ASSUME NEW r \in Requests, Cache(r) PROVE LetterOK(q, h)'
  BY <1>3, <1>s DEF Cache
<1>4. ASSUME NEW r \in Requests, FanOut(r) PROVE LetterOK(q, h)'
  <2>1. hook'[q][h] = "status" => hook[q][h] = "status"
    BY <1>4 DEF FanOut
  <2>2. block' = block /\ delivery' = delivery /\ letter' = letter
    BY <1>4 DEF FanOut
  <2>3. LetterOK(q, h)
    OBVIOUS
  <2> QED
    BY ONLY <2>1, <2>2, <2>3 DEF LetterOK
<1>5. ASSUME NEW r \in Requests, Mark(r) PROVE LetterOK(q, h)'
  BY <1>5, <1>s DEF Mark
<1>6. ASSUME NEW r \in Requests, HandlerFails(r) PROVE LetterOK(q, h)'
  BY <1>6, <1>s DEF HandlerFails
<1>7. ASSUME NEW r \in Requests, Tally(r) PROVE LetterOK(q, h)'
  BY <1>7, <1>s DEF Tally
<1>8. ASSUME NEW r \in Requests, Settle(r) PROVE LetterOK(q, h)'
  BY <1>8, <1>s DEF Settle
<1>9. ASSUME NEW r \in Requests, Crash(r) PROVE LetterOK(q, h)'
  BY <1>9 DEF Crash, InHandler
<1>10. ASSUME NEW r \in Requests, NEW g \in Agents, RecordDelivery(r, g) PROVE LetterOK(q, h)'
  BY <1>10 DEF RecordDelivery, GoHook
<1>11. ASSUME NEW r \in Requests, NEW g \in Agents, Post(r, g) PROVE LetterOK(q, h)'
  BY <1>11 DEF Post, GoHook
<1>12. ASSUME NEW r \in Requests, NEW g \in Agents, RecordOutcome(r, g) PROVE LetterOK(q, h)'
  BY <1>12 DEF RecordOutcome, GoHook
<1>13. ASSUME NEW r \in Requests, NEW g \in Agents, CheckAttempts(r, g) PROVE LetterOK(q, h)'
  BY <1>13 DEF CheckAttempts, GoHook
<1>14. ASSUME NEW r \in Requests, NEW g \in Agents, WriteLetter(r, g) PROVE LetterOK(q, h)'
  <2>1. block' = block /\ delivery' = delivery /\ block[q][h] \in Blocks
    BY <1>14 DEF WriteLetter
  <2>2. letter' = [letter EXCEPT ![<<r, g, block[r][g]>>] = "open"]
    BY <1>14 DEF WriteLetter
  <2>3. letter \in [Entries -> LetterRow]
    OBVIOUS
  <2>4. \A e \in Entries : letter[e] # "none" => letter'[e] # "none"
    BY ONLY <2>2, <2>3
  <2>5. hook'[q][h] = "status" =>
          hook[q][h] = "status" \/ letter'[<<q, h, block[q][h]>>] # "none"
    <3>1. CASE q = r /\ h = g
      BY <1>0, <2>1, <2>2, <2>3, <3>1
    <3>2. CASE ~(q = r /\ h = g)
      BY <1>14, <3>2 DEF WriteLetter, GoHook
    <3> QED
      BY <3>1, <3>2
  <2>6. LetterOK(q, h)
    OBVIOUS
  <2> QED
    BY ONLY <1>0, <2>1, <2>4, <2>5, <2>6 DEF LetterOK
<1>15. ASSUME NEW r \in Requests, NEW g \in Agents, MarkDelivery(r, g) PROVE LetterOK(q, h)'
  BY <1>15 DEF MarkDelivery, GoHook
<1>16. ASSUME NEW r \in Requests, NEW g \in Agents, StatementFails(r, g) PROVE LetterOK(q, h)'
  BY <1>16 DEF StatementFails, GoHook
<1>17. ASSUME NEW a \in Admins, Replay(a) PROVE LetterOK(q, h)'
  BY <1>17, <1>s DEF Replay
<1>18. ASSUME NEW a \in Admins, EndReplay(a) PROVE LetterOK(q, h)'
  <2>1. hook' = hook /\ block' = block /\ delivery' = delivery
    BY <1>18 DEF EndReplay
  <2>2. \E v \in {"success", "failed"} : letter' = [letter EXCEPT ![target[a]] = v]
    BY <1>18 DEF EndReplay
  <2>3. letter \in [Entries -> LetterRow]
    OBVIOUS
  <2>4. \A e \in Entries : letter[e] # "none" => letter'[e] # "none"
    BY ONLY <2>2, <2>3
  <2>5. block[q][h] \in Blocks
    OBVIOUS
  <2>6. LetterOK(q, h)
    OBVIOUS
  <2> QED
    BY ONLY <1>0, <2>1, <2>4, <2>5, <2>6 DEF LetterOK
<1>19. ASSUME UNCHANGED vars PROVE LetterOK(q, h)'
  BY <1>19, <1>s DEF vars, sending
<1>20. QED
  BY <1>1, <1>2, <1>3, <1>4, <1>5, <1>6, <1>7, <1>8, <1>9, <1>10,
     <1>11, <1>12, <1>13, <1>14, <1>15, <1>16, <1>17, <1>18, <1>19, StepCases

\* Who writes the table of events, the cache and the dead letter queue.
LEMMA Writers ==
  ASSUME [Next]_vars
  PROVE  /\ UNCHANGED event \/ \E r \in Requests : Insert(r) \/ Mark(r) \/ Settle(r)
         /\ UNCHANGED kv \/ \E r \in Requests : Cache(r)
         /\ \/ UNCHANGED <<letter, target>>
            \/ \E r \in Requests, g \in Agents : WriteLetter(r, g)
            \/ \E a \in Admins : Replay(a) \/ EndReplay(a)
<1> DEFINE Goal ==
      /\ UNCHANGED event \/ \E r \in Requests : Insert(r) \/ Mark(r) \/ Settle(r)
      /\ UNCHANGED kv \/ \E r \in Requests : Cache(r)
      /\ \/ UNCHANGED <<letter, target>>
         \/ \E r \in Requests, g \in Agents : WriteLetter(r, g)
         \/ \E a \in Admins : Replay(a) \/ EndReplay(a)
<1>1. ASSUME NEW r \in Requests,
             \/ Lookup(r) \/ Insert(r) \/ Cache(r) \/ FanOut(r) \/ Mark(r)
             \/ HandlerFails(r) \/ Tally(r) \/ Settle(r) \/ Crash(r)
      PROVE  Goal
  BY <1>1 DEF Lookup, Insert, Cache, FanOut, Mark, HandlerFails, Tally, Settle, Crash, sending
<1>2. ASSUME NEW r \in Requests, NEW g \in Agents,
             \/ RecordDelivery(r, g) \/ Post(r, g) \/ RecordOutcome(r, g)
             \/ CheckAttempts(r, g) \/ WriteLetter(r, g) \/ MarkDelivery(r, g)
             \/ StatementFails(r, g)
      PROVE  Goal
  BY <1>2 DEF RecordDelivery, Post, RecordOutcome, CheckAttempts, WriteLetter, MarkDelivery,
              StatementFails
<1>3. ASSUME NEW a \in Admins, Replay(a) \/ EndReplay(a) PROVE Goal
  BY <1>3 DEF Replay, EndReplay, sending
<1>4. ASSUME UNCHANGED vars PROVE Goal
  BY <1>4 DEF vars
<1>5. QED
  BY <1>1, <1>2, <1>3, <1>4, StepCases

\* No event is ever deleted.
LEMMA EventsStay ==
  ASSUME IInv, [Next]_vars, NEW r \in Requests, event[r] # "absent"
  PROVE  event'[r] # "absent"
<1> USE DEF IInv, EventTypeOK, EventRow
<1>1. ASSUME NEW q \in Requests, Insert(q) PROVE event'[r] # "absent"
  BY <1>1 DEF Insert
<1>2. ASSUME NEW q \in Requests, Mark(q) PROVE event'[r] # "absent"
  BY <1>2 DEF Mark
<1>3. ASSUME NEW q \in Requests, Settle(q) PROVE event'[r] # "absent"
  <2>1. tally[q] \in {"completed", "failed"}
    BY <1>3, FinalStatus DEF Settle
  <2> QED
    BY <1>3, <2>1 DEF Settle
<1>4. QED
  BY <1>1, <1>2, <1>3, Writers

\* Only the INSERT adds an event, and the UNIQUE column refuses a second one with
\* the same key.
LEMMA UniqueStep == ASSUME IInv, [Next]_vars PROVE UniqueKeys'
<1> USE DEF IInv, EventTypeOK, EventRow, UniqueKeys
<1>1. ASSUME NEW r \in Requests, Insert(r) PROVE UniqueKeys'
  <2>1. CASE UNCHANGED event
    BY <2>1
  <2>2. CASE ~KeyTaken(r) /\ event' = [event EXCEPT ![r] = "pending"]
    <3>1. KeyOf[r] # NoKey =>
            \A s \in Requests : KeyOf[s] = KeyOf[r] => event[s] = "absent"
      BY <2>2 DEF KeyTaken
    <3> QED
      BY <2>2, <3>1
  <2> QED
    BY <1>1, <2>1, <2>2 DEF Insert
<1>2. ASSUME NEW r \in Requests, Mark(r) PROVE UniqueKeys'
  BY <1>2 DEF Mark, RequestOK
<1>3. ASSUME NEW r \in Requests, Settle(r) PROVE UniqueKeys'
  BY <1>3 DEF Settle, RequestOK
<1>4. QED
  BY <1>1, <1>2, <1>3, Writers

\* Only Cache writes the cache, under the tenant and key of an event that exists.
LEMMA CacheStep == ASSUME IInv, [Next]_vars PROVE CacheOK'
<1> USE RequestAssumption DEF IInv, EventTypeOK
<1>1. ASSUME NEW r \in Requests, Cache(r) PROVE CacheOK'
  BY <1>1 DEF Cache, Slot, sending, RequestOK, CacheOK
<1>2. ASSUME UNCHANGED kv PROVE CacheOK'
  BY <1>2, EventsStay DEF CacheOK
<1>3. QED
  BY <1>1, <1>2, Writers

\* A replay reports success only after its event was inserted; it has its entry for
\* good, since an administrator's request replays once.
LEMMA ReplayStep == ASSUME IInv, [Next]_vars PROVE ReplayPublished'
<1> USE DEF IInv, EventTypeOK, LetterRow, ReplayPublished
<1>1. ASSUME NEW r \in Requests, NEW g \in Agents, WriteLetter(r, g) PROVE ReplayPublished'
  BY <1>1 DEF WriteLetter
<1>2. ASSUME NEW a \in Admins, Replay(a) PROVE ReplayPublished'
  BY <1>2 DEF Replay, sending, RequestOK, Requests
<1>3. ASSUME NEW a \in Admins, EndReplay(a) PROVE ReplayPublished'
  BY <1>3 DEF EndReplay, RequestOK, Requests
<1>4. ASSUME UNCHANGED <<letter, target>> PROVE ReplayPublished'
  BY <1>4, EventsStay DEF Requests
<1>5. QED
  BY <1>1, <1>2, <1>3, <1>4, Writers

-----------------------------------------------------------------------------
(* The theorems *)

\* The inductive invariant holds throughout every behaviour.
THEOREM Invariance == Spec => []IInv
<1>1. Init => IInv
  BY RequestAssumption DEF Init, IInv, EventTypeOK, ReqPc, FanPc, HookPc, EventRow, SendRow,
     LetterRow, Blocks, RequestOK, SettleOK, PostOK, LetterOK, UniqueKeys, CacheOK,
     ReplayPublished, Slot
<1>2. IInv /\ [Next]_vars => IInv'
  BY TypeStep, RequestStep, SettleStep, PostStep, LetterStep, UniqueStep, CacheStep,
     ReplayStep DEF IInv
<1>3. QED
  BY <1>1, <1>2, PTL DEF Spec

\* Type correctness: no statement of the pipeline writes a status that a CHECK
\* constraint of its table refuses.
THEOREM TypeCorrect == Spec => []EventTypeOK
BY Invariance, PTL DEF IInv

\* An agent receives what was published under a key at most once, however many
\* requests carry the key and wherever they fail.
THEOREM AtMostOncePerKeyHolds == Spec => []AtMostOncePerKey
<1>1. IInv => AtMostOncePerKey
  <2> SUFFICES ASSUME IInv, NEW r \in Requests, NEW q \in Requests, NEW g \in Agents
               PROVE  /\ posts[r][g] <= 1
                      /\ posts[r][g] > 0 /\ posts[q][g] > 0 /\ KeyOf[r] = KeyOf[q]
                           /\ KeyOf[r] # NoKey => r = q
    BY DEF AtMostOncePerKey
  <2>1. \A p \in Requests : posts[p][g] > 0 => event[p] # "absent"
    BY DEF IInv, PostOK, EventTypeOK
  <2> QED
    BY <2>1 DEF IInv, PostOK, UniqueKeys
<1>2. QED
  BY Invariance, <1>1, PTL

\* A "deduplicated" answer speaks of an event of the client's own tenant and key.
THEOREM DuplicateExistsHolds == Spec => []DuplicateExists
<1>1. IInv => DuplicateExists
  <2> SUFFICES ASSUME IInv, NEW r \in Requests, req[r] = "duplicate"
               PROVE  \E q \in Requests :
                        /\ kv[<<TenantOf[r], KeyOf[r]>>] = q
                        /\ event[q] # "absent" /\ KeyOf[q] = KeyOf[r]
                        /\ TenantOf[q] = TenantOf[r]
    BY DEF DuplicateExists
  <2>1. TenantOf[r] \in Tenants /\ KeyOf[r] \in Keys /\ kv[<<TenantOf[r], KeyOf[r]>>] # NoEvent
    BY RequestAssumption DEF IInv, RequestOK, Slot
  <2> QED
    BY <2>1 DEF IInv, EventTypeOK, CacheOK
<1>2. QED
  BY Invariance, <1>1, PTL

\* The final status of an event tells what became of its deliveries, for any number
\* of agents.
THEOREM SettledMatchesRowsHolds == Spec => []SettledMatchesRows
<1>1. IInv => SettledMatchesRows
  BY DEF IInv, SettleOK, SettledMatchesRows, AllDone
<1>2. QED
  BY Invariance, <1>1, PTL

\* A delivery reported dead-lettered has an entry that can be replayed.
THEOREM DeadLetterExistsHolds == Spec => []DeadLetterExists
<1>1. IInv => DeadLetterExists
  BY DEF IInv, LetterOK, DeadLetterExists
<1>2. QED
  BY Invariance, <1>1, PTL

\* An entry reported as replayed was published anew.
THEOREM ReplayPublishedHolds == Spec => []ReplayPublished
BY Invariance, PTL DEF IInv

=============================================================================
