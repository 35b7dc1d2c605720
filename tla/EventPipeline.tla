----------------------------- MODULE EventPipeline -----------------------------
(***************************************************************************)
(* Publishing an event: POST /api/v1/events, the fan-out to the agents     *)
(* subscribed to it, the dead letter queue and its replay                  *)
(* (ai-orchestrator/src/routes/events.ts, lib/dead-letter.ts).             *)
(*                                                                         *)
(* A request, the delivery to each agent and the end of the fan-out are    *)
(* concurrent: waitUntil lets the fan-out go on beside the handler and     *)
(* after its answer.  An action is one call to D1, KV or a webhook, at the *)
(* moment it takes effect, with the code up to the next call.              *)
(***************************************************************************)
EXTENDS Integers, FiniteSets

CONSTANTS
  Clients,      \* requests that clients send
  Admins,       \* replays that administrators ask for, one request each
  Agents,       \* active agents subscribed to the type of event
  Keys, NoKey,  \* idempotency keys of clients
  KeyOf,        \* the key each request carries, or NoKey
  Tenants,
  TenantOf,     \* the tenant each request is made for
  MaxAttempts,  \* column max_attempts of event_deliveries
  MaxCrashes,   \* requests whose isolate may be lost
  MaxDbErrors,  \* calls to D1 or KV that may fail, without effect
  MaxStale      \* KV reads that may miss a recent write

Requests == Clients \cup Admins

NoEvent == "none"   \* nothing under a key

ASSUME RequestAssumption ==
  /\ Clients \cap Admins = {}
  /\ NoEvent \notin Requests
  /\ NoKey \notin Keys
  /\ KeyOf \in [Requests -> Keys \cup {NoKey}]
  /\ TenantOf \in [Requests -> Tenants]

\* The key of a replay contains its time: it is never anybody else's.
ASSUME ReplayAssumption == \A a \in Admins : KeyOf[a] = NoKey

ASSUME LimitAssumption ==
  /\ MaxAttempts \in Nat \ {0}
  /\ MaxCrashes \in Nat /\ MaxDbErrors \in Nat /\ MaxStale \in Nat

VARIABLES
  req,       \* where the handler of each request stands
  kv,        \* IDEMPOTENCY_CACHE, the event under each key of each tenant
  event,     \* status of the event row that each request inserted
  fan,       \* where the fan-out of each event stands
  tally,     \* what the fan-out found its deliveries to amount to
  hook,      \* where the delivery of each event to each agent stands
  delivery,  \* status of the event_deliveries row of each event and agent
  block,     \* the block each delivery runs in, try or catch
  posts,     \* how often the agent's webhook has received the event
  letter,    \* dead_letter_queue: no entry, one to replay, or its replay_status
  target,    \* the entry each administrator replays
  faults     \* faults so far

vars ==
  <<req, kv, event, fan, tally, hook, delivery, block, posts, letter, target, faults>>

NoEntry == <<>>     \* no entry chosen

\* A delivery may be dead-lettered twice: in the try block, and again by the catch
\* block that the failure of a later statement leads to.
Blocks  == {"try", "catch"}
Entries == Requests \X Agents \X Blocks

ReqPc     == {"idle", "insert", "cache", "subscribe", "mark",
              "created", "duplicate", "error", "lost", "replayed"}
FanPc     == {"none", "deliver", "settle", "done", "lost"}
HookPc    == {"none", "insert", "post", "accepted", "refused", "check",
              "letter", "status", "gone"}
EventRow  == {"absent", "pending", "processing", "completed", "failed"}
SendRow   == {"absent", "pending", "delivered", "failed", "dead_letter"}
LetterRow == {"none", "open", "success", "failed"}

Budget == [crashes |-> MaxCrashes, dbErrors |-> MaxDbErrors, stale |-> MaxStale]
Fault(what) == faults[what] < Budget[what] /\ faults' = [faults EXCEPT ![what] = @ + 1]

Go(r, pc)        == req' = [req EXCEPT ![r] = pc]
GoHook(r, g, pc) == hook' = [hook EXCEPT ![r][g] = pc]

sending == <<hook, delivery, block, posts, letter>>

-----------------------------------------------------------------------------
(* The handler of POST /events *)

\* Mutant: the cache is not scoped to the tenant.
SlotShared(r) == <<CHOOSE t \in Tenants : TRUE, KeyOf[r]>>

\* idempotencyCacheKey
Slot(r) == <<TenantOf[r], KeyOf[r]>>

\* IDEMPOTENCY_CACHE.get, for a request with a key.  KV is eventually consistent
\* and its entries expire: a read may miss what was written.
Lookup(r) ==
  /\ req[r] = "idle" /\ r \in Clients
  /\ LET cached == KeyOf[r] # NoKey /\ kv[Slot(r)] # NoEvent
     IN \/ cached /\ Go(r, "duplicate") /\ UNCHANGED faults
        \/ ~cached /\ Go(r, "insert") /\ UNCHANGED faults
        \/ cached /\ Go(r, "insert") /\ Fault("stale")
  /\ UNCHANGED <<kv, event, fan, tally, target, sending>>

\* Mutant: the column is not UNIQUE.
KeyNeverTaken(r) == FALSE

\* Column idempotency_key is UNIQUE, across tenants; a violation rejects the INSERT,
\* and with it the request.
KeyTaken(r) ==
  KeyOf[r] # NoKey /\ \E q \in Requests : KeyOf[q] = KeyOf[r] /\ event[q] # "absent"

\* INSERT INTO events
Insert(r) ==
  /\ req[r] = "insert"
  /\ IF KeyTaken(r)
     THEN Go(r, "error") /\ UNCHANGED event
     ELSE /\ event' = [event EXCEPT ![r] = "pending"]
          /\ Go(r, IF KeyOf[r] = NoKey THEN "subscribe" ELSE "cache")
  /\ UNCHANGED <<kv, fan, tally, target, faults, sending>>

\* IDEMPOTENCY_CACHE.put
Cache(r) ==
  /\ req[r] = "cache"
  /\ kv' = [kv EXCEPT ![Slot(r)] = r]
  /\ Go(r, "subscribe")
  /\ UNCHANGED <<event, fan, tally, target, faults, sending>>

\* The subscribers are known (some, or nobody subscribes): the fan-out starts
\* beside the handler, which goes on to its last statement.
FanOut(r) ==
  /\ req[r] = "subscribe"
  /\ \E subscribers \in SUBSET Agents :
       /\ hook' = [hook EXCEPT ![r] =
                     [g \in Agents |-> IF g \in subscribers THEN "insert" ELSE "none"]]
       /\ fan' = [fan EXCEPT ![r] = IF subscribers = {} THEN "none" ELSE "deliver"]
  /\ Go(r, "mark")
  /\ UNCHANGED <<kv, event, tally, delivery, block, posts, letter, target, faults>>

\* UPDATE events SET status = 'processing', whatever the status is by now.
Mark(r) ==
  /\ req[r] = "mark"
  /\ event' = [event EXCEPT ![r] = "processing"]
  /\ Go(r, "created")
  /\ UNCHANGED <<kv, fan, tally, target, faults, sending>>

-----------------------------------------------------------------------------
(* fanOutToAgents: one delivery *)

\* INSERT INTO event_deliveries
RecordDelivery(r, g) ==
  /\ hook[r][g] = "insert"
  /\ delivery' = [delivery EXCEPT ![r][g] = "pending"]
  /\ GoHook(r, g, "post")
  /\ UNCHANGED <<req, kv, event, fan, tally, block, posts, letter, target, faults>>

\* The webhook accepts the event or refuses it; or fetch throws, before or after
\* the agent got the event, and the catch block takes over.
Post(r, g) ==
  /\ hook[r][g] = "post"
  /\ \E got \in BOOLEAN, answer \in {"accepted", "refused", "none"} :
       /\ answer # "none" => got
       /\ posts' = [posts EXCEPT ![r][g] = IF got THEN @ + 1 ELSE @]
       /\ GoHook(r, g, IF answer = "accepted" THEN "accepted" ELSE "refused")
       /\ block' = [block EXCEPT ![r][g] = IF answer = "none" THEN "catch" ELSE "try"]
  /\ UNCHANGED <<req, kv, event, fan, tally, delivery, letter, target, faults>>

\* The row learns the outcome.
RecordOutcome(r, g) ==
  /\ hook[r][g] \in {"accepted", "refused"}
  /\ LET accepted == hook[r][g] = "accepted"
     IN /\ delivery' = [delivery EXCEPT ![r][g] = IF accepted THEN "delivered" ELSE "failed"]
        /\ GoHook(r, g, IF accepted THEN "gone" ELSE "check")
  /\ UNCHANGED <<req, kv, event, fan, tally, block, posts, letter, target, faults>>

\* The row says attempts = 1; nothing ever attempts a second time.
CheckAttempts(r, g) ==
  /\ hook[r][g] = "check"
  /\ GoHook(r, g, IF 1 >= MaxAttempts THEN "letter" ELSE "gone")
  /\ UNCHANGED <<req, kv, event, fan, tally, delivery, block, posts, letter, target, faults>>

\* Mutant: moveToDeadLetter updates the delivery without inserting the entry.
WriteNothing(r, g) ==
  /\ hook[r][g] = "letter"
  /\ GoHook(r, g, "status")
  /\ UNCHANGED <<req, kv, event, fan, tally, delivery, block, posts, letter, target, faults>>

\* moveToDeadLetter: the entry, and then the status of the delivery
WriteLetter(r, g) ==
  /\ hook[r][g] = "letter"
  /\ letter' = [letter EXCEPT ![<<r, g, block[r][g]>>] = "open"]
  /\ GoHook(r, g, "status")
  /\ UNCHANGED <<req, kv, event, fan, tally, delivery, block, posts, target, faults>>

\* Mutant: a status that the CHECK constraint of the column does not know.
MarkDeliveryRenamed(r, g) ==
  /\ hook[r][g] = "status"
  /\ delivery' = [delivery EXCEPT ![r][g] = "dead"]
  /\ GoHook(r, g, "gone")
  /\ UNCHANGED <<req, kv, event, fan, tally, block, posts, letter, target, faults>>

MarkDelivery(r, g) ==
  /\ hook[r][g] = "status"
  /\ delivery' = [delivery EXCEPT ![r][g] = "dead_letter"]
  /\ GoHook(r, g, "gone")
  /\ UNCHANGED <<req, kv, event, fan, tally, block, posts, letter, target, faults>>

\* A statement fails.  In the try block the catch block takes over and records a
\* failure; elsewhere the delivery is over, and Promise.allSettled swallows it.
StatementFails(r, g) ==
  /\ hook[r][g] \in {"insert", "accepted", "refused", "check", "letter", "status"}
  /\ Fault("dbErrors")
  /\ LET rethrown == hook[r][g] = "insert" \/ block[r][g] = "catch"
     IN /\ GoHook(r, g, IF rethrown THEN "gone" ELSE "refused")
        /\ block' = [block EXCEPT ![r][g] = IF rethrown THEN @ ELSE "catch"]
  /\ UNCHANGED <<req, kv, event, fan, tally, delivery, posts, letter, target>>

Deliver(r, g) ==
  \/ RecordDelivery(r, g) \/ Post(r, g) \/ RecordOutcome(r, g)
  \/ CheckAttempts(r, g) \/ WriteLetter(r, g) \/ MarkDelivery(r, g)

-----------------------------------------------------------------------------
(* fanOutToAgents: the end *)

Rows(r) == {g \in Agents : delivery[r][g] # "absent"}

\* Mutant: a delivery that is still pending counts as done.
AllDoneUnlessFailed(r) == \A g \in Rows(r) : delivery[r][g] \notin {"failed", "dead_letter"}

AllDone(r) == \A g \in Rows(r) : delivery[r][g] = "delivered"

\* Every delivery is over: SELECT status FROM event_deliveries.
Tally(r) ==
  /\ fan[r] = "deliver"
  /\ \A g \in Agents : hook[r][g] \in {"none", "gone"}
  /\ tally' = [tally EXCEPT ![r] = IF AllDone(r) THEN "completed" ELSE "failed"]
  /\ fan' = [fan EXCEPT ![r] = "settle"]
  /\ UNCHANGED <<req, kv, event, target, faults, sending>>

\* UPDATE events SET status = finalStatus
Settle(r) ==
  /\ fan[r] = "settle"
  /\ event' = [event EXCEPT ![r] = tally[r]]
  /\ fan' = [fan EXCEPT ![r] = "done"]
  /\ UNCHANGED <<req, kv, tally, target, faults, sending>>

-----------------------------------------------------------------------------
(* POST /dead-letter/:id/replay and /replay-all *)

\* The entry is read and was not replayed yet; the event is published anew, or
\* the request is refused before it reaches the handler.
Replay(a) ==
  /\ req[a] = "idle" /\ a \in Admins
  /\ \E e \in Entries :
       /\ letter[e] = "open"
       /\ TenantOf[a] = TenantOf[e[1]]
       /\ target' = [target EXCEPT ![a] = e]
  /\ Go(a, "insert") \/ Go(a, "error")
  /\ UNCHANGED <<kv, event, fan, tally, faults, sending>>

\* Mutant: the answer to the publication is not looked at.
EndReplayBlindly(a) ==
  /\ target[a] # NoEntry /\ req[a] \in {"created", "error", "lost"}
  /\ letter' = [letter EXCEPT ![target[a]] = "success"]
  /\ Go(a, "replayed")
  /\ UNCHANGED <<kv, event, fan, tally, hook, delivery, block, posts, target, faults>>

\* The publication was answered: replayed_at and replay_status are set.  When the
\* answer or the update for a success is lost, the catch block records a failure.
EndReplay(a) ==
  /\ target[a] # NoEntry
  /\ \/ /\ req[a] = "created"
        /\ letter' = [letter EXCEPT ![target[a]] = "success"]
        /\ UNCHANGED faults
     \/ /\ req[a] = "created" /\ Fault("dbErrors")
        /\ letter' = [letter EXCEPT ![target[a]] = "failed"]
     \/ /\ req[a] \in {"error", "lost"}
        /\ letter' = [letter EXCEPT ![target[a]] = "failed"]
        /\ UNCHANGED faults
  /\ Go(a, "replayed")
  /\ UNCHANGED <<kv, event, fan, tally, hook, delivery, block, posts, target>>

-----------------------------------------------------------------------------
(* The system *)

InHandler == {"insert", "cache", "subscribe", "mark"}

\* A statement of the handler fails: the request does, and its fan-out goes on.
HandlerFails(r) ==
  /\ req[r] \in InHandler
  /\ Fault("dbErrors")
  /\ Go(r, "error")
  /\ UNCHANGED <<kv, event, fan, tally, target, sending>>

\* The isolate of a request is lost, and its deliveries with it; waitUntil gives
\* no more than 30 seconds after the answer, and webhooks may take longer.
Crash(r) ==
  /\ req[r] \in InHandler \/ fan[r] \in {"deliver", "settle"}
  /\ Fault("crashes")
  /\ req' = [req EXCEPT ![r] = IF @ \in InHandler THEN "lost" ELSE @]
  /\ fan' = [fan EXCEPT ![r] = IF @ \in {"deliver", "settle"} THEN "lost" ELSE @]
  /\ hook' = [hook EXCEPT ![r] = [g \in Agents |-> IF @[g] = "none" THEN "none" ELSE "gone"]]
  /\ UNCHANGED <<kv, event, tally, delivery, block, posts, letter, target>>

Init ==
  /\ req = [r \in Requests |-> "idle"]
  /\ kv = [s \in Tenants \X Keys |-> NoEvent]
  /\ event = [r \in Requests |-> "absent"]
  /\ fan = [r \in Requests |-> "none"]
  /\ tally = [r \in Requests |-> "none"]
  /\ hook = [r \in Requests |-> [g \in Agents |-> "none"]]
  /\ delivery = [r \in Requests |-> [g \in Agents |-> "absent"]]
  /\ block = [r \in Requests |-> [g \in Agents |-> "try"]]
  /\ posts = [r \in Requests |-> [g \in Agents |-> 0]]
  /\ letter = [e \in Entries |-> "none"]
  /\ target = [a \in Admins |-> NoEntry]
  /\ faults = [crashes |-> 0, dbErrors |-> 0, stale |-> 0]

Handle(r) == Lookup(r) \/ Insert(r) \/ Cache(r) \/ FanOut(r) \/ Mark(r)
Finish(r) == Tally(r) \/ Settle(r)

Next ==
  \/ \E r \in Requests : Handle(r) \/ HandlerFails(r) \/ Finish(r) \/ Crash(r)
  \/ \E r \in Requests, g \in Agents : Deliver(r, g) \/ StatementFails(r, g)
  \/ \E a \in Admins : Replay(a) \/ EndReplay(a)

Spec == Init /\ [][Next]_vars

-----------------------------------------------------------------------------
(* Properties *)

\* The types of the pipeline's state; the statuses are those the CHECK constraints
\* of the tables admit.
EventTypeOK ==
  /\ req \in [Requests -> ReqPc]
  /\ kv \in [Tenants \X Keys -> Requests \cup {NoEvent}]
  /\ event \in [Requests -> EventRow]
  /\ fan \in [Requests -> FanPc]
  /\ tally \in [Requests -> {"none", "completed", "failed"}]
  /\ hook \in [Requests -> [Agents -> HookPc]]
  /\ delivery \in [Requests -> [Agents -> SendRow]]
  /\ block \in [Requests -> [Agents -> Blocks]]
  /\ posts \in [Requests -> [Agents -> Nat]]
  /\ letter \in [Entries -> LetterRow]
  /\ target \in [Admins -> Entries \cup {NoEntry}]

\* However often a client repeats a request, whatever its cache read missed and
\* wherever an earlier attempt died: an agent receives what was published under
\* a key at most once (KV check, UNIQUE column, a single POST per delivery).
AtMostOncePerKey ==
  \A r, q \in Requests, g \in Agents :
    /\ posts[r][g] <= 1
    /\ posts[r][g] > 0 /\ posts[q][g] > 0 /\ KeyOf[r] = KeyOf[q] /\ KeyOf[r] # NoKey
         => r = q

\* A client that is told "deduplicated" is told about an event that exists and
\* was published for its own tenant, under its own key.
DuplicateExists ==
  \A r \in Requests :
    req[r] = "duplicate" =>
      \E q \in Requests :
        /\ kv[<<TenantOf[r], KeyOf[r]>>] = q
        /\ event[q] # "absent" /\ KeyOf[q] = KeyOf[r] /\ TenantOf[q] = TenantOf[r]

\* An event that is reported completed has no delivery that is not; one that is
\* reported failed has (fanOutToAgents reads the rows first and writes later).
SettledMatchesRows ==
  \A r \in Requests :
    /\ event[r] = "completed" => \A g \in Rows(r) : delivery[r][g] = "delivered"
    /\ event[r] = "failed" => \E g \in Rows(r) : delivery[r][g] # "delivered"

\* A delivery is only reported dead-lettered when the dead letter queue has its
\* entry, wherever moveToDeadLetter was interrupted.
DeadLetterExists ==
  \A r \in Requests, g \in Agents :
    delivery[r][g] = "dead_letter" => \E b \in Blocks : letter[<<r, g, b>>] # "none"

\* An entry that is marked as replayed successfully did lead to a new event, by a
\* replay of that entry.
ReplayPublished ==
  \A e \in Entries :
    letter[e] = "success" => \E a \in Admins : target[a] = e /\ event[a] # "absent"

=============================================================================
