---------------------------- MODULE AutomationGate ----------------------------
(***************************************************************************)
(* The automation rules of one tenant: AutomationDO, which grants or       *)
(* denies a rule's execution (ai-orchestrator/src/automation/              *)
(* automation-do.ts), and the evaluator, which asks it, runs the rule's    *)
(* actions, records them in D1 and reports the execution back              *)
(* (lib/automation-evaluator.ts).                                          *)
(*                                                                         *)
(* The object is single-threaded and its storage calls close the input     *)
(* gate, so each of its handlers is one step.  Evaluations are concurrent: *)
(* waitUntil runs one for every published event, and another isolate may   *)
(* run one for POST /automation/evaluate.                                  *)
(***************************************************************************)
EXTENDS Integers, FiniteSets

CONSTANTS
  Evaluators,   \* isolates that evaluate events, one event at a time each
  Rules,        \* the tenant's automation rules
  NoRule,
  Events,       \* what an event is deduplicated by: its type and payload
  NoEvent,
  NoState,      \* automationState is null, or nothing is stored
  Settings,     \* limits of a rule, [cooldown, max], absent fields defaulted
  Defaults,     \* DEFAULT_COOLDOWN_MS and DEFAULT_MAX_PER_WINDOW
  Window,       \* DEFAULT_WINDOW_MS
  DedupTtl,     \* DEDUP_TTL_MS
  Ceiling,      \* no setting allows more executions in a window
  Horizon,      \* bound: the clock stops here
  MaxEvents,    \* bound: events evaluated
  MaxEvictions, \* bound: times the object is evicted from memory
  MaxOrders     \* bound: calls of /limits and /reset

DedupKeys == Rules \X Events

Gate == [last : [Rules -> Nat], count : [Rules -> Nat], start : Nat,
         dedup : [DedupKeys -> Nat], limits : [Rules -> Settings]]

ASSUME GateAssumption ==
  /\ IsFiniteSet(Evaluators)
  /\ NoRule \notin Rules /\ NoEvent \notin Events
  /\ NoState \notin Gate
  /\ Settings \subseteq [cooldown : Nat, max : Nat] /\ Defaults \in Settings
  /\ Window \in Nat /\ DedupTtl \in Nat
  /\ Ceiling \in Nat \ {0} /\ \A s \in Settings : s.max <= Ceiling

VARIABLES
  clock,    \* Date.now(), from 1: a time that is 0 was never set
  mem,      \* automationState in the object's memory
  disk,     \* the value under automation_state in its storage
  eval,     \* where each evaluator stands, with what
  rows,     \* automation_executions of each rule
  runs,     \* run_count of each rule
  promise,  \* history: what the object has acknowledged since its last reset
  window,   \* history: what was granted since a window was opened, see Opens
  spent     \* events, evictions and orders so far

vars == <<clock, mem, disk, eval, rows, runs, promise, window, spent>>

Places   == {"idle", "check", "act", "insert", "stats", "record"}
Idle     == [at |-> "idle", todo |-> {}, rule |-> NoRule, event |-> NoEvent]
Limit    == [events |-> MaxEvents, evictions |-> MaxEvictions, orders |-> MaxOrders]
Spend(w) == spent[w] < Limit[w] /\ spent' = [spent EXCEPT ![w] = @ + 1]

\* The executions of a rule that are granted and neither reported nor given up
InFlight(r) ==
  {e \in Evaluators : eval[e].rule = r /\ eval[e].at \in {"act", "insert", "stats", "record"}}

\* What the history knows of a window: when it was opened, and of each rule how many
\* executions were granted since, how many reports were lost since, and how many
\* executions were in flight when an eviction forgot the window they were granted in.
NoneYet   == [r \in Rules |-> 0]
NewWindow == [from |-> clock, granted |-> NoneYet, lost |-> NoneYet, orphans |-> NoneYet]

-----------------------------------------------------------------------------
(* AutomationDO *)

Fresh == [last   |-> [r \in Rules |-> 0],
          count  |-> [r \in Rules |-> 0],
          start  |-> clock,
          dedup  |-> [k \in DedupKeys |-> 0],
          limits |-> [r \in Rules |-> Defaults]]

\* loadState
Current == IF mem # NoState THEN mem ELSE IF disk # NoState THEN disk ELSE Fresh

Duplicate(k) == Current.dedup[k] # 0 /\ clock < Current.dedup[k]

Cooling(r) ==
  Current.last[r] # 0 /\ clock - Current.last[r] < Current.limits[r].cooldown

WindowOver == clock - Current.start > Window

\* Mutant: the new window forgets every deduplication key.
ForgetKeys ==
  IF WindowOver
  THEN [Current EXCEPT !.count = Fresh.count, !.start = clock, !.dedup = Fresh.dedup]
  ELSE Current

\* The state once its window is reset, if that is over; expired keys are pruned.
Rolled ==
  IF WindowOver
  THEN [Current EXCEPT !.count = Fresh.count, !.start = clock,
          !.dedup = [k \in DedupKeys |-> IF clock >= @[k] THEN 0 ELSE @[k]]]
  ELSE Current

\* Mutant: one execution too many.
WithinOneMore(r) == Rolled.count[r] <= Rolled.limits[r].max

Within(r) == Rolled.count[r] < Rolled.limits[r].max

Denied(r, k) == Duplicate(k) \/ Cooling(r)

\* handleCheck: the answer.  What it does to the window stays in memory.
Granted(r, k) == ~Denied(r, k) /\ Within(r)
Checked(r, k) == IF Denied(r, k) THEN Current ELSE Rolled

\* The window of the history: a check opens one that starts now.  It is no other
\* window if the last one should still be open and is reset again only because an
\* eviction has forgotten it.
Opens(r, k) == ~Denied(r, k) /\ Rolled.start = clock /\ clock - window.from > Window
Opened(r, k) == IF Opens(r, k) THEN NewWindow ELSE window

\* Mutant: the time of the last execution is counted back from the window.
RecordedInWindow(r, k) ==
  [Current EXCEPT !.last[r] = Current.start - clock, !.count[r] = @ + 1, !.dedup[k] = clock + DedupTtl]

\* What handleRecord makes of the state
Recorded(r, k) ==
  [Current EXCEPT !.last[r] = clock, !.count[r] = @ + 1, !.dedup[k] = clock + DedupTtl]

\* Mutant: the state is not saved.
KeepInMemory(s) == mem' = s /\ UNCHANGED disk

\* saveState
Save(s) == mem' = s /\ disk' = s

\* PUT /limits
SetLimits(r) ==
  /\ Spend("orders")
  /\ \E s \in Settings :
       /\ Save([Current EXCEPT !.limits[r] = s])
       /\ promise' = [promise EXCEPT !.limits[r] = s]
  /\ UNCHANGED <<clock, eval, rows, runs, window>>

\* POST /reset; the limits go too
Reset ==
  /\ Spend("orders")
  /\ Save(Fresh)
  /\ promise' = [last |-> Fresh.last, keys |-> Fresh.dedup, limits |-> Fresh.limits]
  /\ window' = NewWindow
  /\ UNCHANGED <<clock, eval, rows, runs>>

\* The object leaves memory: any time, between two of its requests.  A window that
\* was not saved is forgotten: what it granted may be counted in the one before it.
Evict ==
  /\ mem # NoState /\ Spend("evictions")
  /\ mem' = NoState
  /\ IF disk # NoState /\ disk.start # mem.start
     THEN window' = [window EXCEPT !.orphans =
                       [r \in Rules |-> @[r] + Cardinality(InFlight(r))]]
     ELSE UNCHANGED window
  /\ UNCHANGED <<clock, disk, eval, rows, runs, promise>>

-----------------------------------------------------------------------------
(* evaluateAutomationRules *)

KeyOf(e) == <<eval[e].rule, eval[e].event>>

Move(e, place) == eval' = [eval EXCEPT ![e].at = place]

\* An event arrives; the rules that match it are known, in no order D1 promises.
Start(e) ==
  /\ eval[e].at = "idle" /\ Spend("events")
  /\ \E event \in Events, matched \in SUBSET Rules \ {{}} :
       eval' = [eval EXCEPT ![e] =
                  [at |-> "check", todo |-> matched, rule |-> NoRule, event |-> event]]
  /\ UNCHANGED <<clock, mem, disk, rows, runs, promise, window>>

\* POST /check for the next rule, which is skipped when the answer is no.
Check(e) ==
  /\ eval[e].at = "check"
  /\ \E r \in eval[e].todo :
       LET k == <<r, eval[e].event>>
       IN /\ mem' = Checked(r, k)
          /\ IF Granted(r, k)
             THEN /\ eval' = [eval EXCEPT ![e].at = "act", ![e].rule = r, ![e].todo = @ \ {r}]
                  /\ window' = [Opened(r, k) EXCEPT !.granted[r] = @ + 1]
             ELSE /\ eval' = [eval EXCEPT ![e].todo = @ \ {r}]
                  /\ window' = Opened(r, k)
  /\ UNCHANGED <<clock, disk, rows, runs, promise, spent>>

\* The rule's actions; none of their failures ends the evaluation.
Act(e) ==
  /\ eval[e].at = "act" /\ Move(e, "insert")
  /\ UNCHANGED <<clock, mem, disk, rows, runs, promise, window, spent>>

\* Mutant: the execution is recorded without its row.
InsertNothing(e) ==
  /\ eval[e].at = "insert" /\ Move(e, "stats")
  /\ UNCHANGED <<clock, mem, disk, rows, runs, promise, window, spent>>

\* INSERT INTO automation_executions
Insert(e) ==
  /\ eval[e].at = "insert" /\ Move(e, "stats")
  /\ rows' = [rows EXCEPT ![eval[e].rule] = @ + 1]
  /\ UNCHANGED <<clock, mem, disk, runs, promise, window, spent>>

\* UPDATE automation_rules SET run_count = run_count + 1
Count(e) ==
  /\ eval[e].at = "stats" /\ Move(e, "record")
  /\ runs' = [runs EXCEPT ![eval[e].rule] = @ + 1]
  /\ UNCHANGED <<clock, mem, disk, rows, promise, window, spent>>

NextRule(e) == eval' = [eval EXCEPT ![e].at = "check", ![e].rule = NoRule]

\* POST /record
Record(e) ==
  /\ eval[e].at = "record" /\ NextRule(e)
  /\ Save(Recorded(eval[e].rule, KeyOf(e)))
  /\ promise' = [promise EXCEPT !.last[eval[e].rule] = clock, !.keys[KeyOf(e)] = clock]
  /\ UNCHANGED <<clock, rows, runs, window, spent>>

\* The report of what e executes, if it executes something, will not come.
LoseReport(e) ==
  window' = [window EXCEPT !.lost =
               [r \in Rules |-> @[r] + (IF e \in InFlight(r) THEN 1 ELSE 0)]]

\* The call of /record fails, and nobody minds: the object knows nothing of the
\* execution.
RecordLost(e) ==
  /\ eval[e].at = "record" /\ NextRule(e) /\ LoseReport(e)
  /\ UNCHANGED <<clock, mem, disk, rows, runs, promise, spent>>

\* All rules were tried; or a statement or the call of /check throws, or the
\* isolate is lost: the rules that are left are never looked at.
Leave(e) ==
  /\ eval[e].at # "idle"
  /\ eval' = [eval EXCEPT ![e] = Idle] /\ LoseReport(e)
  /\ UNCHANGED <<clock, mem, disk, rows, runs, promise, spent>>

Tick ==
  /\ clock < Horizon /\ clock' = clock + 1
  /\ UNCHANGED <<mem, disk, eval, rows, runs, promise, window, spent>>

-----------------------------------------------------------------------------
(* The system *)

Init ==
  /\ clock = 1
  /\ mem = NoState /\ disk = NoState
  /\ eval = [e \in Evaluators |-> Idle]
  /\ rows = [r \in Rules |-> 0] /\ runs = [r \in Rules |-> 0]
  /\ promise = [last |-> Fresh.last, keys |-> Fresh.dedup, limits |-> Fresh.limits]
  /\ window = NewWindow
  /\ spent = [w \in DOMAIN Limit |-> 0]

Evaluate(e) ==
  \/ Start(e) \/ Check(e) \/ Act(e) \/ Insert(e) \/ Count(e)
  \/ Record(e) \/ RecordLost(e) \/ Leave(e)

Next ==
  \/ \E e \in Evaluators : Evaluate(e)
  \/ \E r \in Rules : SetLimits(r)
  \/ Reset \/ Evict \/ Tick

Spec == Init /\ [][Next]_vars

-----------------------------------------------------------------------------
(* Properties *)

\* The types of the gate's state and of the evaluators that use it.
GateTypeOK ==
  /\ clock \in Nat \ {0}
  /\ mem \in Gate \cup {NoState} /\ disk \in Gate \cup {NoState}
  /\ eval \in [Evaluators -> [at : Places, todo : SUBSET Rules,
                              rule : Rules \cup {NoRule}, event : Events \cup {NoEvent}]]
  /\ rows \in [Rules -> Nat] /\ runs \in [Rules -> Nat]
  /\ promise \in [last : [Rules -> Nat], keys : [DedupKeys -> Nat],
                  limits : [Rules -> Settings]]
  /\ window \in [from : Nat, granted : [Rules -> Nat], lost : [Rules -> Nat],
                 orphans : [Rules -> Nat]]
  /\ spent \in [DOMAIN Limit -> Nat]

Grants(e) == eval[e].at = "check" /\ eval'[e].at = "act"

\* handleCheck grants no execution of a rule within its cooldown of the last one
\* that the object acknowledged, under the limits it last acknowledged: whatever
\* was evicted since, and however old the state it had to load.
CooldownKept ==
  [][\A e \in Evaluators :
       Grants(e) =>
         LET r == eval'[e].rule
         IN promise.last[r] = 0 \/ clock - promise.last[r] >= promise.limits[r].cooldown]_vars

\* Nor does it grant the same execution twice within the lifetime of its
\* deduplication key, even when a new window has pruned the keys meanwhile.
DedupKept ==
  [][\A e \in Evaluators :
       Grants(e) =>
         LET k == <<eval'[e].rule, eval'[e].event>>
         IN promise.keys[k] = 0 \/ clock - promise.keys[k] >= DedupTtl]_vars

\* Permission is asked before the actions and reported after them, so a window may
\* grant more executions of a rule than its limit: one for every other evaluator, and
\* one for every report that was lost, since the gate never learns of those.  The
\* reset that opens a window is not saved, and an eviction brings the window before
\* it back: that adds, at most, the executions that were in flight when it happened,
\* although the same window is then opened a second time with its counts at zero.
WindowBounded ==
  \A r \in Rules :
    window.granted[r] <=
      Ceiling - 1 + Cardinality(Evaluators) + window.lost[r] + window.orphans[r]

\* Every execution that the gate counts has its row in automation_executions and
\* is counted in run_count, although the three are written apart.
CountedIsRecorded ==
  \A r \in Rules : Current.count[r] <= runs[r] /\ runs[r] <= rows[r]

=============================================================================
