------------------------------ MODULE DispatchGate ------------------------------
(***************************************************************************)
(* The dispatch worker's way to one script of one tenant                   *)
(* (dispatch-worker/src): the daily quota of the tenant's API key, the     *)
(* circuit breaker of the script, and nothing but rows of D1 to hold them. *)
(*                                                                         *)
(* Requests run side by side in any number of isolates.  Both the quota    *)
(* and the breaker are read by one statement and written by another one,   *)
(* and no statement's condition makes up for that: an action is the code   *)
(* from one statement to the next.  A request that brings another key, or  *)
(* names no registered script, changes nothing and is left out.            *)
(***************************************************************************)
EXTENDS Integers, FiniteSets

CONSTANTS
  Slots,       \* requests at a time
  Quotas,      \* daily quotas an administrator may give
  Threshold,   \* openThreshold: failures that open the breaker
  Window,      \* windowMinutes
  Cooldown,    \* cooldownMinutes
  DayLength,   \* ticks between two midnights
  Horizon,     \* bound: the clock stops here
  MaxRequests, \* bound: requests
  MaxKeys      \* bound: keys issued after the first

ASSUME DispatchAssumption ==
  /\ IsFiniteSet(Slots) /\ Slots # {}
  /\ Quotas \subseteq Nat \ {0} /\ Quotas # {}
  /\ Threshold \in Nat \ {0} /\ Window \in Nat /\ Cooldown \in Nat \ {0}
  /\ DayLength \in Nat \ {0} /\ Horizon \in Nat

VARIABLES
  clock,     \* the time, from 1: 0 stands for a column that is null
  key,       \* the tenant's row of tenant_api_keys
  script,    \* the script's row of tenant_scripts
  slot,      \* where each request stands, with what it read
  passed,    \* history: requests let through since the quota was last refilled
  failures,  \* history: the failed requests the breaker has counted
  spent      \* requests and keys so far

vars == <<clock, key, script, slot, passed, failures, spent>>

Day(t) == t \div DayLength

KeyRow    == [quota : Quotas, remaining : Nat, reset : Nat]
ScriptRow == [count : Nat, start : Nat, until : Nat]

Places == {"idle", "day", "refill", "quota", "debit", "script", "fetch", "judge", "write"}
Slot   == [at : Places, day : Nat, failed : BOOLEAN, now : Nat, row : ScriptRow]
NoRow  == [count |-> 0, start |-> 0, until |-> 0]
Idle   == [at |-> "idle", day |-> 0, failed |-> FALSE, now |-> 0, row |-> NoRow]

Limit    == [requests |-> MaxRequests, keys |-> MaxKeys]
Spend(w) == spent[w] < Limit[w] /\ spent' = [spent EXCEPT ![w] = @ + 1]

Enter(r, place, s) == slot' = [slot EXCEPT ![r] = [s EXCEPT !.at = place]]
Done(r) == slot' = [slot EXCEPT ![r] = Idle]

-----------------------------------------------------------------------------
(* verifyAuth *)

\* The key's hash is found; resetIfNeeded notes the day.
Arrive(r) ==
  /\ slot[r].at = "idle" /\ Spend("requests")
  /\ Enter(r, "day", [Idle EXCEPT !.day = Day(clock)])
  /\ UNCHANGED <<clock, key, script, passed, failures>>

\* SELECT last_reset_utc; the stamp of a refill is taken when it is sent.
CheckDay(r) ==
  /\ slot[r].at = "day"
  /\ \/ key.reset = slot[r].day /\ Enter(r, "quota", Idle)
     \/ key.reset # slot[r].day /\ Enter(r, "refill", [Idle EXCEPT !.day = Day(clock)])
  /\ UNCHANGED <<clock, key, script, passed, failures, spent>>

\* UPDATE remaining_today = daily_quota, whoever did the same meanwhile
Refill(r) ==
  /\ slot[r].at = "refill"
  /\ key' = [quota |-> key.quota, remaining |-> key.quota, reset |-> slot[r].day]
  /\ passed' = 0
  /\ Enter(r, "quota", Idle)
  /\ UNCHANGED <<clock, script, failures, spent>>

\* SELECT remaining_today
CheckQuota(r) ==
  /\ slot[r].at = "quota"
  /\ \/ key.remaining > 0 /\ Enter(r, "debit", Idle)
     \/ key.remaining = 0 /\ Done(r)
  /\ UNCHANGED <<clock, key, script, passed, failures, spent>>

\* Mutant: a request that finds nothing left to debit gets a new quota.
DebitOrRefill(r) ==
  /\ slot[r].at = "debit"
  /\ key' = [key EXCEPT !.remaining = IF @ > 0 THEN @ - 1 ELSE key.quota]
  /\ passed' = passed + 1
  /\ Enter(r, "script", Idle)
  /\ UNCHANGED <<clock, script, failures, spent>>

\* UPDATE remaining_today - 1 WHERE remaining_today > 0; the request goes on
\* whether or not that had an effect.
Debit(r) ==
  /\ slot[r].at = "debit"
  /\ key' = [key EXCEPT !.remaining = IF @ > 0 THEN @ - 1 ELSE @]
  /\ passed' = passed + 1
  /\ Enter(r, "script", Idle)
  /\ UNCHANGED <<clock, script, failures, spent>>

\* POST /admin/tenant-keys: INSERT OR REPLACE
IssueKey ==
  /\ Spend("keys")
  /\ \E q \in Quotas : key' = [quota |-> q, remaining |-> q, reset |-> Day(clock)]
  /\ passed' = 0
  /\ UNCHANGED <<clock, script, slot, failures>>

-----------------------------------------------------------------------------
(* The breaker *)

Open(t) == script.until > t

\* SELECT ... breaker_open_until_utc: 503 while it is open.
Route(r) ==
  /\ slot[r].at = "script"
  /\ \/ Open(clock) /\ Done(r)
     \/ ~Open(clock) /\ Enter(r, "fetch", Idle)
  /\ UNCHANGED <<clock, key, script, passed, failures, spent>>

\* The tenant's worker answers or fails; updateCircuit notes the time.
Answer(r) ==
  /\ slot[r].at = "fetch"
  /\ \E failed \in BOOLEAN :
       Enter(r, "judge", [Idle EXCEPT !.failed = failed, !.now = clock])
  /\ UNCHANGED <<clock, key, script, passed, failures, spent>>

\* Mutant: the window goes on for ever.
NeverRolled(t) ==
  IF script.start = 0 THEN [count |-> 0, start |-> t, until |-> script.until] ELSE script

\* The counts of another window are not counted on.
Rolled(t) ==
  IF script.start = 0 \/ t - script.start > Window
  THEN [count |-> 0, start |-> t, until |-> script.until]
  ELSE script

Tallied(r) ==
  LET row == Rolled(slot[r].now)
  IN IF slot[r].failed THEN row.count + 1
     ELSE IF row.count > 0 THEN row.count - 1 ELSE 0

\* Mutant: opening the breaker leaves the count where it is.
KeptCount(r) ==
  [count |-> Tallied(r), start |-> Rolled(slot[r].now).start,
   until |-> IF Tallied(r) >= Threshold THEN clock + Cooldown ELSE 0]

\* What the UPDATE will write: an until of 0 keeps the column as it is.
Verdict(r) ==
  IF Tallied(r) >= Threshold
  THEN [count |-> 0, start |-> Rolled(slot[r].now).start, until |-> clock + Cooldown]
  ELSE [count |-> Tallied(r), start |-> Rolled(slot[r].now).start, until |-> 0]

Failure(r) == [id |-> Cardinality(failures) + 1, now |-> slot[r].now, seen |-> clock]

\* SELECT failure_count_window, ...; nothing is done while the breaker is open.
Judge(r) ==
  /\ slot[r].at = "judge"
  /\ \/ Open(slot[r].now) /\ Done(r) /\ UNCHANGED failures
     \/ /\ ~Open(slot[r].now)
        /\ Enter(r, "write", [Idle EXCEPT !.row = Verdict(r)])
        /\ failures' = IF slot[r].failed THEN failures \cup {Failure(r)} ELSE failures
  /\ UNCHANGED <<clock, key, script, passed, spent>>

\* UPDATE tenant_scripts, whoever wrote meanwhile
Write(r) ==
  /\ slot[r].at = "write"
  /\ script' = [slot[r].row EXCEPT !.until = IF @ = 0 THEN script.until ELSE @]
  /\ Done(r)
  /\ UNCHANGED <<clock, key, passed, failures, spent>>

\* A statement fails, or the isolate is lost.
Leave(r) ==
  /\ slot[r].at # "idle" /\ Done(r)
  /\ UNCHANGED <<clock, key, script, passed, failures, spent>>

Tick ==
  /\ clock < Horizon /\ clock' = clock + 1
  /\ UNCHANGED <<key, script, slot, passed, failures, spent>>

-----------------------------------------------------------------------------
(* The worker *)

Init ==
  /\ clock = 1
  /\ \E q \in Quotas : key = [quota |-> q, remaining |-> q, reset |-> Day(clock)]
  /\ script = NoRow
  /\ slot = [r \in Slots |-> Idle]
  /\ passed = 0 /\ failures = {}
  /\ spent = [w \in DOMAIN Limit |-> 0]

Request(r) ==
  \/ Arrive(r) \/ CheckDay(r) \/ Refill(r) \/ CheckQuota(r) \/ Debit(r)
  \/ Route(r) \/ Answer(r) \/ Judge(r) \/ Write(r) \/ Leave(r)

Next == (\E r \in Slots : Request(r)) \/ IssueKey \/ Tick

Spec == Init /\ [][Next]_vars

-----------------------------------------------------------------------------
(* Properties *)

\* The types of the two rows and of the requests; the row never shows the count
\* that opens the breaker.
DispatchTypeOK ==
  /\ clock \in Nat \ {0}
  /\ key \in KeyRow /\ key.remaining <= key.quota
  /\ script \in ScriptRow /\ script.count < Threshold
  /\ slot \in [Slots -> Slot]
  /\ passed \in Nat
  /\ failures \subseteq [id : Nat, now : Nat, seen : Nat]
  /\ spent \in [DOMAIN Limit -> Nat]

\* Between two refills verifyAuth lets through no more requests than the quota and
\* one for each other request that had its look at the quota already, although the
\* look and the debit are two statements and the debit's effect is not examined.
QuotaBounded == passed <= key.quota + Cardinality(Slots) - 1

\* Failures that a window from w on covers: noted before its end, counted after
\* its begin.
Covered(w) == {f \in failures : f.now - w <= Window /\ f.seen >= w}

\* updateCircuit never opens the breaker for less than Threshold failed requests of
\* one window, the last of them just now: counts that were lost, or written back
\* over newer ones, make it open late, and never without cause.
OpensForCause ==
  script.until # 0 =>
    \E w \in 1 .. clock :
      /\ Cardinality(Covered(w)) >= Threshold
      /\ \E f \in Covered(w) : script.until = f.seen + Cooldown

=============================================================================
