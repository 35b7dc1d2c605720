--------------------------- MODULE DispatchGateProofs ---------------------------
(***************************************************************************)
(* DispatchGate, for any number of requests, quotas, thresholds, windows   *)
(* and days: its types, the bound on what a quota lets through, and the    *)
(* cause of every opening of the breaker.                                  *)
(***************************************************************************)
EXTENDS DispatchGate, FiniteSetTheorems, TLAPS

\* What the constants are.
LEMMA Constants ==
  /\ IsFiniteSet(Slots) /\ Slots # {}
  /\ Quotas \subseteq Nat /\ \A q \in Quotas : q > 0
  /\ Threshold \in Nat /\ Threshold > 0
  /\ Window \in Nat
  /\ Cooldown \in Nat /\ Cooldown > 0
  /\ DayLength \in Nat /\ DayLength > 0
  BY DispatchAssumption

USE Constants

-----------------------------------------------------------------------------
(* Types *)

\* What a request carries to Write is a row as updateCircuit leaves it.
Typed ==
  /\ DispatchTypeOK
  /\ IsFiniteSet(failures)
  /\ \A r \in Slots : slot[r].row.count < Threshold

LEMMA EnterTyped ==
  ASSUME Typed, NEW r \in Slots, NEW p \in Places, NEW s \in Slot,
         s.row.count < Threshold, Enter(r, p, s)
  PROVE  slot' \in [Slots -> Slot] /\ \A q \in Slots : slot'[q].row.count < Threshold
  BY DEF Typed, DispatchTypeOK, Enter, Slot

LEMMA EnterIdle ==
  ASSUME Typed, NEW r \in Slots, NEW p \in Places, Enter(r, p, Idle)
  PROVE  slot' \in [Slots -> Slot] /\ \A q \in Slots : slot'[q].row.count < Threshold
<1>1. Idle \in Slot /\ Idle.row.count < Threshold
  BY DEF Idle, Slot, Places, NoRow, ScriptRow
<1> QED BY <1>1, EnterTyped

LEMMA DoneTyped ==
  ASSUME Typed, NEW r \in Slots, Done(r)
  PROVE  slot' \in [Slots -> Slot] /\ \A q \in Slots : slot'[q].row.count < Threshold
<1>1. Idle \in Slot /\ Idle.row.count = 0
  BY DEF Idle, Slot, Places, NoRow, ScriptRow
<1> QED BY <1>1 DEF Typed, DispatchTypeOK, Done

LEMMA IdleTyped == Idle \in Slot /\ Idle.row.count = 0 /\ Idle.row = NoRow /\ Idle.at = "idle"
  BY DEF Idle, Slot, Places, NoRow, ScriptRow

\* The day is a number: a quotient of numbers.
LEMMA DayTyped == \A t \in Nat : Day(t) \in Nat
  BY DEF Day

\* What Rolled and Verdict yield from a typed row.
LEMMA RolledTyped ==
  ASSUME Typed, NEW t \in Nat
  PROVE  /\ Rolled(t) \in ScriptRow /\ Rolled(t).count < Threshold
         /\ Rolled(t).count <= script.count
         /\ Rolled(t).start = t \/ Rolled(t).start = script.start
<1>1. script \in ScriptRow /\ script.count \in Nat /\ script.start \in Nat /\ script.count < Threshold
  BY DEF Typed, DispatchTypeOK, ScriptRow
<1>2. CASE Rolled(t) = script
  BY <1>1, <1>2
<1>3. CASE Rolled(t) = [count |-> 0, start |-> t, until |-> script.until]
  BY <1>1, <1>3 DEF ScriptRow
<1> QED BY <1>2, <1>3 DEF Rolled

LEMMA VerdictTyped ==
  ASSUME Typed, NEW r \in Slots
  PROVE  Verdict(r) \in ScriptRow /\ Verdict(r).count < Threshold
<1>1. slot[r].now \in Nat /\ slot[r].failed \in BOOLEAN /\ clock \in Nat
  BY DEF Typed, DispatchTypeOK, Slot
<1>2. Rolled(slot[r].now) \in ScriptRow /\ Rolled(slot[r].now).count < Threshold
  BY <1>1, RolledTyped
<1>3. Tallied(r) \in Nat
  BY <1>1, <1>2 DEF Tallied, ScriptRow
<1> QED BY <1>1, <1>2, <1>3 DEF Verdict, ScriptRow

LEMMA SpendTyped ==
  ASSUME Typed, NEW w \in DOMAIN Limit, Spend(w)
  PROVE  spent' \in [DOMAIN Limit -> Nat]
  BY DEF Typed, DispatchTypeOK, Spend

LEMMA TypedInit == Init => Typed
<1> SUFFICES ASSUME Init PROVE Typed
  OBVIOUS
<1>1. key \in KeyRow /\ key.remaining <= key.quota
  BY DayTyped DEF Init, KeyRow
<1>2. slot \in [Slots -> Slot] /\ \A r \in Slots : slot[r].row.count < Threshold
  BY IdleTyped DEF Init
<1>3. script \in ScriptRow /\ script.count < Threshold
  BY DEF Init, NoRow, ScriptRow
<1>4. failures \subseteq [id : Nat, now : Nat, seen : Nat] /\ spent \in [DOMAIN Limit -> Nat]
  BY DEF Init
<1>5. IsFiniteSet(failures)
  BY FS_EmptySet DEF Init
<1> QED BY <1>1, <1>2, <1>3, <1>4, <1>5 DEF Init, Typed, DispatchTypeOK

LEMMA TypedStep == Typed /\ [Next]_vars => Typed'
<1> SUFFICES ASSUME Typed, [Next]_vars PROVE Typed'
  OBVIOUS
<1>0. "requests" \in DOMAIN Limit /\ "keys" \in DOMAIN Limit
  BY DEF Limit, Typed, DispatchTypeOK
<1>a. clock \in Nat /\ Day(clock) \in Nat
  BY DayTyped DEF Typed, DispatchTypeOK
<1>1. ASSUME NEW r \in Slots, Arrive(r) PROVE Typed'
  <2> DEFINE s == [Idle EXCEPT !.day = Day(clock)]
  <2>1. s \in Slot /\ s.row.count < Threshold
    BY <1>a DEF Idle, Slot, Places, NoRow, ScriptRow
  <2>2. Enter(r, "day", s)
    BY <1>1 DEF Arrive
  <2> HIDE DEF s
  <2>3. spent' \in [DOMAIN Limit -> Nat]
    BY <1>1, <1>0, SpendTyped DEF Arrive
  <2>4. slot' \in [Slots -> Slot] /\ \A q \in Slots : slot'[q].row.count < Threshold
    BY <2>1, <2>2, EnterTyped DEF Places
  <2> QED BY <1>1, <2>3, <2>4 DEF Arrive, Typed, DispatchTypeOK
<1>2. ASSUME NEW r \in Slots, CheckDay(r) PROVE Typed'
  <2> DEFINE s == [Idle EXCEPT !.day = Day(clock)]
  <2>1. s \in Slot /\ s.row.count < Threshold
    BY <1>a DEF Idle, Slot, Places, NoRow, ScriptRow
  <2>2. Enter(r, "quota", Idle) \/ Enter(r, "refill", s)
    BY <1>2 DEF CheckDay
  <2> HIDE DEF s
  <2>3. slot' \in [Slots -> Slot] /\ \A q \in Slots : slot'[q].row.count < Threshold
    BY <2>1, <2>2, EnterIdle, EnterTyped DEF Places
  <2> QED BY <1>2, <2>3 DEF CheckDay, Typed, DispatchTypeOK
<1>3. ASSUME NEW r \in Slots, Refill(r) PROVE Typed'
  <2>1. slot' \in [Slots -> Slot] /\ \A q \in Slots : slot'[q].row.count < Threshold
    BY <1>3, EnterIdle DEF Refill, Places
  <2>2. key' \in KeyRow /\ key'.remaining <= key'.quota
    <3>1. slot[r].day \in Nat
      BY DEF Slot, Typed, DispatchTypeOK
    <3>2. key \in KeyRow /\ key.quota \in Nat
      BY DEF KeyRow, Typed, DispatchTypeOK
    <3> QED BY <1>3, <3>1, <3>2 DEF Refill, KeyRow
  <2> QED BY <1>3, <2>1, <2>2 DEF Refill, Typed, DispatchTypeOK
<1>4. ASSUME NEW r \in Slots, CheckQuota(r) PROVE Typed'
  <2>1. slot' \in [Slots -> Slot] /\ \A q \in Slots : slot'[q].row.count < Threshold
    BY <1>4, EnterIdle, DoneTyped DEF CheckQuota, Places
  <2> QED BY <1>4, <2>1 DEF CheckQuota, Typed, DispatchTypeOK
<1>5. ASSUME NEW r \in Slots, Debit(r) PROVE Typed'
  <2>1. slot' \in [Slots -> Slot] /\ \A q \in Slots : slot'[q].row.count < Threshold
    BY <1>5, EnterIdle DEF Debit, Places
  <2>2. key' \in KeyRow /\ key'.remaining <= key'.quota
    BY <1>5 DEF Debit, KeyRow, Typed, DispatchTypeOK
  <2> QED BY <1>5, <2>1, <2>2 DEF Debit, Typed, DispatchTypeOK
<1>6. ASSUME NEW r \in Slots, Route(r) PROVE Typed'
  <2>1. slot' \in [Slots -> Slot] /\ \A q \in Slots : slot'[q].row.count < Threshold
    BY <1>6, EnterIdle, DoneTyped DEF Route, Places
  <2> QED BY <1>6, <2>1 DEF Route, Typed, DispatchTypeOK
<1>7. ASSUME NEW r \in Slots, Answer(r) PROVE Typed'
  <2> PICK failed \in BOOLEAN : Enter(r, "judge", [Idle EXCEPT !.failed = failed, !.now = clock])
    BY <1>7 DEF Answer, Typed, DispatchTypeOK
  <2> DEFINE s == [Idle EXCEPT !.failed = failed, !.now = clock]
  <2>1. s \in Slot /\ s.row.count < Threshold
    BY <1>a DEF Idle, Slot, Places, NoRow, ScriptRow
  <2>2. Enter(r, "judge", s)
    OBVIOUS
  <2> HIDE DEF s
  <2>3. slot' \in [Slots -> Slot] /\ \A q \in Slots : slot'[q].row.count < Threshold
    BY <2>1, <2>2, EnterTyped DEF Places
  <2> QED BY <1>7, <2>3 DEF Answer, Typed, DispatchTypeOK
<1>8. ASSUME NEW r \in Slots, Judge(r) PROVE Typed'
  <2>1. [Idle EXCEPT !.row = Verdict(r)] \in Slot
    BY VerdictTyped DEF Idle, Slot, Places
  <2>2. [Idle EXCEPT !.row = Verdict(r)].row.count < Threshold
    BY VerdictTyped DEF Idle
  <2>3. slot' \in [Slots -> Slot] /\ \A q \in Slots : slot'[q].row.count < Threshold
    BY <1>8, <2>1, <2>2, EnterTyped, DoneTyped DEF Judge, Places
  <2>4. Failure(r) \in [id : Nat, now : Nat, seen : Nat]
    BY FS_CardinalityType DEF Failure, Slot, Typed, DispatchTypeOK
  <2>5. failures' \subseteq [id : Nat, now : Nat, seen : Nat]
    BY <1>8, <2>4 DEF Judge, Typed, DispatchTypeOK
  <2>6. IsFiniteSet(failures')
    BY <1>8, FS_AddElement DEF Judge, Typed
  <2> QED BY <1>8, <2>3, <2>5, <2>6 DEF Judge, Typed, DispatchTypeOK
<1>9. ASSUME NEW r \in Slots, Write(r) PROVE Typed'
  <2>1. slot' \in [Slots -> Slot] /\ \A q \in Slots : slot'[q].row.count < Threshold
    BY <1>9, DoneTyped DEF Write
  <2>2. slot[r].row \in ScriptRow /\ slot[r].row.count < Threshold
    BY DEF Slot, Typed, DispatchTypeOK
  <2>3. script' \in ScriptRow /\ script'.count < Threshold
    BY <1>9, <2>2 DEF Write, ScriptRow, Typed, DispatchTypeOK
  <2> QED BY <1>9, <2>1, <2>3 DEF Write, Typed, DispatchTypeOK
<1>10. ASSUME NEW r \in Slots, Leave(r) PROVE Typed'
  <2>1. slot' \in [Slots -> Slot] /\ \A q \in Slots : slot'[q].row.count < Threshold
    BY <1>10, DoneTyped DEF Leave
  <2> QED BY <1>10, <2>1 DEF Leave, Typed, DispatchTypeOK
<1>11. CASE IssueKey
  <2>1. spent' \in [DOMAIN Limit -> Nat]
    BY <1>11, <1>0, SpendTyped DEF IssueKey
  <2>2. key' \in KeyRow /\ key'.remaining <= key'.quota
    BY <1>11, <1>a DEF IssueKey, KeyRow, Typed, DispatchTypeOK
  <2> QED BY <1>11, <2>1, <2>2 DEF IssueKey, Typed, DispatchTypeOK
<1>12. CASE Tick
  BY <1>12 DEF Tick, Typed, DispatchTypeOK
<1>13. CASE UNCHANGED vars
  BY <1>13 DEF vars, Typed, DispatchTypeOK
<1> QED BY <1>1, <1>2, <1>3, <1>4, <1>5, <1>6, <1>7, <1>8, <1>9, <1>10, <1>11, <1>12, <1>13
        DEF Next, Request

\* The rows and the requests have their types, and no row shows the count that
\* opens the breaker.
THEOREM TypeCorrect == Spec => []DispatchTypeOK
<1>1. Typed => DispatchTypeOK
  BY DEF Typed
<1> QED BY <1>1, TypedInit, TypedStep, PTL DEF Spec

-----------------------------------------------------------------------------
(* The quota *)

Debiting == {r \in Slots : slot[r].at = "debit"}

\* While requests remain the row accounts for every one let through; once none do,
\* only those that looked before can still come.
Quota ==
  /\ key.remaining > 0 => passed + key.remaining = key.quota
  /\ key.remaining = 0 =>
       passed + Cardinality(Debiting) <= key.quota + Cardinality(Slots) - 1

LEMMA SlotCount ==
  ASSUME NEW D, NEW E, D \subseteq Slots, E \subseteq D
  PROVE  /\ Cardinality(E) \in Nat /\ Cardinality(D) \in Nat /\ Cardinality(Slots) \in Nat
         /\ Cardinality(E) <= Cardinality(D)
         /\ Cardinality(D) <= Cardinality(Slots)
         /\ \A r \in D : r \notin E => Cardinality(E) <= Cardinality(D) - 1
<1>1. IsFiniteSet(D) /\ IsFiniteSet(E)
  BY FS_Subset
<1>2. Cardinality(E) \in Nat /\ Cardinality(D) \in Nat /\ Cardinality(Slots) \in Nat
  BY <1>1, FS_CardinalityType
<1>3. ASSUME NEW r \in D, r \notin E PROVE Cardinality(E) <= Cardinality(D) - 1
  <2>1. IsFiniteSet(D \ {r}) /\ Cardinality(D \ {r}) = Cardinality(D) - 1
    BY <1>1, FS_RemoveElement
  <2>2. E \subseteq D \ {r}
    BY <1>3
  <2> QED BY <2>1, <2>2, FS_Subset
<1> QED BY <1>1, <1>2, <1>3, FS_Subset

\* A step that lets nobody past the look keeps Quota when it keeps the row.
LEMMA QuotaKept ==
  ASSUME Typed, Quota, key' = key, passed' = passed,
         key.remaining = 0 => Debiting' \subseteq Debiting
  PROVE  Quota'
<1>1. Debiting \subseteq Slots
  BY DEF Debiting
<1>2. key.remaining \in Nat /\ key.quota \in Nat /\ passed \in Nat
  BY DEF Typed, DispatchTypeOK, KeyRow
<1>3. CASE key.remaining = 0
  <2>1. /\ Cardinality(Debiting') \in Nat /\ Cardinality(Debiting) \in Nat
        /\ Cardinality(Debiting') <= Cardinality(Debiting)
    BY <1>1, <1>3, SlotCount
  <2>2. Cardinality(Slots) \in Nat
    BY FS_CardinalityType
  <2> QED BY <1>2, <1>3, <2>1, <2>2 DEF Quota
<1> QED BY <1>2, <1>3 DEF Quota

\* A row with its whole quota is a good one.
LEMMA QuotaFull ==
  ASSUME key'.remaining = key'.quota, key'.quota \in Nat, key'.quota > 0, passed' = 0
  PROVE  Quota'
  BY DEF Quota

\* A request that goes anywhere but to the debit adds nobody to Debiting.
LEMMA EnterElsewhere ==
  ASSUME Typed, NEW r \in Slots, NEW p, NEW s, p # "debit", s \in Slot, Enter(r, p, s)
  PROVE  Debiting' \subseteq Debiting /\ r \notin Debiting'
<1>1. slot' = [slot EXCEPT ![r] = [s EXCEPT !.at = p]] /\ slot \in [Slots -> Slot]
  BY DEF Typed, DispatchTypeOK, Enter
<1>2. [s EXCEPT !.at = p].at = p
  BY DEF Slot
<1>3. slot'[r].at # "debit" /\ \A q \in Slots : q # r => slot'[q] = slot[q]
  BY <1>1, <1>2
<1> QED BY <1>3 DEF Debiting

LEMMA DoneElsewhere ==
  ASSUME Typed, NEW r \in Slots, Done(r)
  PROVE  Debiting' \subseteq Debiting
<1>1. slot'[r] = Idle /\ \A q \in Slots : q # r => slot'[q] = slot[q]
  BY DEF Typed, DispatchTypeOK, Done
<1> QED BY <1>1, IdleTyped DEF Debiting

LEMMA QuotaInit == Init => Quota
<1>1. ASSUME Init, NEW q \in Quotas, key = [quota |-> q, remaining |-> q, reset |-> Day(clock)]
      PROVE  Quota
  <2>1. key.remaining = key.quota /\ key.quota \in Nat /\ key.quota > 0
    BY <1>1
  <2> QED BY <1>1, <2>1 DEF Init, Quota
<1> QED BY <1>1 DEF Init

LEMMA QuotaStep == Typed /\ Quota /\ [Next]_vars => Quota'
<1> SUFFICES ASSUME Typed, Quota, [Next]_vars PROVE Quota'
  OBVIOUS
<1>k. key \in KeyRow /\ key.quota \in Nat /\ key.quota > 0 /\ key.remaining \in Nat /\ passed \in Nat
  BY DEF Typed, DispatchTypeOK, KeyRow
<1>1. ASSUME NEW r \in Slots, Arrive(r) PROVE Quota'
  <2> DEFINE s == [Idle EXCEPT !.day = Day(clock)]
  <2>1. s \in Slot
    <3>1. Day(clock) \in Nat
      BY DayTyped DEF Typed, DispatchTypeOK
    <3> QED BY <3>1 DEF Idle, Slot, Places, NoRow, ScriptRow
  <2>2. Enter(r, "day", s) /\ key' = key /\ passed' = passed
    BY <1>1 DEF Arrive
  <2> HIDE DEF s
  <2> QED BY <2>1, <2>2, EnterElsewhere, QuotaKept
<1>2. ASSUME NEW r \in Slots, CheckDay(r) PROVE Quota'
  <2> DEFINE s == [Idle EXCEPT !.day = Day(clock)]
  <2>1. s \in Slot
    <3>1. Day(clock) \in Nat
      BY DayTyped DEF Typed, DispatchTypeOK
    <3> QED BY <3>1 DEF Idle, Slot, Places, NoRow, ScriptRow
  <2>2. /\ Enter(r, "quota", Idle) \/ Enter(r, "refill", s)
        /\ key' = key /\ passed' = passed
    BY <1>2 DEF CheckDay
  <2> HIDE DEF s
  <2>3. Debiting' \subseteq Debiting
    BY <2>1, <2>2, IdleTyped, EnterElsewhere
  <2> QED BY <2>2, <2>3, QuotaKept
<1>3. ASSUME NEW r \in Slots, Refill(r) PROVE Quota'
  <2>1. key'.remaining = key'.quota /\ key'.quota \in Nat /\ key'.quota > 0 /\ passed' = 0
    BY <1>3, <1>k DEF Refill
  <2> QED BY <2>1, QuotaFull
<1>4. ASSUME NEW r \in Slots, CheckQuota(r) PROVE Quota'
  <2>1. /\ key' = key /\ passed' = passed
        /\ key.remaining = 0 => Done(r)
    BY <1>4, <1>k DEF CheckQuota
  <2> QED BY <2>1, DoneElsewhere, QuotaKept
<1>5. ASSUME NEW r \in Slots, Debit(r) PROVE Quota'
  <2>1. /\ Debiting' \subseteq Debiting /\ r \in Debiting /\ r \notin Debiting'
        /\ passed' = passed + 1 /\ Debiting \subseteq Slots
        /\ key'.quota = key.quota
        /\ key'.remaining = IF key.remaining > 0 THEN key.remaining - 1 ELSE key.remaining
    <3>1. Enter(r, "script", Idle) /\ slot[r].at = "debit"
      BY <1>5 DEF Debit
    <3>2. Debiting' \subseteq Debiting /\ r \notin Debiting'
      BY <3>1, IdleTyped, EnterElsewhere
    <3>3. r \in Debiting /\ Debiting \subseteq Slots
      BY <3>1 DEF Debiting
    <3> QED BY <1>5, <1>k, <3>2, <3>3 DEF Debit, KeyRow
  <2>2. /\ Cardinality(Debiting) \in Nat /\ Cardinality(Debiting') \in Nat /\ Cardinality(Slots) \in Nat
        /\ Cardinality(Debiting') <= Cardinality(Debiting) - 1
        /\ Cardinality(Debiting') <= Cardinality(Slots) - 1
    BY <2>1, SlotCount
  <2> QED BY <1>k, <2>1, <2>2 DEF Quota
<1>6. ASSUME NEW r \in Slots, Route(r) PROVE Quota'
  <2>1. key' = key /\ passed' = passed /\ (Done(r) \/ Enter(r, "fetch", Idle))
    BY <1>6 DEF Route
  <2>2. Debiting' \subseteq Debiting
    BY <2>1, IdleTyped, DoneElsewhere, EnterElsewhere
  <2> QED BY <2>1, <2>2, QuotaKept
<1>7. ASSUME NEW r \in Slots, Answer(r) PROVE Quota'
  <2> PICK failed \in BOOLEAN : Enter(r, "judge", [Idle EXCEPT !.failed = failed, !.now = clock])
    BY <1>7 DEF Answer
  <2> DEFINE s == [Idle EXCEPT !.failed = failed, !.now = clock]
  <2>1. s \in Slot
    BY DEF Idle, Slot, Places, NoRow, ScriptRow, Typed, DispatchTypeOK
  <2>2. Enter(r, "judge", s)
    OBVIOUS
  <2>3. key' = key /\ passed' = passed
    BY <1>7 DEF Answer
  <2> HIDE DEF s
  <2> QED BY <2>1, <2>2, <2>3, EnterElsewhere, QuotaKept
<1>8. ASSUME NEW r \in Slots, Judge(r) PROVE Quota'
  <2> DEFINE s == [Idle EXCEPT !.row = Verdict(r)]
  <2>1. s \in Slot
    BY VerdictTyped DEF Idle, Slot, Places
  <2>2. key' = key /\ passed' = passed /\ (Done(r) \/ Enter(r, "write", s))
    BY <1>8 DEF Judge
  <2> HIDE DEF s
  <2>3. Debiting' \subseteq Debiting
    BY <2>1, <2>2, DoneElsewhere, EnterElsewhere
  <2> QED BY <2>2, <2>3, QuotaKept
<1>9. ASSUME NEW r \in Slots, Write(r) \/ Leave(r) PROVE Quota'
  <2>1. key' = key /\ passed' = passed /\ Done(r)
    BY <1>9 DEF Write, Leave
  <2> QED BY <2>1, DoneElsewhere, QuotaKept
<1>10. CASE IssueKey
  <2>1. key'.remaining = key'.quota /\ key'.quota \in Nat /\ key'.quota > 0 /\ passed' = 0
    BY <1>10 DEF IssueKey
  <2> QED BY <2>1, QuotaFull
<1>11. CASE Tick \/ UNCHANGED vars
  <2>1. key' = key /\ passed' = passed /\ Debiting' = Debiting
    BY <1>11 DEF Tick, vars, Debiting
  <2> QED BY <2>1, QuotaKept
<1> QED BY <1>1, <1>2, <1>3, <1>4, <1>5, <1>6, <1>7, <1>8, <1>9, <1>10, <1>11 DEF Next, Request

\* verifyAuth lets through the quota and at most one request more for every other
\* request that is under way with it.
THEOREM QuotaCorrect == Spec => []QuotaBounded
<1>1. Typed /\ Quota => QuotaBounded
  <2> SUFFICES ASSUME Typed, Quota PROVE QuotaBounded
    OBVIOUS
  <2>1. key.quota \in Nat /\ key.remaining \in Nat /\ passed \in Nat
    BY DEF Typed, DispatchTypeOK, KeyRow
  <2>2. Cardinality(Slots) \in Nat /\ Cardinality(Slots) >= 1
    BY FS_CardinalityType, FS_EmptySet
  <2>3. Cardinality(Debiting) \in Nat
    <3>1. Debiting \subseteq Slots
      BY DEF Debiting
    <3> QED BY <3>1, SlotCount
  <2> QED BY <2>1, <2>2, <2>3 DEF Quota, QuotaBounded
<1>2. Init => Typed /\ Quota
  BY TypedInit, QuotaInit
<1>3. Typed /\ Quota /\ [Next]_vars => (Typed /\ Quota)'
  BY TypedStep, QuotaStep
<1> QED BY <1>1, <1>2, <1>3, PTL DEF Spec

-----------------------------------------------------------------------------
(* The breaker *)

\* Covered, of any set of failures.
CoveredIn(F, w) == {f \in F : f.now - w <= Window /\ f.seen >= w}

\* The count of a row is made of failures that its window covers.
Backed(F, row) == row.count <= Cardinality(CoveredIn(F, row.start))

\* An opening until u has its cause in F, no later than at time t.
Caused(F, t, u) ==
  u # 0 => \E w \in 1 .. t :
             /\ Cardinality(CoveredIn(F, w)) >= Threshold
             /\ \E f \in CoveredIn(F, w) : u = f.seen + Cooldown

Sound(F, t, row) == row.start <= t /\ Backed(F, row) /\ Caused(F, t, row.until)

\* The row and every row that is about to be written over it are sound, a request
\* was answered in the past, and no failure is counted twice.
Causes ==
  /\ Sound(failures, clock, script)
  /\ \A r \in Slots : Sound(failures, clock, slot[r].row)
  /\ \A r \in Slots : slot[r].at = "judge" => slot[r].now \in 1 .. clock
  /\ \A f \in failures : f.id <= Cardinality(failures)

\* More failures cover no less.
LEMMA CoveredGrows ==
  ASSUME NEW F, NEW G, IsFiniteSet(G), F \subseteq G, NEW w
  PROVE  /\ CoveredIn(F, w) \subseteq CoveredIn(G, w)
         /\ IsFiniteSet(CoveredIn(F, w)) /\ IsFiniteSet(CoveredIn(G, w))
         /\ Cardinality(CoveredIn(F, w)) \in Nat
         /\ Cardinality(CoveredIn(G, w)) \in Nat
         /\ Cardinality(CoveredIn(F, w)) <= Cardinality(CoveredIn(G, w))
<1>1. CoveredIn(F, w) \subseteq CoveredIn(G, w) /\ CoveredIn(G, w) \subseteq G
  BY DEF CoveredIn
<1>2. IsFiniteSet(CoveredIn(G, w))
  BY <1>1, FS_Subset
<1>3. IsFiniteSet(CoveredIn(F, w)) /\ Cardinality(CoveredIn(F, w)) <= Cardinality(CoveredIn(G, w))
  BY <1>1, <1>2, FS_Subset
<1> QED BY <1>1, <1>2, <1>3, FS_CardinalityType

\* A row stays sound while failures are added and time passes.
LEMMA SoundGrows ==
  ASSUME NEW F, NEW G, IsFiniteSet(G), F \subseteq G,
         NEW t \in Nat, NEW u \in Nat, t <= u,
         NEW row \in ScriptRow, Sound(F, t, row)
  PROVE  Sound(G, u, row)
<1>0. row.start \in Nat /\ row.count \in Nat
  BY DEF ScriptRow
<1>1. row.start <= u
  BY <1>0 DEF Sound
<1>2. Backed(G, row)
  BY <1>0, CoveredGrows DEF Sound, Backed
<1>3. ASSUME row.until # 0 PROVE Caused(G, u, row.until)
  <2> PICK w \in 1 .. t : /\ Cardinality(CoveredIn(F, w)) >= Threshold
                          /\ \E f \in CoveredIn(F, w) : row.until = f.seen + Cooldown
    BY <1>3 DEF Sound, Caused
  <2>1. w \in 1 .. u
    OBVIOUS
  <2>0. /\ CoveredIn(F, w) \subseteq CoveredIn(G, w)
        /\ Cardinality(CoveredIn(F, w)) \in Nat /\ Cardinality(CoveredIn(G, w)) \in Nat
        /\ Cardinality(CoveredIn(F, w)) <= Cardinality(CoveredIn(G, w))
    BY CoveredGrows
  <2>2. Cardinality(CoveredIn(G, w)) >= Threshold
    BY <2>0
  <2>3. \E f \in CoveredIn(G, w) : row.until = f.seen + Cooldown
    BY <2>0
  <2> QED BY <2>1, <2>2, <2>3 DEF Caused
<1> QED BY <1>1, <1>2, <1>3 DEF Sound, Caused

LEMMA NoRowSound ==
  ASSUME NEW F, IsFiniteSet(F), NEW t \in Nat
  PROVE  Sound(F, t, NoRow)
<1>1. Cardinality(CoveredIn(F, 0)) \in Nat
  BY CoveredGrows
<1> QED BY <1>1 DEF Sound, NoRow, Backed, Caused

\* What updateCircuit writes for a failure, and for a success, is sound.
LEMMA VerdictSound ==
  ASSUME Typed, Causes, NEW r \in Slots, slot[r].at = "judge", NEW G,
         G = IF slot[r].failed THEN failures \cup {Failure(r)} ELSE failures
  PROVE  /\ Sound(G, clock, Verdict(r))
         /\ \A f \in G : f.id <= Cardinality(G)
         /\ IsFiniteSet(G) /\ failures \subseteq G
<1> DEFINE row == Rolled(slot[r].now)
           s   == row.start
<1>1. /\ clock \in Nat /\ slot[r].now \in 1 .. clock /\ slot[r].now \in Nat
      /\ script \in ScriptRow /\ script.start \in Nat /\ script.count \in Nat /\ script.start <= clock
      /\ slot[r].failed \in BOOLEAN
  BY DEF Typed, DispatchTypeOK, Slot, ScriptRow, Causes, Sound
<1>2. /\ row \in ScriptRow /\ row.count < Threshold /\ row.count \in Nat
      /\ s \in 1 .. clock /\ slot[r].now - s <= Window
  <2>1. row \in ScriptRow /\ row.count < Threshold
    BY <1>1, RolledTyped
  <2>2. CASE script.start = 0 \/ slot[r].now - script.start > Window
    BY <1>1, <2>1, <2>2 DEF Rolled, ScriptRow
  <2>3. CASE ~(script.start = 0 \/ slot[r].now - script.start > Window)
    BY <1>1, <2>1, <2>3 DEF Rolled, ScriptRow
  <2> QED BY <2>2, <2>3
<1>3. Cardinality(CoveredIn(failures, s)) \in Nat /\ row.count <= Cardinality(CoveredIn(failures, s))
  <2>1. Cardinality(CoveredIn(failures, s)) \in Nat
    BY CoveredGrows DEF Typed
  <2>2. row.count = 0 \/ row = script
    BY DEF Rolled
  <2>3. CASE row = script
    BY <2>1, <2>3 DEF Causes, Sound, Backed
  <2> QED BY <1>2, <2>1, <2>2, <2>3
<1> HIDE DEF row
<1>4. CASE ~slot[r].failed
  <2>1. G = failures
    BY <1>4
  <2>2. Tallied(r) \in Nat /\ Tallied(r) <= row.count
    BY <1>2, <1>4 DEF Tallied, row
  <2>3. Verdict(r) = [count |-> Tallied(r), start |-> s, until |-> 0]
    BY <1>2, <2>2 DEF Verdict, row
  <2>4. Sound(G, clock, Verdict(r))
    BY <1>1, <1>2, <1>3, <2>1, <2>2, <2>3 DEF Sound, Backed, Caused
  <2> QED BY <2>1, <2>4 DEF Causes, Typed
<1>5. CASE slot[r].failed
  <2> DEFINE f == Failure(r)
  <2>1. /\ f.id = Cardinality(failures) + 1 /\ f.now = slot[r].now /\ f.seen = clock
        /\ Cardinality(failures) \in Nat /\ IsFiniteSet(failures)
    BY FS_CardinalityType DEF Failure, Typed
  <2>2. f \notin failures
    BY <2>1 DEF Causes
  <2> HIDE DEF f
  <2>3. G = failures \cup {f}
    BY <1>5 DEF f
  <2>4. IsFiniteSet(G) /\ Cardinality(G) = Cardinality(failures) + 1
    <3>1. IsFiniteSet(failures \cup {f}) /\ Cardinality(failures \cup {f}) = Cardinality(failures) + 1
      BY <2>1, <2>2, FS_AddElement
    <3> QED BY <2>3, <3>1
  <2>5. \A g \in G : g.id <= Cardinality(G)
    <3>1. \A g \in failures : g.id \in Nat
      BY DEF Typed, DispatchTypeOK
    <3> QED BY <2>1, <2>3, <2>4, <3>1 DEF Causes
  <2>6. f \in CoveredIn(G, s)
    BY <1>1, <1>2, <2>1, <2>3 DEF CoveredIn
  <2>7. CoveredIn(G, s) = CoveredIn(failures, s) \cup {f} /\ f \notin CoveredIn(failures, s)
    BY <2>2, <2>3, <2>6 DEF CoveredIn
  <2>8. Cardinality(CoveredIn(G, s)) = Cardinality(CoveredIn(failures, s)) + 1
    <3>1. IsFiniteSet(CoveredIn(failures, s))
      BY <2>1, CoveredGrows
    <3> QED BY <2>7, <3>1, FS_AddElement
  <2>9. Tallied(r) = row.count + 1
    BY <1>5 DEF Tallied, row
  <2> HIDE DEF s
  <2>c. Cardinality(CoveredIn(G, s)) \in Nat /\ Tallied(r) <= Cardinality(CoveredIn(G, s))
    BY <1>2, <1>3, <2>8, <2>9
  <2>10. CASE Tallied(r) >= Threshold
    <3>1. Verdict(r) = [count |-> 0, start |-> s, until |-> clock + Cooldown]
      BY <2>10 DEF Verdict, row, s
    <3>2. s \in 1 .. clock /\ Cardinality(CoveredIn(G, s)) >= Threshold
      BY <1>2, <1>3, <2>8, <2>9, <2>10
    <3>3. \E g \in CoveredIn(G, s) : clock + Cooldown = g.seen + Cooldown
      BY <2>1, <2>6
    <3>4. Caused(G, clock, clock + Cooldown)
      BY <3>2, <3>3 DEF Caused
    <3>5. Backed(G, Verdict(r)) /\ Verdict(r).start <= clock
      BY <1>1, <3>1, <3>2, <2>c DEF Backed
    <3>6. Sound(G, clock, Verdict(r))
      BY <3>1, <3>4, <3>5 DEF Sound
    <3> QED BY <2>3, <2>4, <2>5, <3>6
  <2>11. CASE ~(Tallied(r) >= Threshold)
    <3>1. Verdict(r) = [count |-> Tallied(r), start |-> s, until |-> 0]
      BY <2>11 DEF Verdict, row, s
    <3>2. Sound(G, clock, Verdict(r))
      BY <1>1, <1>2, <2>c, <3>1 DEF Sound, Backed, Caused
    <3> QED BY <2>3, <2>4, <2>5, <3>2
  <2> QED BY <2>10, <2>11
<1> QED BY <1>1, <1>4, <1>5

LEMMA CausesInit == Init => Causes
<1> SUFFICES ASSUME Init PROVE Causes
  OBVIOUS
<1>1. IsFiniteSet(failures) /\ Cardinality(failures) = 0
  BY FS_EmptySet DEF Init
<1>2. Sound(failures, clock, NoRow)
  BY <1>1, NoRowSound DEF Init
<1> QED BY <1>1, <1>2, IdleTyped DEF Init, Causes

\* A step that adds no failure keeps Causes when the rows it writes are sound.
LEMMA CausesKept ==
  ASSUME Typed, Causes, NEW r \in Slots, NEW x \in Slot,
         slot' = [slot EXCEPT ![r] = x], failures' = failures, clock' = clock,
         Sound(failures, clock, script'), Sound(failures, clock, x.row),
         x.at = "judge" => x.now \in 1 .. clock
  PROVE  Causes'
<1>1. \A q \in Slots : slot'[q] = IF q = r THEN x ELSE slot[q]
  BY DEF Typed, DispatchTypeOK
<1> QED BY <1>1 DEF Causes

\* Most steps carry no row at all.
LEMMA CausesIdle ==
  ASSUME Typed, Causes, NEW r \in Slots, NEW p \in Places \ {"judge"}, NEW d \in Nat,
         Done(r) \/ Enter(r, p, [Idle EXCEPT !.day = d]) \/ Enter(r, p, Idle),
         failures' = failures, clock' = clock, Sound(failures, clock, script')
  PROVE  Causes'
<1>1. Sound(failures, clock, NoRow)
  BY NoRowSound DEF Typed, DispatchTypeOK
<1> DEFINE X == {Idle, [[Idle EXCEPT !.day = d] EXCEPT !.at = p], [Idle EXCEPT !.at = p]}
<1>2. \E x \in X : slot' = [slot EXCEPT ![r] = x]
  BY DEF Done, Enter
<1>3. \A x \in X : x \in Slot /\ x.row = NoRow /\ x.at # "judge"
  <2>1. /\ Idle \in Slot /\ Idle.row = NoRow /\ Idle.at # "judge"
        /\ p \in Places /\ p # "judge"
    BY IdleTyped
  <2>2. [Idle EXCEPT !.day = d] \in Slot /\ [Idle EXCEPT !.day = d].row = NoRow
    BY <2>1 DEF Slot
  <2>3. \A i \in Slot : /\ [i EXCEPT !.at = p] \in Slot /\ [i EXCEPT !.at = p].row = i.row
                        /\ [i EXCEPT !.at = p].at = p
    BY <2>1 DEF Slot
  <2> QED BY <2>1, <2>2, <2>3
<1> HIDE DEF X
<1> QED BY <1>1, <1>2, <1>3, CausesKept

LEMMA CausesStep == Typed /\ Causes /\ [Next]_vars => Causes'
<1> SUFFICES ASSUME Typed, Causes, [Next]_vars PROVE Causes'
  OBVIOUS
<1>t. /\ clock \in Nat /\ clock >= 1 /\ Day(clock) \in Nat /\ IsFiniteSet(failures)
      /\ script \in ScriptRow /\ slot \in [Slots -> Slot]
  BY DayTyped DEF Typed, DispatchTypeOK
<1>s. Sound(failures, clock, script)
  BY DEF Causes
<1>1. ASSUME NEW r \in Slots, Arrive(r) PROVE Causes'
  <2>1. /\ Enter(r, "day", [Idle EXCEPT !.day = Day(clock)])
        /\ failures' = failures /\ clock' = clock /\ script' = script
    BY <1>1 DEF Arrive
  <2>2. "day" \in Places \ {"judge"}
    BY DEF Places
  <2> QED BY <1>t, <1>s, <2>1, <2>2, CausesIdle
<1>2. ASSUME NEW r \in Slots, CheckDay(r) PROVE Causes'
  <2>1. /\ Enter(r, "quota", Idle) \/ Enter(r, "refill", [Idle EXCEPT !.day = Day(clock)])
        /\ failures' = failures /\ clock' = clock /\ script' = script
    BY <1>2 DEF CheckDay
  <2>2. {"quota", "refill"} \subseteq Places \ {"judge"}
    BY DEF Places
  <2> QED BY <1>t, <1>s, <2>1, <2>2, CausesIdle
<1>3. ASSUME NEW r \in Slots, Refill(r) \/ CheckQuota(r) \/ Debit(r) \/ Route(r) PROVE Causes'
  <2>1. /\ \/ Done(r) \/ Enter(r, "quota", Idle) \/ Enter(r, "debit", Idle)
           \/ Enter(r, "script", Idle) \/ Enter(r, "fetch", Idle)
        /\ failures' = failures /\ clock' = clock /\ script' = script
    BY <1>3 DEF Refill, CheckQuota, Debit, Route
  <2>2. {"quota", "debit", "script", "fetch"} \subseteq Places \ {"judge"}
    BY DEF Places
  <2> QED BY <1>t, <1>s, <2>1, <2>2, CausesIdle
<1>4. ASSUME NEW r \in Slots, Answer(r) PROVE Causes'
  <2> PICK failed \in BOOLEAN : Enter(r, "judge", [Idle EXCEPT !.failed = failed, !.now = clock])
    BY <1>4 DEF Answer
  <2> DEFINE a == [Idle EXCEPT !.failed = failed, !.now = clock]
             x == [a EXCEPT !.at = "judge"]
  <2>a. a \in Slot /\ a.row = NoRow /\ a.now \in 1 .. clock
    <3>1. a \in Slot
      BY <1>t DEF Idle, Slot, Places, NoRow, ScriptRow
    <3>2. a.row = NoRow /\ a.now = clock
      BY DEF Idle
    <3> HIDE DEF a
    <3> QED BY <1>t, <3>1, <3>2
  <2>2. slot' = [slot EXCEPT ![r] = x]
    BY DEF Enter
  <2> HIDE DEF a
  <2>1. x \in Slot /\ x.row = NoRow /\ x.now \in 1 .. clock
    BY <2>a DEF Slot, Places
  <2>3. failures' = failures /\ clock' = clock /\ script' = script
    BY <1>4 DEF Answer
  <2>4. Sound(failures, clock, NoRow)
    BY <1>t, NoRowSound
  <2>5. Sound(failures, clock, script') /\ Sound(failures, clock, x.row)
    BY <1>s, <2>1, <2>3, <2>4
  <2> HIDE DEF x
  <2> QED BY <2>1, <2>2, <2>3, <2>5, CausesKept
<1>5. ASSUME NEW r \in Slots, Judge(r), Done(r), failures' = failures PROVE Causes'
  <2>1. clock' = clock /\ script' = script
    BY <1>5 DEF Judge
  <2>2. "idle" \in Places \ {"judge"}
    BY DEF Places
  <2> QED BY <1>5, <1>t, <1>s, <2>1, <2>2, CausesIdle
<1>6. ASSUME NEW r \in Slots, Judge(r), Enter(r, "write", [Idle EXCEPT !.row = Verdict(r)]),
             failures' = IF slot[r].failed THEN failures \cup {Failure(r)} ELSE failures
      PROVE  Causes'
  <2> DEFINE x == [[Idle EXCEPT !.row = Verdict(r)] EXCEPT !.at = "write"]
  <2>1. x.row = Verdict(r) /\ x.at = "write"
    BY DEF Idle
  <2>2. slot' = [slot EXCEPT ![r] = x]
    BY <1>6 DEF Enter
  <2>3. slot[r].at = "judge" /\ clock' = clock /\ script' = script
    BY <1>6 DEF Judge
  <2> HIDE DEF x
  <2>4. /\ Sound(failures', clock, Verdict(r))
        /\ \A f \in failures' : f.id <= Cardinality(failures')
        /\ IsFiniteSet(failures') /\ failures \subseteq failures'
    BY <1>6, <2>3, VerdictSound
  <2>5. Sound(failures', clock, script)
    BY <1>t, <1>s, <2>4, SoundGrows
  <2>6. \A q \in Slots : Sound(failures', clock, slot[q].row)
    <3>1. \A q \in Slots : slot[q].row \in ScriptRow
      BY <1>t DEF Slot
    <3>2. \A q \in Slots : Sound(failures, clock, slot[q].row)
      BY DEF Causes
    <3> QED BY <1>t, <2>4, <3>1, <3>2, SoundGrows
  <2>7. \A q \in Slots : slot'[q] = IF q = r THEN x ELSE slot[q]
    BY <1>t, <2>2
  <2> QED BY <2>1, <2>3, <2>4, <2>5, <2>6, <2>7 DEF Causes
<1>7. ASSUME NEW r \in Slots, Write(r) PROVE Causes'
  <2>1. slot[r].row \in ScriptRow /\ Sound(failures, clock, slot[r].row)
    BY <1>t DEF Slot, Causes
  <2>2. /\ script' = [slot[r].row EXCEPT !.until = IF @ = 0 THEN script.until ELSE @]
        /\ Done(r) /\ failures' = failures /\ clock' = clock
    BY <1>7 DEF Write
  <2>3. /\ script'.start = slot[r].row.start /\ script'.count = slot[r].row.count
        /\ script'.until \in {slot[r].row.until, script.until}
    BY <2>1, <2>2 DEF ScriptRow
  <2>4. Sound(failures, clock, script')
    BY <1>s, <2>1, <2>3 DEF Sound, Backed
  <2>5. "idle" \in Places \ {"judge"}
    BY DEF Places
  <2> QED BY <1>t, <2>2, <2>4, <2>5, CausesIdle
<1>8. ASSUME NEW r \in Slots, Leave(r) PROVE Causes'
  <2>1. Done(r) /\ failures' = failures /\ clock' = clock /\ script' = script
    BY <1>8 DEF Leave
  <2>2. "idle" \in Places \ {"judge"}
    BY DEF Places
  <2> QED BY <1>t, <1>s, <2>1, <2>2, CausesIdle
<1>9. CASE IssueKey \/ UNCHANGED vars
  BY <1>9 DEF IssueKey, vars, Causes
<1>10. CASE Tick
  <2>1. clock' = clock + 1 /\ failures' = failures /\ script' = script /\ slot' = slot
    BY <1>10 DEF Tick
  <2>2. Sound(failures, clock + 1, script)
    BY <1>t, <1>s, SoundGrows
  <2>3. \A q \in Slots : Sound(failures, clock + 1, slot[q].row)
    <3>1. \A q \in Slots : slot[q].row \in ScriptRow
      BY <1>t DEF Slot
    <3>2. \A q \in Slots : Sound(failures, clock, slot[q].row)
      BY DEF Causes
    <3> QED BY <1>t, <3>1, <3>2, SoundGrows
  <2>4. \A q \in Slots : slot[q].at = "judge" => slot[q].now \in 1 .. (clock + 1)
    BY <1>t DEF Causes
  <2> QED BY <2>1, <2>2, <2>3, <2>4 DEF Causes
<1>11. ASSUME NEW r \in Slots, Judge(r) PROVE Causes'
  BY <1>5, <1>6, <1>11 DEF Judge
<1> QED BY <1>1, <1>2, <1>3, <1>4, <1>7, <1>8, <1>9, <1>10, <1>11 DEF Next, Request

\* updateCircuit opens the breaker only on Threshold failures of one window, however
\* the reads and writes of its runs fall between one another.
THEOREM OpeningCaused == Spec => []OpensForCause
<1>1. Causes => OpensForCause
  <2>1. \A w : Covered(w) = CoveredIn(failures, w)
    BY DEF Covered, CoveredIn
  <2> QED BY <2>1 DEF Causes, Sound, Caused, OpensForCause
<1>2. Init => Typed /\ Causes
  BY TypedInit, CausesInit
<1>3. Typed /\ Causes /\ [Next]_vars => (Typed /\ Causes)'
  BY TypedStep, CausesStep
<1> QED BY <1>1, <1>2, <1>3, PTL DEF Spec

=============================================================================
