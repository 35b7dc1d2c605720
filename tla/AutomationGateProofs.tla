-------------------------- MODULE AutomationGateProofs --------------------------
(***************************************************************************)
(* Proofs about AutomationGate, for any evaluators, rules, events, limits  *)
(* and durations: the five properties of the run `automation' follow from  *)
(* one inductive invariant, which says what the object's memory and its    *)
(* storage, either of which may be the state it decides with, still know   *)
(* of what it has acknowledged, and how the executions granted since a     *)
(* window was opened are accounted for.                                    *)
(***************************************************************************)
EXTENDS AutomationGate, FiniteSetTheorems, TLAPS

-----------------------------------------------------------------------------
(* The inductive invariant *)

Working == {"act", "insert", "stats", "record"}

\* An evaluator has an event, and a rule from the check to the record.
EvalOK ==
  \A e \in Evaluators :
    /\ eval[e].at # "idle" => eval[e].event \in Events
    /\ eval[e].at \in Working => eval[e].rule \in Rules

At(r, place) == {e \in Evaluators : eval[e].rule = r /\ eval[e].at = place}

Over(S) == clock - S.start > Window

\* S knows what was acknowledged, except for keys whose time is up.
Keeps(S) ==
  /\ S.last = promise.last /\ S.limits = promise.limits
  /\ \A k \in DedupKeys :
       \/ promise.keys[k] = 0
       \/ S.dedup[k] = promise.keys[k] + DedupTtl
       \/ clock >= promise.keys[k] + DedupTtl

\* An evaluator that is about to record an execution has counted it in D1.
Counted(S) == \A r \in Rules : S.count[r] + Cardinality(At(r, "record")) <= runs[r]

Fine(S) == Keeps(S) /\ Counted(S)

Blank ==
  /\ promise.last = [r \in Rules |-> 0] /\ promise.keys = [k \in DedupKeys |-> 0]
  /\ promise.limits = [r \in Rules |-> Defaults]

Stored ==
  /\ mem # NoState => Fine(mem)
  /\ disk # NoState => Fine(disk)
  /\ disk = NoState => Blank

\* Memory and storage are of the same window; or the window in memory was not saved:
\* then the stored one is over, and in the new one nothing was reported yet.
SameWindow ==
  mem # NoState =>
    \/ disk # NoState /\ mem.count = disk.count /\ mem.start = disk.start
    \/ /\ disk # NoState => Over(disk) /\ mem.start # disk.start
       /\ \A r \in Rules : mem.count[r] = 0

\* What was granted since the window of the history was opened is counted in S, or
\* under way, or excused; and excused altogether once an eviction has brought back a
\* window that was over.
Serves(S) ==
  /\ ~Over(S) => window.from <= S.start
  /\ \A r \in Rules :
       /\ window.granted[r] <=
            S.count[r] + Cardinality(InFlight(r)) + window.lost[r] + window.orphans[r]
       /\ Over(S) /\ clock - window.from <= Window =>
            window.granted[r] <= window.lost[r] + window.orphans[r]

WindowOK == window.from <= clock /\ Serves(Current) /\ WindowBounded

Written ==
  \A r \in Rules :
    /\ Cardinality(At(r, "record")) <= runs[r]
    /\ runs[r] + Cardinality(At(r, "stats")) <= rows[r]

IInv == GateTypeOK /\ EvalOK /\ Stored /\ SameWindow /\ Written /\ WindowOK

-----------------------------------------------------------------------------
(* Sets of evaluators *)

\* How many there are in two sets that differ in one evaluator at most.
LEMMA OneMoves ==
  ASSUME NEW A, NEW B, A \subseteq Evaluators, B \subseteq Evaluators,
         NEW e \in Evaluators, \A d \in Evaluators : d # e => (d \in A <=> d \in B)
  PROVE  /\ Cardinality(A) \in Nat /\ Cardinality(B) \in Nat /\ Cardinality(Evaluators) \in Nat
         /\ Cardinality(B) <= Cardinality(Evaluators)
         /\ (e \in A <=> e \in B) => Cardinality(B) = Cardinality(A)
         /\ e \notin A /\ e \in B => Cardinality(B) = Cardinality(A) + 1
         /\ e \in A /\ e \notin B => Cardinality(B) = Cardinality(A) - 1
<1>1. IsFiniteSet(Evaluators) /\ IsFiniteSet(A) /\ IsFiniteSet(B)
  BY GateAssumption, FS_Subset
<1>2. /\ Cardinality(A) \in Nat /\ Cardinality(B) \in Nat /\ Cardinality(Evaluators) \in Nat
      /\ Cardinality(B) <= Cardinality(Evaluators)
  BY <1>1, FS_CardinalityType, FS_Subset
<1>3. CASE e \in A <=> e \in B
  <2>1. A = B
    BY <1>3
  <2> QED BY <2>1, <1>2
<1>4. CASE e \notin A /\ e \in B
  <2>1. B = A \cup {e}
    BY <1>4
  <2>2. Cardinality(A \cup {e}) = Cardinality(A) + 1
    BY <1>1, <1>4, FS_AddElement
  <2> QED BY <2>1, <2>2, <1>2, <1>4
<1>5. CASE e \in A /\ e \notin B
  <2>1. B = A \ {e}
    BY <1>5
  <2>2. Cardinality(A \ {e}) = Cardinality(A) - 1
    BY <1>1, <1>5, FS_RemoveElement
  <2> QED BY <2>1, <2>2, <1>2, <1>5
<1> QED BY <1>3, <1>4, <1>5

\* There are numbers of them.
LEMMA Numbers ==
  ASSUME NEW r
  PROVE  /\ Cardinality(InFlight(r)) \in Nat /\ Cardinality(At(r, "record")) \in Nat
         /\ Cardinality(At(r, "stats")) \in Nat /\ Cardinality(Evaluators) \in Nat
         /\ Cardinality(InFlight(r)) <= Cardinality(Evaluators)
<1>1. /\ InFlight(r) \subseteq Evaluators
      /\ At(r, "record") \subseteq Evaluators /\ At(r, "stats") \subseteq Evaluators
  BY DEF InFlight, At
<1> QED
  BY <1>1, GateAssumption, FS_CardinalityType, FS_Subset

Busy(v, r)          == v.rule = r /\ v.at \in Working
Stands(v, r, place) == v.rule = r /\ v.at = place

\* What the step of one evaluator does to these numbers.
LEMMA Moved ==
  ASSUME GateTypeOK, NEW e \in Evaluators, NEW x, eval' = [eval EXCEPT ![e] = x], NEW r
  PROVE  /\ eval'[e] = x /\ \A d \in Evaluators : d # e => eval'[d] = eval[d]
         /\ Cardinality(InFlight(r)') \in Nat /\ Cardinality(At(r, "record")') \in Nat
         /\ Cardinality(At(r, "stats")') \in Nat
         /\ Cardinality(InFlight(r)') <= Cardinality(Evaluators)
         /\ (Busy(eval[e], r) <=> Busy(x, r)) =>
              Cardinality(InFlight(r)') = Cardinality(InFlight(r))
         /\ Busy(eval[e], r) /\ ~Busy(x, r) =>
              Cardinality(InFlight(r)') = Cardinality(InFlight(r)) - 1
         /\ \A place \in {"stats", "record"} :
              /\ (Stands(eval[e], r, place) <=> Stands(x, r, place)) =>
                   Cardinality(At(r, place)') = Cardinality(At(r, place))
              /\ Stands(eval[e], r, place) /\ ~Stands(x, r, place) =>
                   Cardinality(At(r, place)') = Cardinality(At(r, place)) - 1
              /\ ~Stands(eval[e], r, place) /\ Stands(x, r, place) =>
                   Cardinality(At(r, place)') = Cardinality(At(r, place)) + 1
<1>1. eval'[e] = x /\ \A d \in Evaluators : d # e => eval'[d] = eval[d]
  BY DEF GateTypeOK
<1>2. /\ InFlight(r) \subseteq Evaluators /\ InFlight(r)' \subseteq Evaluators
      /\ \A d \in Evaluators : d # e => (d \in InFlight(r) <=> d \in InFlight(r)')
      /\ e \in InFlight(r) <=> (eval[e].rule = r /\ eval[e].at \in Working)
      /\ e \in InFlight(r)' <=> (x.rule = r /\ x.at \in Working)
  BY <1>1 DEF InFlight, Working
<1>3. ASSUME NEW place
      PROVE  /\ At(r, place) \subseteq Evaluators /\ At(r, place)' \subseteq Evaluators
             /\ \A d \in Evaluators : d # e => (d \in At(r, place) <=> d \in At(r, place)')
             /\ e \in At(r, place) <=> (eval[e].rule = r /\ eval[e].at = place)
             /\ e \in At(r, place)' <=> (x.rule = r /\ x.at = place)
  BY <1>1 DEF At
<1>4. /\ Cardinality(InFlight(r)') \in Nat /\ Cardinality(InFlight(r)') <= Cardinality(Evaluators)
      /\ (e \in InFlight(r) <=> e \in InFlight(r)') => Cardinality(InFlight(r)') = Cardinality(InFlight(r))
      /\ e \in InFlight(r) /\ e \notin InFlight(r)' =>
           Cardinality(InFlight(r)') = Cardinality(InFlight(r)) - 1
  BY <1>2, OneMoves
<1>5. ASSUME NEW place
      PROVE  /\ Cardinality(At(r, place)') \in Nat
             /\ (e \in At(r, place) <=> e \in At(r, place)') =>
                  Cardinality(At(r, place)') = Cardinality(At(r, place))
             /\ e \notin At(r, place) /\ e \in At(r, place)' =>
                  Cardinality(At(r, place)') = Cardinality(At(r, place)) + 1
             /\ e \in At(r, place) /\ e \notin At(r, place)' =>
                  Cardinality(At(r, place)') = Cardinality(At(r, place)) - 1
  BY <1>3, OneMoves
<1> QED
  BY <1>1, <1>2, <1>3, <1>4, <1>5 DEF Busy, Stands

\* What it does to the number of those that are at the statistics of a rule.
LEMMA MovedStats ==
  ASSUME GateTypeOK, NEW e \in Evaluators, NEW x, eval' = [eval EXCEPT ![e] = x], NEW r
  PROVE  /\ (Stands(eval[e], r, "stats") <=> Stands(x, r, "stats")) =>
              Cardinality(At(r, "stats")') = Cardinality(At(r, "stats"))
         /\ Stands(eval[e], r, "stats") /\ ~Stands(x, r, "stats") =>
              Cardinality(At(r, "stats")') = Cardinality(At(r, "stats")) - 1
         /\ ~Stands(eval[e], r, "stats") /\ Stands(x, r, "stats") =>
              Cardinality(At(r, "stats")') = Cardinality(At(r, "stats")) + 1
<1>1. eval'[e] = x /\ \A d \in Evaluators : d # e => eval'[d] = eval[d]
  BY DEF GateTypeOK
<1>2. /\ At(r, "stats") \subseteq Evaluators /\ At(r, "stats")' \subseteq Evaluators
      /\ \A d \in Evaluators : d # e => (d \in At(r, "stats") <=> d \in At(r, "stats")')
      /\ e \in At(r, "stats") <=> Stands(eval[e], r, "stats")
      /\ e \in At(r, "stats")' <=> Stands(x, r, "stats")
  BY <1>1 DEF At, Stands
<1> QED
  BY <1>2, OneMoves

\* And to the number of those that are to record a firing of it.
LEMMA MovedRecord ==
  ASSUME GateTypeOK, NEW e \in Evaluators, NEW x, eval' = [eval EXCEPT ![e] = x], NEW r
  PROVE  /\ (Stands(eval[e], r, "record") <=> Stands(x, r, "record")) =>
              Cardinality(At(r, "record")') = Cardinality(At(r, "record"))
         /\ Stands(eval[e], r, "record") /\ ~Stands(x, r, "record") =>
              Cardinality(At(r, "record")') = Cardinality(At(r, "record")) - 1
         /\ ~Stands(eval[e], r, "record") /\ Stands(x, r, "record") =>
              Cardinality(At(r, "record")') = Cardinality(At(r, "record")) + 1
<1>1. eval'[e] = x /\ \A d \in Evaluators : d # e => eval'[d] = eval[d]
  BY DEF GateTypeOK
<1>2. /\ At(r, "record") \subseteq Evaluators /\ At(r, "record")' \subseteq Evaluators
      /\ \A d \in Evaluators : d # e => (d \in At(r, "record") <=> d \in At(r, "record")')
      /\ e \in At(r, "record") <=> Stands(eval[e], r, "record")
      /\ e \in At(r, "record")' <=> Stands(x, r, "record")
  BY <1>1 DEF At, Stands
<1> QED
  BY <1>2, OneMoves

\* The same of the evaluators that work for a rule.
LEMMA MovedWork ==
  ASSUME GateTypeOK, NEW e \in Evaluators, NEW x, eval' = [eval EXCEPT ![e] = x], NEW r
  PROVE  /\ (Busy(eval[e], r) <=> Busy(x, r)) =>
              Cardinality(InFlight(r)') = Cardinality(InFlight(r))
         /\ Busy(eval[e], r) /\ ~Busy(x, r) =>
              Cardinality(InFlight(r)') = Cardinality(InFlight(r)) - 1
  BY Moved

-----------------------------------------------------------------------------
(* The states the object decides with *)

\* A state that nothing was stored before knows all that was acknowledged.
LEMMA FreshState ==
  ASSUME GateTypeOK
  PROVE  /\ Fresh \in Gate /\ Fresh # NoState
         /\ \A r \in Rules : Fresh.count[r] = 0 /\ Fresh.last[r] = 0 /\ Fresh.limits[r] = Defaults
         /\ \A k \in DedupKeys : Fresh.dedup[k] = 0
         /\ Written /\ Blank => Fine(Fresh)
<1>1. Fresh \in Gate
  BY GateAssumption DEF Fresh, Gate, GateTypeOK
<1>2. /\ \A r \in Rules : Fresh.count[r] = 0 /\ Fresh.last[r] = 0 /\ Fresh.limits[r] = Defaults
      /\ \A k \in DedupKeys : Fresh.dedup[k] = 0
  BY DEF Fresh
<1>3. ASSUME Written, Blank PROVE Fine(Fresh)
  <2>1. Keeps(Fresh)
    BY <1>3 DEF Blank, Keeps, Fresh
  <2>3. Counted(Fresh)
    <3> SUFFICES ASSUME NEW r \in Rules PROVE Fresh.count[r] + Cardinality(At(r, "record")) <= runs[r]
      BY DEF Counted
    <3>1. runs[r] \in Nat /\ Cardinality(At(r, "record")) \in Nat
      BY Numbers DEF GateTypeOK
    <3> QED
      BY <1>2, <1>3, <3>1 DEF Written
  <2> QED BY <2>1, <2>3 DEF Fine
<1> QED
  BY <1>1, <1>2, <1>3, GateAssumption

\* Whatever loadState returns knows it.
LEMMA CurrentState ==
  ASSUME IInv
  PROVE  Current \in Gate /\ Current # NoState /\ Fine(Current)
<1>1. GateTypeOK /\ Stored /\ Written
  BY DEF IInv
<1>2. CASE mem # NoState
  BY <1>1, <1>2 DEF Current, GateTypeOK, Stored
<1>3. CASE mem = NoState /\ disk # NoState
  BY <1>1, <1>3 DEF Current, GateTypeOK, Stored
<1>4. CASE mem = NoState /\ disk = NoState
  BY <1>1, <1>4, FreshState DEF Current, Stored
<1> QED BY <1>2, <1>3, <1>4

\* And the state whose window was reset.
LEMMA RolledState ==
  ASSUME IInv
  PROVE  /\ Rolled \in Gate
         /\ Rolled.last = Current.last /\ Rolled.limits = Current.limits
         /\ ~WindowOver => Rolled = Current
         /\ WindowOver => Rolled.start = clock /\ \A r \in Rules : Rolled.count[r] = 0
         /\ Fine(Rolled)
<1> DEFINE kept == [k \in DedupKeys |-> IF clock >= Current.dedup[k] THEN 0 ELSE Current.dedup[k]]
<1>1. Current \in Gate /\ Fine(Current) /\ GateTypeOK /\ Written
  BY CurrentState DEF IInv
<1>2. CASE ~WindowOver
  BY <1>1, <1>2 DEF Rolled
<1>3. CASE WindowOver
  <2>1. Rolled = [Current EXCEPT !.count = Fresh.count, !.start = clock, !.dedup = kept]
    BY <1>3 DEF Rolled
  <2>2. kept \in [DedupKeys -> Nat]
    BY <1>1 DEF Gate
  <2>3. Fresh.count \in [Rules -> Nat] /\ clock \in Nat /\ \A r \in Rules : Fresh.count[r] = 0
    BY <1>1, FreshState DEF Gate, GateTypeOK
  <2> HIDE DEF kept
  <2>4. /\ Rolled \in Gate
        /\ Rolled.last = Current.last /\ Rolled.limits = Current.limits
        /\ Rolled.count = Fresh.count /\ Rolled.start = clock /\ Rolled.dedup = kept
    BY <1>1, <2>1, <2>2, <2>3 DEF Gate
  <2>5. Keeps(Rolled)
    <3> SUFFICES ASSUME NEW k \in DedupKeys
                 PROVE  \/ promise.keys[k] = 0
                        \/ Rolled.dedup[k] = promise.keys[k] + DedupTtl
                        \/ clock >= promise.keys[k] + DedupTtl
      BY <1>1, <2>4 DEF Keeps, Fine
    <3>1. \/ promise.keys[k] = 0
          \/ Current.dedup[k] = promise.keys[k] + DedupTtl
          \/ clock >= promise.keys[k] + DedupTtl
      BY <1>1 DEF Fine, Keeps
    <3>2. Rolled.dedup[k] = IF clock >= Current.dedup[k] THEN 0 ELSE Current.dedup[k]
      BY <2>4 DEF kept
    <3> QED
      BY <3>1, <3>2
  <2>7. Counted(Rolled)
    <3> SUFFICES ASSUME NEW r \in Rules PROVE Rolled.count[r] + Cardinality(At(r, "record")) <= runs[r]
      BY DEF Counted
    <3>1. runs[r] \in Nat /\ Cardinality(At(r, "record")) \in Nat
      BY <1>1, Numbers DEF GateTypeOK
    <3> QED
      BY <1>1, <2>3, <2>4, <3>1 DEF Written
  <2> QED
    BY <1>3, <2>3, <2>4, <2>5, <2>7 DEF Fine
<1> QED BY <1>2, <1>3

\* What an execution makes of the state.
LEMMA RecordedState ==
  ASSUME IInv, NEW r \in Rules, NEW k \in DedupKeys
  PROVE  /\ Recorded(r, k) \in Gate
         /\ Recorded(r, k).last = [Current.last EXCEPT ![r] = clock]
         /\ Recorded(r, k).count = [Current.count EXCEPT ![r] = @ + 1]
         /\ Recorded(r, k).start = Current.start
         /\ Recorded(r, k).dedup = [Current.dedup EXCEPT ![k] = clock + DedupTtl]
         /\ Recorded(r, k).limits = Current.limits
<1>1. Current \in Gate /\ clock \in Nat /\ DedupTtl \in Nat
  BY CurrentState, GateAssumption DEF IInv, GateTypeOK
<1>2. /\ [Current.last EXCEPT ![r] = clock] \in [Rules -> Nat]
      /\ [Current.count EXCEPT ![r] = @ + 1] \in [Rules -> Nat]
      /\ [Current.dedup EXCEPT ![k] = clock + DedupTtl] \in [DedupKeys -> Nat]
  BY <1>1 DEF Gate
<1>3. Recorded(r, k) = [Current EXCEPT !.last = [Current.last EXCEPT ![r] = clock],
                                       !.count = [Current.count EXCEPT ![r] = @ + 1],
                                       !.dedup = [Current.dedup EXCEPT ![k] = clock + DedupTtl]]
  BY <1>1 DEF Recorded, Gate
<1> QED
  BY <1>1, <1>2, <1>3 DEF Gate

\* A new limit changes nothing else.
LEMMA LimitedState ==
  ASSUME IInv, NEW r \in Rules, NEW s \in Settings
  PROVE  LET S == [Current EXCEPT !.limits[r] = s]
         IN /\ S \in Gate /\ S.limits = [Current.limits EXCEPT ![r] = s]
            /\ S.last = Current.last /\ S.count = Current.count
            /\ S.start = Current.start /\ S.dedup = Current.dedup
<1>1. Current \in Gate
  BY CurrentState
<1>2. [Current.limits EXCEPT ![r] = s] \in [Rules -> Settings]
  BY <1>1 DEF Gate
<1> QED
  BY <1>1, <1>2 DEF Gate

-----------------------------------------------------------------------------
(* The steps *)

EvalRow == [at : Places, todo : SUBSET Rules, rule : Rules \cup {NoRule}, event : Events \cup {NoEvent}]

Stance(e, place, todo, rule) == [at |-> place, todo |-> todo, rule |-> rule, event |-> eval[e].event]

\* Where the steps take an evaluator.
LEMMA Stances ==
  ASSUME GateTypeOK, NEW e \in Evaluators
  PROVE  /\ \A place : Move(e, place) =>
              eval' = [eval EXCEPT ![e] = Stance(e, place, eval[e].todo, eval[e].rule)]
         /\ NextRule(e) => eval' = [eval EXCEPT ![e] = Stance(e, "check", eval[e].todo, NoRule)]
         /\ Check(e) =>
              \E q \in eval[e].todo :
                LET k == <<q, eval[e].event>>
                IN /\ mem' = Checked(q, k)
                   /\ IF Granted(q, k)
                      THEN /\ eval' = [eval EXCEPT ![e] = Stance(e, "act", eval[e].todo \ {q}, q)]
                           /\ window' = [Opened(q, k) EXCEPT !.granted[q] = @ + 1]
                      ELSE /\ eval' = [eval EXCEPT ![e] = Stance(e, "check", eval[e].todo \ {q}, eval[e].rule)]
                           /\ window' = Opened(q, k)
<1>1. eval[e] \in EvalRow
  BY DEF GateTypeOK, EvalRow
<1>2. ASSUME NEW place, Move(e, place)
      PROVE  eval' = [eval EXCEPT ![e] = Stance(e, place, eval[e].todo, eval[e].rule)]
  <2>1. [eval[e] EXCEPT !.at = place] = Stance(e, place, eval[e].todo, eval[e].rule)
    BY <1>1 DEF Stance, EvalRow
  <2> QED
    BY <1>2, <2>1 DEF Move
<1>3. ASSUME NextRule(e)
      PROVE  eval' = [eval EXCEPT ![e] = Stance(e, "check", eval[e].todo, NoRule)]
  <2>1. [eval[e] EXCEPT !.at = "check", !.rule = NoRule] = Stance(e, "check", eval[e].todo, NoRule)
    <3> DEFINE w == [eval[e] EXCEPT !.at = "check", !.rule = NoRule]
    <3>1. /\ w \in EvalRow
          /\ w.at = "check" /\ w.todo = eval[e].todo /\ w.rule = NoRule /\ w.event = eval[e].event
      BY <1>1 DEF EvalRow, Places
    <3> HIDE DEF w
    <3>2. w = Stance(e, "check", eval[e].todo, NoRule)
      BY <3>1 DEF EvalRow, Stance
    <3> QED
      BY <3>2 DEF w
  <2>2. eval' = [eval EXCEPT ![e] = [eval[e] EXCEPT !.at = "check", !.rule = NoRule]]
    BY <1>3 DEF NextRule, GateTypeOK
  <2> QED
    BY <2>1, <2>2
<1>4. ASSUME Check(e), NEW q \in eval[e].todo
      PROVE  /\ [eval EXCEPT ![e].at = "act", ![e].rule = q, ![e].todo = @ \ {q}]
                  = [eval EXCEPT ![e] = Stance(e, "act", eval[e].todo \ {q}, q)]
             /\ [eval EXCEPT ![e].todo = @ \ {q}]
                  = [eval EXCEPT ![e] = Stance(e, "check", eval[e].todo \ {q}, eval[e].rule)]
  <2>1. eval[e].at = "check"
    BY <1>4 DEF Check
  <2>2. [eval[e] EXCEPT !.at = "act", !.rule = q, !.todo = @ \ {q}] = Stance(e, "act", eval[e].todo \ {q}, q)
    <3> DEFINE w == [eval[e] EXCEPT !.at = "act", !.rule = q, !.todo = @ \ {q}]
    <3>1. q \in Rules /\ eval[e].todo \ {q} \in SUBSET Rules
      BY <1>1, <1>4 DEF EvalRow
    <3>2. /\ w \in EvalRow
          /\ w.at = "act" /\ w.todo = eval[e].todo \ {q} /\ w.rule = q /\ w.event = eval[e].event
      BY <1>1, <3>1 DEF EvalRow, Places
    <3> HIDE DEF w
    <3>3. w = Stance(e, "act", eval[e].todo \ {q}, q)
      BY <3>2 DEF EvalRow, Stance
    <3> QED
      BY <3>3 DEF w
  <2>3. [eval[e] EXCEPT !.todo = @ \ {q}] = Stance(e, "check", eval[e].todo \ {q}, eval[e].rule)
    BY <1>1, <2>1 DEF Stance, EvalRow
  <2>4. [eval EXCEPT ![e].at = "act", ![e].rule = q, ![e].todo = @ \ {q}]
          = [eval EXCEPT ![e] = [eval[e] EXCEPT !.at = "act", !.rule = q, !.todo = @ \ {q}]]
    BY <1>1 DEF GateTypeOK
  <2>5. [eval EXCEPT ![e].todo = @ \ {q}] = [eval EXCEPT ![e] = [eval[e] EXCEPT !.todo = @ \ {q}]]
    BY <1>1 DEF GateTypeOK
  <2> QED
    BY <2>2, <2>3, <2>4, <2>5
<1>5. Check(e) =>
        \E q \in eval[e].todo :
          LET k == <<q, eval[e].event>>
          IN /\ mem' = Checked(q, k)
             /\ IF Granted(q, k)
                THEN /\ eval' = [eval EXCEPT ![e] = Stance(e, "act", eval[e].todo \ {q}, q)]
                     /\ window' = [Opened(q, k) EXCEPT !.granted[q] = @ + 1]
                ELSE /\ eval' = [eval EXCEPT ![e] = Stance(e, "check", eval[e].todo \ {q}, eval[e].rule)]
                     /\ window' = Opened(q, k)
  <2> SUFFICES ASSUME Check(e) PROVE \E q \in eval[e].todo :
          LET k == <<q, eval[e].event>>
          IN /\ mem' = Checked(q, k)
             /\ IF Granted(q, k)
                THEN /\ eval' = [eval EXCEPT ![e] = Stance(e, "act", eval[e].todo \ {q}, q)]
                     /\ window' = [Opened(q, k) EXCEPT !.granted[q] = @ + 1]
                ELSE /\ eval' = [eval EXCEPT ![e] = Stance(e, "check", eval[e].todo \ {q}, eval[e].rule)]
                     /\ window' = Opened(q, k)
    OBVIOUS
  <2>1. PICK q \in eval[e].todo :
          /\ mem' = Checked(q, <<q, eval[e].event>>)
          /\ IF Granted(q, <<q, eval[e].event>>)
             THEN /\ eval' = [eval EXCEPT ![e].at = "act", ![e].rule = q, ![e].todo = @ \ {q}]
                  /\ window' = [Opened(q, <<q, eval[e].event>>) EXCEPT !.granted[q] = @ + 1]
             ELSE /\ eval' = [eval EXCEPT ![e].todo = @ \ {q}]
                  /\ window' = Opened(q, <<q, eval[e].event>>)
    BY DEF Check
  <2> WITNESS q \in eval[e].todo
  <2> QED
    BY <2>1, <1>4
<1> QED
  BY <1>2, <1>3, <1>5

\* Every step is one of an evaluator or of the object's surroundings.
LEMMA StepCases ==
  ASSUME [Next]_vars
  PROVE  \/ \E e \in Evaluators :
              \/ Start(e) \/ Check(e) \/ Act(e) \/ Insert(e) \/ Count(e)
              \/ Record(e) \/ RecordLost(e) \/ Leave(e)
         \/ \E r \in Rules : SetLimits(r)
         \/ Reset \/ Evict \/ Tick \/ UNCHANGED vars
BY DEF Next, Evaluate

WindowRow ==
  [from : Nat, granted : [Rules -> Nat], lost : [Rules -> Nat], orphans : [Rules -> Nat]]

\* The fields of the history, one by one.
LEMMA WindowFields ==
  ASSUME NEW w \in WindowRow, NEW r \in Rules, NEW f \in [Rules -> Nat]
  PROVE  /\ w.from \in Nat /\ w.granted[r] \in Nat /\ w.lost[r] \in Nat /\ w.orphans[r] \in Nat
         /\ LET g == [w EXCEPT !.granted[r] = @ + 1]
            IN /\ g \in WindowRow
               /\ g.from = w.from /\ g.lost = w.lost /\ g.orphans = w.orphans
               /\ g.granted[r] = w.granted[r] + 1
               /\ \A q \in Rules : q # r => g.granted[q] = w.granted[q]
         /\ LET l == [w EXCEPT !.lost = f]
            IN /\ l \in WindowRow /\ l.lost = f
               /\ l.from = w.from /\ l.granted = w.granted /\ l.orphans = w.orphans
         /\ LET o == [w EXCEPT !.orphans = f]
            IN /\ o \in WindowRow /\ o.orphans = f
               /\ o.from = w.from /\ o.granted = w.granted /\ o.lost = w.lost
<1>1. [w.granted EXCEPT ![r] = @ + 1] \in [Rules -> Nat]
  BY DEF WindowRow
<1>2. [w EXCEPT !.granted[r] = @ + 1] = [w EXCEPT !.granted = [w.granted EXCEPT ![r] = @ + 1]]
  BY DEF WindowRow
<1> QED
  BY <1>1, <1>2 DEF WindowRow

\* A new window is empty.
LEMMA NewWindowFields ==
  ASSUME GateTypeOK
  PROVE  /\ NewWindow \in WindowRow /\ NewWindow.from = clock
         /\ \A r \in Rules : /\ NewWindow.granted[r] = 0
                            /\ NewWindow.lost[r] = 0 /\ NewWindow.orphans[r] = 0
BY DEF NewWindow, NoneYet, WindowRow, GateTypeOK

\* What a lost report makes of the history.
LEMMA LoseFields ==
  ASSUME GateTypeOK, NEW e \in Evaluators, LoseReport(e)
  PROVE  /\ window' \in WindowRow
         /\ window'.from = window.from /\ window'.granted = window.granted
         /\ window'.orphans = window.orphans
         /\ \A r \in Rules :
              window'.lost[r] = window.lost[r] + (IF e \in InFlight(r) THEN 1 ELSE 0)
<1> DEFINE f == [r \in Rules |-> window.lost[r] + (IF e \in InFlight(r) THEN 1 ELSE 0)]
<1>1. window \in WindowRow
  BY DEF GateTypeOK, WindowRow
<1>2. window' = [window EXCEPT !.lost = f]
  BY DEF LoseReport
<1>3. f \in [Rules -> Nat]
  BY <1>1 DEF WindowRow
<1>4. \A r \in Rules : f[r] = window.lost[r] + (IF e \in InFlight(r) THEN 1 ELSE 0)
  OBVIOUS
<1> HIDE DEF f
<1> QED
  BY <1>1, <1>2, <1>3, <1>4 DEF WindowRow

\* The history keeps its type.
LEMMA WindowType ==
  ASSUME IInv, [Next]_vars
  PROVE  window' \in WindowRow
<1>1. GateTypeOK /\ window \in WindowRow
  BY DEF IInv, GateTypeOK, WindowRow
<1>2. ASSUME NEW e \in Evaluators, Check(e) PROVE window' \in WindowRow
  <2>1. PICK q \in eval[e].todo :
          LET k == <<q, eval[e].event>>
          IN \/ window' = [Opened(q, k) EXCEPT !.granted[q] = @ + 1]
             \/ window' = Opened(q, k)
    BY <1>1, <1>2, Stances
  <2>2. q \in Rules /\ Opened(q, <<q, eval[e].event>>) \in WindowRow
    BY <1>1, NewWindowFields DEF Opened, GateTypeOK
  <2>3. NewWindow.lost \in [Rules -> Nat]
    BY <1>1, NewWindowFields DEF WindowRow
  <2>4. [Opened(q, <<q, eval[e].event>>) EXCEPT !.granted[q] = @ + 1] \in WindowRow
    <3> DEFINE w == Opened(q, <<q, eval[e].event>>)
    <3>1. w \in WindowRow /\ q \in Rules
      BY <2>2
    <3> HIDE DEF w
    <3>2. [w EXCEPT !.granted[q] = @ + 1] \in WindowRow
      BY <2>3, <3>1, WindowFields
    <3> QED
      BY <3>2 DEF w
  <2> QED
    BY <2>1, <2>2, <2>4
<1>3. ASSUME NEW e \in Evaluators, RecordLost(e) \/ Leave(e) PROVE window' \in WindowRow
  BY <1>1, <1>3, LoseFields DEF RecordLost, Leave
<1>4. ASSUME Evict PROVE window' \in WindowRow
  <2> DEFINE f == [r \in Rules |-> window.orphans[r] + Cardinality(InFlight(r))]
  <2>1. window' = [window EXCEPT !.orphans = f] \/ window' = window
    BY <1>4 DEF Evict
  <2>2. f \in [Rules -> Nat]
    BY <1>1, Numbers DEF WindowRow
  <2> HIDE DEF f
  <2> QED
    BY <1>1, <2>1, <2>2 DEF WindowRow
<1>5. ASSUME Reset PROVE window' \in WindowRow
  BY <1>1, <1>5, NewWindowFields DEF Reset
<1>6. ASSUME NEW e \in Evaluators, Start(e) \/ Act(e) \/ Insert(e) \/ Count(e) \/ Record(e)
      PROVE  window' = window
  BY <1>6 DEF Start, Act, Insert, Count, Record
<1>7. ASSUME (\E r \in Rules : SetLimits(r)) \/ Tick \/ UNCHANGED vars PROVE window' = window
  BY <1>7 DEF SetLimits, Tick, vars
<1> QED
  BY <1>1, <1>2, <1>3, <1>4, <1>5, <1>6, <1>7, StepCases

\* The types of everything but the history of the window.
RestTypeOK ==
  /\ clock \in Nat \ {0}
  /\ mem \in Gate \cup {NoState} /\ disk \in Gate \cup {NoState}
  /\ eval \in [Evaluators -> [at : Places, todo : SUBSET Rules,
                              rule : Rules \cup {NoRule}, event : Events \cup {NoEvent}]]
  /\ rows \in [Rules -> Nat] /\ runs \in [Rules -> Nat]
  /\ promise \in [last : [Rules -> Nat], keys : [DedupKeys -> Nat],
                  limits : [Rules -> Settings]]
  /\ spent \in [DOMAIN Limit -> Nat]

\* The types, and what an evaluator knows.
LEMMA TypeStep ==
  ASSUME IInv, [Next]_vars
  PROVE  GateTypeOK' /\ EvalOK'
<1>0. GateTypeOK /\ window' \in WindowRow /\ (GateTypeOK' <=> RestTypeOK' /\ window' \in WindowRow)
  BY WindowType DEF IInv, GateTypeOK, RestTypeOK, WindowRow
<1>1. RestTypeOK /\ EvalOK /\ Current \in Gate /\ Rolled \in Gate /\ Fresh \in Gate
  BY CurrentState, RolledState, FreshState DEF IInv, GateTypeOK, RestTypeOK
<1> USE DEF RestTypeOK, EvalOK, Places, Idle, Working
<1>2. ASSUME NEW w \in DOMAIN Limit, Spend(w) PROVE spent' \in [DOMAIN Limit -> Nat]
  BY <1>1, <1>2 DEF Spend
<1>3. "events" \in DOMAIN Limit /\ "evictions" \in DOMAIN Limit /\ "orders" \in DOMAIN Limit
  BY DEF Limit
<1>4. ASSUME NEW e \in Evaluators, Start(e) PROVE RestTypeOK' /\ EvalOK'
  <2>1. PICK event \in Events, matched \in SUBSET Rules :
          eval' = [eval EXCEPT ![e] = [at |-> "check", todo |-> matched, rule |-> NoRule, event |-> event]]
    BY <1>4 DEF Start
  <2>2. spent' \in [DOMAIN Limit -> Nat]
    BY <1>2, <1>3, <1>4 DEF Start
  <2> QED
    BY <1>1, <1>4, <2>1, <2>2 DEF Start
<1>5. ASSUME NEW e \in Evaluators, Check(e) PROVE RestTypeOK' /\ EvalOK'
  <2>1. PICK r \in eval[e].todo :
          /\ mem' = Checked(r, <<r, eval[e].event>>)
          /\ \/ eval' = [eval EXCEPT ![e] = Stance(e, "act", eval[e].todo \ {r}, r)]
             \/ eval' = [eval EXCEPT ![e] = Stance(e, "check", eval[e].todo \ {r}, eval[e].rule)]
    BY <1>5, <1>1, Stances, <1>0
  <2>2. mem' \in Gate /\ r \in Rules /\ eval[e].at = "check"
    BY <1>1, <1>5, <2>1 DEF Checked, Check
  <2>3. RestTypeOK'
    <3>1. eval' \in [Evaluators -> [at : Places, todo : SUBSET Rules,
                                    rule : Rules \cup {NoRule}, event : Events \cup {NoEvent}]]
      BY <1>1, <2>1, <2>2 DEF Stance
    <3> QED
      BY <1>1, <1>5, <2>2, <3>1 DEF Check
  <2>4. EvalOK'
    BY <1>1, <1>5, <2>1, <2>2 DEF Check, Stance
  <2> QED BY <2>3, <2>4
<1>6. ASSUME NEW e \in Evaluators, Act(e) PROVE RestTypeOK' /\ EvalOK'
  BY <1>1, <1>6 DEF Act, Move
<1>7. ASSUME NEW e \in Evaluators, Insert(e) PROVE RestTypeOK' /\ EvalOK'
  <2>1. rows' \in [Rules -> Nat]
    BY <1>1, <1>7 DEF Insert
  <2> QED
    BY <1>1, <1>7, <2>1 DEF Insert, Move
<1>8. ASSUME NEW e \in Evaluators, Count(e) PROVE RestTypeOK' /\ EvalOK'
  <2>1. runs' \in [Rules -> Nat]
    BY <1>1, <1>8 DEF Count
  <2> QED
    BY <1>1, <1>8, <2>1 DEF Count, Move
<1>9. ASSUME NEW e \in Evaluators, Record(e) PROVE RestTypeOK' /\ EvalOK'
  <2>1. eval[e].rule \in Rules /\ KeyOf(e) \in DedupKeys
    BY <1>1, <1>9 DEF Record, KeyOf, DedupKeys
  <2>2. mem' \in Gate /\ disk' \in Gate
    BY <1>9, <2>1, RecordedState DEF Record, Save
  <2>3. promise' \in [last : [Rules -> Nat], keys : [DedupKeys -> Nat], limits : [Rules -> Settings]]
    BY <1>1, <1>9, <2>1 DEF Record
  <2>4. EvalOK' /\ eval' \in [Evaluators -> [at : Places, todo : SUBSET Rules,
                                rule : Rules \cup {NoRule}, event : Events \cup {NoEvent}]]
    <3>1. eval' = [eval EXCEPT ![e] = Stance(e, "check", eval[e].todo, NoRule)] /\ eval[e].at = "record"
      BY <1>0, <1>9, Stances DEF Record
    <3> QED
      BY <1>1, <3>1 DEF Stance
  <2> QED
    BY <1>1, <1>9, <2>2, <2>3, <2>4 DEF Record
<1>10. ASSUME NEW e \in Evaluators, RecordLost(e) PROVE RestTypeOK' /\ EvalOK'
  <2>1. eval' = [eval EXCEPT ![e] = Stance(e, "check", eval[e].todo, NoRule)] /\ eval[e].at = "record"
    BY <1>1, <1>10, <1>0, Stances DEF RecordLost
  <2> QED
    BY <1>1, <1>10, <2>1 DEF RecordLost, Stance
<1>11. ASSUME NEW e \in Evaluators, Leave(e) PROVE RestTypeOK' /\ EvalOK'
  BY <1>1, <1>11 DEF Leave
<1>12. ASSUME NEW r \in Rules, SetLimits(r) PROVE RestTypeOK' /\ EvalOK'
  <2>1. PICK s \in Settings :
          Save([Current EXCEPT !.limits[r] = s]) /\ promise' = [promise EXCEPT !.limits[r] = s]
    BY <1>12 DEF SetLimits
  <2>2. mem' \in Gate /\ disk' \in Gate
    BY <2>1, LimitedState DEF Save
  <2>3. promise' \in [last : [Rules -> Nat], keys : [DedupKeys -> Nat], limits : [Rules -> Settings]]
    BY <1>1, <2>1
  <2>4. spent' \in [DOMAIN Limit -> Nat]
    BY <1>2, <1>3, <1>12 DEF SetLimits
  <2> QED
    BY <1>1, <1>12, <2>2, <2>3, <2>4 DEF SetLimits
<1>13. ASSUME Reset PROVE RestTypeOK' /\ EvalOK'
  <2>1. promise' \in [last : [Rules -> Nat], keys : [DedupKeys -> Nat], limits : [Rules -> Settings]]
    BY <1>1, <1>13 DEF Reset, Gate
  <2>2. spent' \in [DOMAIN Limit -> Nat]
    BY <1>2, <1>3, <1>13 DEF Reset
  <2> QED
    BY <1>1, <1>13, <2>1, <2>2 DEF Reset, Save
<1>14. ASSUME Evict PROVE RestTypeOK' /\ EvalOK'
  <2>1. spent' \in [DOMAIN Limit -> Nat]
    BY <1>2, <1>3, <1>14 DEF Evict
  <2> QED
    BY <1>1, <1>14, <2>1 DEF Evict
<1>15. ASSUME Tick PROVE RestTypeOK' /\ EvalOK'
  BY <1>1, <1>15 DEF Tick
<1>16. ASSUME UNCHANGED vars PROVE RestTypeOK' /\ EvalOK'
  BY <1>1, <1>16 DEF vars
<1> QED
  BY <1>0, <1>4, <1>5, <1>6, <1>7, <1>8, <1>9, <1>10, <1>11, <1>12, <1>13, <1>14, <1>15, <1>16, StepCases

\* A step in which the object acknowledges nothing and grants nothing.
LEMMA SideStep ==
  ASSUME IInv, GateTypeOK', disk' = disk, promise' = promise, mem' = mem \/ mem' = NoState,
         clock' >= clock,
         \A r \in Rules :
           /\ Cardinality(At(r, "record")') \in Nat
           /\ runs'[r] - Cardinality(At(r, "record")') >= runs[r] - Cardinality(At(r, "record"))
  PROVE  Stored' /\ SameWindow'
<1>1. GateTypeOK /\ Stored /\ SameWindow
  BY DEF IInv
<1>2. clock \in Nat /\ clock' \in Nat /\ Window \in Nat
  BY <1>1, GateAssumption DEF GateTypeOK
<1>3. ASSUME NEW S \in Gate, Fine(S) PROVE Fine(S)'
  <2>1. S.count \in [Rules -> Nat] /\ S.dedup \in [DedupKeys -> Nat]
    BY DEF Gate
  <2>3. Keeps(S)'
    <3> SUFFICES ASSUME NEW k \in DedupKeys
                 PROVE  \/ promise.keys[k] = 0
                        \/ S.dedup[k] = promise.keys[k] + DedupTtl
                        \/ clock' >= promise.keys[k] + DedupTtl
      BY <1>3 DEF Fine, Keeps
    <3>1. promise.keys[k] + DedupTtl \in Nat
      BY <1>1, GateAssumption DEF GateTypeOK
    <3> QED
      BY <1>2, <1>3, <3>1 DEF Fine, Keeps
  <2>5. Counted(S)'
    <3> SUFFICES ASSUME NEW r \in Rules
                 PROVE  S.count[r] + Cardinality(At(r, "record")') <= runs'[r]
      BY DEF Counted
    <3>1. S.count[r] + Cardinality(At(r, "record")) <= runs[r]
      BY <1>3 DEF Fine, Counted
    <3>2. runs[r] \in Nat /\ runs'[r] \in Nat /\ Cardinality(At(r, "record")) \in Nat
      BY <1>1, Numbers DEF GateTypeOK
    <3> QED
      BY <2>1, <3>1, <3>2
  <2> QED
    BY <2>3, <2>5 DEF Fine
<1>4. mem' # NoState => Fine(mem)'
  <2>1. mem' # NoState => mem' = mem /\ mem \in Gate /\ Fine(mem)
    BY <1>1 DEF GateTypeOK, Stored
  <2>2. ASSUME NEW S \in Gate, S = mem, Fine(S), mem' = mem PROVE Fine(mem)'
    BY <1>3, <2>2 DEF Fine, Keeps, Counted
  <2> QED BY <2>1, <2>2
<1>5. disk' # NoState => Fine(disk)'
  <2>1. disk' # NoState => disk \in Gate /\ Fine(disk)
    BY <1>1 DEF GateTypeOK, Stored
  <2>2. ASSUME NEW S \in Gate, S = disk, Fine(S) PROVE Fine(disk)'
    BY <1>3, <2>2 DEF Fine, Keeps, Counted
  <2> QED BY <2>1, <2>2
<1>6. Stored'
  BY <1>1, <1>4, <1>5 DEF Stored, Blank
<1>7. SameWindow'
  <2> SUFFICES ASSUME mem' # NoState
               PROVE  \/ disk # NoState /\ mem'.count = disk.count /\ mem'.start = disk.start
                      \/ /\ disk # NoState => clock' - disk.start > Window /\ mem'.start # disk.start
                         /\ \A r \in Rules : mem'.count[r] = 0
    BY DEF SameWindow, Over
  <2>1. mem' = mem /\ (disk # NoState => disk.start \in Nat)
    BY <1>1 DEF GateTypeOK, Gate
  <2>2. disk # NoState /\ clock - disk.start > Window => clock' - disk.start > Window
    BY <1>2, <2>1
  <2> QED
    BY <1>1, <2>1, <2>2 DEF SameWindow, Over
<1> QED BY <1>6, <1>7

\* A step that saves a state which knows everything.
LEMMA SaveStep ==
  ASSUME GateTypeOK, NEW S \in Gate, Save(S), Fine(S)'
  PROVE  Stored' /\ SameWindow'
<1>1. mem' = S /\ disk' = S /\ S # NoState
  BY GateAssumption DEF Save
<1>2. Fine(mem)' /\ Fine(disk)'
  BY <1>1 DEF Fine, Keeps, Counted
<1> QED
  BY <1>1, <1>2 DEF Stored, SameWindow

\* A check: the state may get a new window in memory, and an execution is granted
\* only below the limit.
LEMMA CheckStep ==
  ASSUME IInv, GateTypeOK', NEW e \in Evaluators, Check(e)
  PROVE  Stored' /\ SameWindow' /\ Written'
<1> USE DEF Working
<1>1. /\ GateTypeOK /\ Stored /\ Written /\ eval[e].at = "check"
      /\ UNCHANGED <<clock, disk, rows, runs, promise>>
  BY DEF IInv, Check
<1>2. PICK q \in eval[e].todo :
        /\ mem' = Checked(q, <<q, eval[e].event>>)
        /\ IF Granted(q, <<q, eval[e].event>>)
           THEN eval' = [eval EXCEPT ![e] = Stance(e, "act", eval[e].todo \ {q}, q)]
           ELSE eval' = [eval EXCEPT ![e] = Stance(e, "check", eval[e].todo \ {q}, eval[e].rule)]
  BY <1>1, Stances
<1>3. q \in Rules
  BY <1>1 DEF GateTypeOK
<1>4. \A r \in Rules :
        /\ Cardinality(InFlight(r)') \in Nat /\ Cardinality(InFlight(r)') <= Cardinality(Evaluators)
        /\ Cardinality(At(r, "record")') = Cardinality(At(r, "record"))
        /\ Cardinality(At(r, "stats")') = Cardinality(At(r, "stats"))
        /\ ~Granted(q, <<q, eval[e].event>>) \/ r # q =>
             Cardinality(InFlight(r)') = Cardinality(InFlight(r))
  <2> TAKE r \in Rules
  <2>1. CASE Granted(q, <<q, eval[e].event>>)
    <3> DEFINE x == Stance(e, "act", eval[e].todo \ {q}, q)
    <3>1. x.rule = q /\ x.at = "act" /\ eval' = [eval EXCEPT ![e] = x]
      BY <1>2, <2>1 DEF Stance
    <3> HIDE DEF x
    <3>2. /\ ~Busy(eval[e], r) /\ (Busy(x, r) => r = q)
          /\ \A place \in {"stats", "record"} : ~Stands(eval[e], r, place) /\ ~Stands(x, r, place)
      BY <1>1, <3>1 DEF Busy, Stands
    <3> QED
      BY <1>1, <2>1, <3>1, <3>2, Moved
  <2>2. CASE ~Granted(q, <<q, eval[e].event>>)
    <3> DEFINE x == Stance(e, "check", eval[e].todo \ {q}, eval[e].rule)
    <3>1. x.at = "check" /\ eval' = [eval EXCEPT ![e] = x]
      BY <1>2, <2>2 DEF Stance
    <3> HIDE DEF x
    <3>2. /\ ~Busy(eval[e], r) /\ ~Busy(x, r)
          /\ \A place \in {"stats", "record"} : ~Stands(eval[e], r, place) /\ ~Stands(x, r, place)
      BY <1>1, <3>1 DEF Busy, Stands
    <3> QED
      BY <1>1, <2>2, <3>1, <3>2, Moved
  <2> QED BY <2>1, <2>2
<1>5. Written'
  BY <1>1, <1>4 DEF Written
<1>6. ASSUME NEW S \in Gate, Fine(S) PROVE Fine(S)'
  <2>1. Keeps(S)'
    BY <1>1, <1>6 DEF Fine, Keeps
  <2>2. Counted(S)'
    BY <1>1, <1>4, <1>6 DEF Fine, Counted
  <2> QED BY <2>1, <2>2 DEF Fine
<1>7. /\ Current \in Gate /\ Fine(Current) /\ Rolled \in Gate /\ Fine(Rolled)
      /\ mem' = Current \/ mem' = Rolled
  BY <1>2, CurrentState, RolledState DEF Checked
<1>9. Fine(mem)'
  <2>1. ASSUME NEW S \in Gate, mem' = S, Fine(S)' PROVE Fine(mem)'
    BY <2>1 DEF Fine, Keeps, Counted
  <2> QED
    BY <1>6, <1>7, <2>1
<1>10. ASSUME disk # NoState PROVE Fine(disk)'
  <2>1. disk \in Gate /\ Fine(disk)
    BY <1>1, <1>10 DEF GateTypeOK, Stored
  <2>2. ASSUME NEW S \in Gate, disk = S, Fine(S)' PROVE Fine(disk)'
    BY <1>1, <2>2 DEF Fine, Keeps, Counted
  <2> QED
    BY <1>6, <2>1, <2>2
<1>11. Stored'
  BY <1>1, <1>9, <1>10 DEF Stored, Blank
<1>12. SameWindow'
  <2>1. CASE mem' = Current
    <3>1. disk = NoState /\ mem = NoState => \A r \in Rules : Current.count[r] = 0
      BY <1>1, FreshState DEF Current
    <3> QED
      BY <1>1, <2>1, <3>1 DEF IInv, SameWindow, Current, Over
  <2>2. CASE mem' = Rolled /\ WindowOver
    <3>1. Rolled.start = clock /\ \A r \in Rules : Rolled.count[r] = 0
      BY <2>2, RolledState
    <3>2. disk # NoState => Over(disk)
      BY <1>1, <2>2 DEF IInv, SameWindow, Current, Over, WindowOver
    <3>3. disk # NoState => disk.start # clock
      BY <1>1, <3>2, GateAssumption DEF Over, GateTypeOK, Gate
    <3> QED
      BY <1>1, <2>2, <3>1, <3>2, <3>3 DEF SameWindow, Over
  <2>3. mem' = Rolled /\ ~WindowOver => mem' = Current
    BY RolledState
  <2> QED
    BY <1>7, <2>1, <2>2, <2>3
<1> QED
  BY <1>5, <1>11, <1>12

\* The other steps of an evaluator that acknowledge nothing.
LEMMA WorkStep ==
  ASSUME IInv, GateTypeOK', NEW e \in Evaluators,
         Start(e) \/ Act(e) \/ Insert(e) \/ Count(e) \/ RecordLost(e) \/ Leave(e)
  PROVE  Stored' /\ SameWindow' /\ Written'
<1>1. /\ GateTypeOK /\ Written
      /\ UNCHANGED <<clock, mem, disk, promise>>
  BY DEF IInv, Start, Act, Insert, Count, RecordLost, Leave
<1>2. PICK x :
        /\ eval' = [eval EXCEPT ![e] = x]
        /\ \/ /\ rows' = rows /\ runs' = runs
              /\ x.at \in {"idle", "check", "insert"}
              /\ x.at = "insert" => eval[e].at = "act" /\ x.rule = eval[e].rule
           \/ /\ eval[e].at = "insert" /\ x.at = "stats" /\ x.rule = eval[e].rule
              /\ rows' = [rows EXCEPT ![eval[e].rule] = @ + 1] /\ runs' = runs
           \/ /\ eval[e].at = "stats" /\ x.at = "record" /\ x.rule = eval[e].rule
              /\ runs' = [runs EXCEPT ![eval[e].rule] = @ + 1] /\ rows' = rows
  <2>1. CASE Start(e)
    <3>1. PICK event \in Events, matched \in SUBSET Rules :
            eval' = [eval EXCEPT ![e] = [at |-> "check", todo |-> matched, rule |-> NoRule, event |-> event]]
      BY <2>1 DEF Start
    <3> QED
      BY <2>1, <3>1 DEF Start
  <2>2. CASE Act(e) \/ Insert(e) \/ Count(e)
    <3>1. ASSUME NEW place, Move(e, place)
          PROVE  /\ eval' = [eval EXCEPT ![e] = Stance(e, place, eval[e].todo, eval[e].rule)]
                 /\ Stance(e, place, eval[e].todo, eval[e].rule).at = place
                 /\ Stance(e, place, eval[e].todo, eval[e].rule).rule = eval[e].rule
      BY <1>1, <3>1, Stances DEF Stance
    <3>2. CASE Act(e)
      BY <3>1, <3>2 DEF Act
    <3>3. CASE Insert(e)
      BY <3>1, <3>3 DEF Insert
    <3>4. CASE Count(e)
      BY <3>1, <3>4 DEF Count
    <3> QED BY <2>2, <3>2, <3>3, <3>4
  <2>3. CASE RecordLost(e)
    <3>1. /\ eval' = [eval EXCEPT ![e] = Stance(e, "check", eval[e].todo, NoRule)]
          /\ Stance(e, "check", eval[e].todo, NoRule).at = "check"
      BY <1>1, <2>3, Stances DEF RecordLost, Stance
    <3> QED
      BY <2>3, <3>1 DEF RecordLost
  <2>4. CASE Leave(e)
    <3>1. eval' = [eval EXCEPT ![e] = Idle] /\ Idle.at = "idle" /\ rows' = rows /\ runs' = runs
      BY <2>4 DEF Leave, Idle
    <3> QED
      BY <3>1
  <2> QED BY <2>1, <2>2, <2>3, <2>4
<1>3. ASSUME NEW r \in Rules
      PROVE  /\ Cardinality(At(r, "record")') \in Nat
             /\ runs'[r] - Cardinality(At(r, "record")') >= runs[r] - Cardinality(At(r, "record"))
             /\ Cardinality(At(r, "record")') <= runs'[r]
             /\ runs'[r] + Cardinality(At(r, "stats")') <= rows'[r]
  <2>1. /\ runs[r] \in Nat /\ rows[r] \in Nat
        /\ Cardinality(At(r, "record")) \in Nat
        /\ Cardinality(At(r, "stats")) \in Nat
        /\ Cardinality(At(r, "record")') \in Nat
        /\ Cardinality(At(r, "stats")') \in Nat
    BY <1>1, <1>2, Moved, Numbers DEF GateTypeOK
  <2>2. Cardinality(At(r, "record")) <= runs[r] /\ runs[r] + Cardinality(At(r, "stats")) <= rows[r]
    BY <1>1 DEF Written
  <2>3. CASE /\ rows' = rows /\ runs' = runs /\ x.at \in {"idle", "check", "insert"}
    <3>1. ~Stands(x, r, "record") /\ ~Stands(x, r, "stats")
      BY <2>3 DEF Stands
    <3>2. /\ Cardinality(At(r, "record")') <= Cardinality(At(r, "record"))
          /\ Cardinality(At(r, "stats")') <= Cardinality(At(r, "stats"))
      <4>1. eval' = [eval EXCEPT ![e] = x]
        BY <1>2
      <4>2. \/ Cardinality(At(r, "record")') = Cardinality(At(r, "record"))
            \/ Cardinality(At(r, "record")') = Cardinality(At(r, "record")) - 1
        <5>1. CASE Stands(eval[e], r, "record")
          BY <1>1, <3>1, <4>1, <5>1, MovedRecord
        <5>2. CASE ~Stands(eval[e], r, "record")
          BY <1>1, <3>1, <4>1, <5>2, MovedRecord
        <5> QED BY <5>1, <5>2
      <4>3. \/ Cardinality(At(r, "stats")') = Cardinality(At(r, "stats"))
            \/ Cardinality(At(r, "stats")') = Cardinality(At(r, "stats")) - 1
        <5>1. CASE Stands(eval[e], r, "stats")
          BY <1>1, <3>1, <4>1, <5>1, MovedStats
        <5>2. CASE ~Stands(eval[e], r, "stats")
          BY <1>1, <3>1, <4>1, <5>2, MovedStats
        <5> QED BY <5>1, <5>2
      <4> QED BY <2>1, <4>2, <4>3
    <3> QED
      BY <2>1, <2>2, <2>3, <3>2
  <2>4. CASE /\ eval[e].at = "insert" /\ x.at = "stats" /\ x.rule = eval[e].rule
             /\ rows' = [rows EXCEPT ![eval[e].rule] = @ + 1] /\ runs' = runs
    <3>1. /\ ~Stands(eval[e], r, "record") /\ ~Stands(x, r, "record") /\ ~Stands(eval[e], r, "stats")
          /\ Stands(x, r, "stats") <=> r = eval[e].rule
      BY <2>4 DEF Stands
    <3>2. /\ Cardinality(At(r, "record")') = Cardinality(At(r, "record"))
          /\ r = eval[e].rule => Cardinality(At(r, "stats")') = Cardinality(At(r, "stats")) + 1
          /\ r # eval[e].rule => Cardinality(At(r, "stats")') = Cardinality(At(r, "stats"))
      <4>1. Cardinality(At(r, "record")') = Cardinality(At(r, "record"))
        BY <1>1, <1>2, <3>1, MovedRecord
      <4>0. eval' = [eval EXCEPT ![e] = x]
        BY <1>2
      <4>2. CASE r = eval[e].rule
        <5>1. ~Stands(eval[e], r, "stats") /\ Stands(x, r, "stats")
          BY <3>1, <4>2
        <5>2. Cardinality(At(r, "stats")') = Cardinality(At(r, "stats")) + 1
          BY <1>1, <4>0, <5>1, MovedStats
        <5> QED BY <4>1, <4>2, <5>2
      <4>3. CASE r # eval[e].rule
        <5>1. Stands(eval[e], r, "stats") <=> Stands(x, r, "stats")
          BY <3>1, <4>3
        <5>2. Cardinality(At(r, "stats")') = Cardinality(At(r, "stats"))
          BY <1>1, <4>0, <5>1, MovedStats
        <5> QED BY <4>1, <4>3, <5>2
      <4> QED BY <4>2, <4>3
    <3>3. rows'[r] = IF r = eval[e].rule THEN rows[r] + 1 ELSE rows[r]
      BY <1>1, <2>4 DEF GateTypeOK
    <3> QED
      BY <2>1, <2>2, <2>4, <3>2, <3>3
  <2>5. CASE /\ eval[e].at = "stats" /\ x.at = "record" /\ x.rule = eval[e].rule
             /\ runs' = [runs EXCEPT ![eval[e].rule] = @ + 1] /\ rows' = rows
    <3>1. /\ ~Stands(eval[e], r, "record") /\ ~Stands(x, r, "stats")
          /\ Stands(x, r, "record") <=> r = eval[e].rule
          /\ Stands(eval[e], r, "stats") <=> r = eval[e].rule
      BY <2>5 DEF Stands
    <3>2. /\ r = eval[e].rule => /\ Cardinality(At(r, "record")') = Cardinality(At(r, "record")) + 1
                                 /\ Cardinality(At(r, "stats")') = Cardinality(At(r, "stats")) - 1
          /\ r # eval[e].rule => /\ Cardinality(At(r, "record")') = Cardinality(At(r, "record"))
                                 /\ Cardinality(At(r, "stats")') = Cardinality(At(r, "stats"))
      <4>1. /\ r = eval[e].rule => Cardinality(At(r, "record")') = Cardinality(At(r, "record")) + 1
            /\ r # eval[e].rule => Cardinality(At(r, "record")') = Cardinality(At(r, "record"))
        BY <1>1, <1>2, <3>1, MovedRecord
      <4>2. /\ r = eval[e].rule => Cardinality(At(r, "stats")') = Cardinality(At(r, "stats")) - 1
            /\ r # eval[e].rule => Cardinality(At(r, "stats")') = Cardinality(At(r, "stats"))
        BY <1>1, <1>2, <3>1, MovedStats
      <4> QED BY <4>1, <4>2
    <3>3. runs'[r] = IF r = eval[e].rule THEN runs[r] + 1 ELSE runs[r]
      BY <1>1, <2>5 DEF GateTypeOK
    <3> QED
      BY <2>1, <2>2, <2>5, <3>2, <3>3
  <2> QED BY <1>2, <2>3, <2>4, <2>5
<1>4. Written'
  BY <1>3 DEF Written
<1>5. Stored' /\ SameWindow'
  <2>1. clock' >= clock
    BY <1>1 DEF GateTypeOK
  <2> QED
    BY <1>1, <1>3, <2>1, SideStep
<1> QED
  BY <1>4, <1>5

\* The record: one evaluator fewer has the execution, and the count one more.
LEMMA RecordStep ==
  ASSUME IInv, GateTypeOK', NEW e \in Evaluators, Record(e)
  PROVE  Stored' /\ SameWindow' /\ Written'
<1> DEFINE q == eval[e].rule
           k == KeyOf(e)
           x == Stance(e, "check", eval[e].todo, NoRule)
<1>1. /\ GateTypeOK /\ Written /\ eval[e].at = "record"
      /\ Save(Recorded(q, k)) /\ UNCHANGED <<clock, rows, runs>>
      /\ promise' = [promise EXCEPT !.last[q] = clock, !.keys[k] = clock]
  BY DEF IInv, Record
<1>2. q \in Rules /\ k \in DedupKeys
  BY <1>1 DEF IInv, EvalOK, Working, KeyOf, DedupKeys
<1>3. eval' = [eval EXCEPT ![e] = x] /\ x.at = "check"
  BY <1>1, Stances DEF Record, Stance
<1>4. /\ promise'.last = [promise.last EXCEPT ![q] = clock]
      /\ promise'.keys = [promise.keys EXCEPT ![k] = clock]
      /\ promise'.limits = promise.limits
  BY <1>1 DEF GateTypeOK
<1>5. PICK S \in Gate :
        /\ S = Recorded(q, k)
        /\ S.last = [Current.last EXCEPT ![q] = clock]
        /\ S.count = [Current.count EXCEPT ![q] = @ + 1] /\ S.start = Current.start
        /\ S.dedup = [Current.dedup EXCEPT ![k] = clock + DedupTtl]
        /\ S.limits = Current.limits
  <2>1. /\ Recorded(q, k) \in Gate
        /\ Recorded(q, k).last = [Current.last EXCEPT ![q] = clock]
        /\ Recorded(q, k).count = [Current.count EXCEPT ![q] = @ + 1]
        /\ Recorded(q, k).start = Current.start
        /\ Recorded(q, k).dedup = [Current.dedup EXCEPT ![k] = clock + DedupTtl]
        /\ Recorded(q, k).limits = Current.limits
    BY <1>2, RecordedState
  <2> HIDE DEF q, k
  <2> QED
    BY <2>1
<1>6. Current \in Gate /\ Fine(Current)
  BY CurrentState
<1> HIDE DEF q, x
<1>7. ASSUME NEW r \in Rules
      PROVE  /\ Cardinality(InFlight(r)') = Cardinality(InFlight(r)) - (IF r = q THEN 1 ELSE 0)
             /\ Cardinality(At(r, "record")') = Cardinality(At(r, "record")) - (IF r = q THEN 1 ELSE 0)
             /\ Cardinality(At(r, "stats")') = Cardinality(At(r, "stats"))
  <2>1. /\ ~Busy(x, r) /\ ~Stands(x, r, "record") /\ ~Stands(x, r, "stats")
        /\ ~Stands(eval[e], r, "stats")
        /\ Busy(eval[e], r) <=> r = q
        /\ Stands(eval[e], r, "record") <=> r = q
    BY <1>1, <1>3 DEF Busy, Stands, Working, q
  <2>2. /\ Cardinality(InFlight(r)) \in Nat /\ Cardinality(At(r, "record")) \in Nat
    BY Numbers
  <2>3. CASE r = q
    BY <1>1, <1>3, <2>1, <2>2, <2>3, Moved
  <2>4. CASE r # q
    <3>1. /\ Busy(eval[e], r) <=> Busy(x, r)
          /\ Stands(eval[e], r, "record") <=> Stands(x, r, "record")
          /\ Stands(eval[e], r, "stats") <=> Stands(x, r, "stats")
      BY <2>1, <2>4
    <3>2. /\ Cardinality(InFlight(r)') = Cardinality(InFlight(r))
          /\ Cardinality(At(r, "record")') = Cardinality(At(r, "record"))
          /\ Cardinality(At(r, "stats")') = Cardinality(At(r, "stats"))
      BY <1>1, <1>3, <3>1, Moved
    <3> QED
      BY <2>2, <2>4, <3>2
  <2> QED BY <2>3, <2>4
<1>8. ASSUME NEW r \in Rules
      PROVE  /\ S.count[r] = Current.count[r] + (IF r = q THEN 1 ELSE 0)
             /\ Current.count[r] \in Nat /\ runs[r] \in Nat /\ rows[r] \in Nat
             /\ Cardinality(InFlight(r)) \in Nat /\ Cardinality(At(r, "record")) \in Nat
             /\ Cardinality(At(r, "stats")) \in Nat /\ Cardinality(Evaluators) \in Nat
  <2>1. Current.count \in [Rules -> Nat]
    BY <1>6 DEF Gate
  <2>2. S.count[r] = IF r = q THEN Current.count[r] + 1 ELSE Current.count[r]
    BY <1>5, <2>1
  <2>3. runs[r] \in Nat /\ rows[r] \in Nat
    BY <1>1 DEF GateTypeOK
  <2> QED
    BY <2>1, <2>2, <2>3, Numbers
<1>9. Written'
  BY <1>1, <1>7, <1>8 DEF Written
<1>10. Keeps(S)'
  <2>1. S.last = promise'.last /\ S.limits = promise'.limits
    BY <1>4, <1>5, <1>6 DEF Fine, Keeps
  <2>2. ASSUME NEW j \in DedupKeys
        PROVE  \/ promise'.keys[j] = 0
               \/ S.dedup[j] = promise'.keys[j] + DedupTtl
               \/ clock' >= promise'.keys[j] + DedupTtl
    <3>1. CASE j = k
      <4>1. promise'.keys[j] = clock
        BY <1>1, <1>2, <1>4, <3>1 DEF GateTypeOK
      <4>2. S.dedup[j] = clock + DedupTtl
        BY <1>2, <1>5, <1>6, <3>1 DEF Gate
      <4> QED BY <4>1, <4>2
    <3>2. CASE j # k
      <4>1. promise'.keys[j] = promise.keys[j]
        BY <1>1, <1>4, <3>2 DEF GateTypeOK
      <4>2. S.dedup[j] = Current.dedup[j]
        BY <1>5, <1>6, <3>2 DEF Gate
      <4> QED BY <1>1, <1>6, <4>1, <4>2 DEF Fine, Keeps
    <3> QED BY <3>1, <3>2
  <2> QED BY <2>1, <2>2 DEF Keeps
<1>12. Counted(S)'
  <2> SUFFICES ASSUME NEW r \in Rules
               PROVE  S.count[r] + Cardinality(At(r, "record")') <= runs[r]
    BY <1>1 DEF Counted
  <2>1. Current.count[r] + Cardinality(At(r, "record")) <= runs[r]
    BY <1>6 DEF Fine, Counted
  <2> QED
    BY <1>7, <1>8, <2>1
<1>13. Stored' /\ SameWindow'
  BY <1>1, <1>5, <1>10, <1>12, SaveStep DEF Fine
<1> QED
  BY <1>9, <1>13

\* New limits, and a reset, are acknowledged when they are stored.
LEMMA OrderStep ==
  ASSUME IInv, GateTypeOK', (\E r \in Rules : SetLimits(r)) \/ Reset
  PROVE  Stored' /\ SameWindow' /\ Written'
<1>1. GateTypeOK /\ Written /\ UNCHANGED <<clock, eval, rows, runs>>
  BY DEF IInv, SetLimits, Reset
<1>2. \A r : InFlight(r)' = InFlight(r) /\ \A place : At(r, place)' = At(r, place)
  BY <1>1 DEF InFlight, At
<1>3. Written'
  BY <1>1, <1>2 DEF Written
<1>4. ASSUME NEW r \in Rules, SetLimits(r) PROVE Stored' /\ SameWindow'
  <2>1. PICK s \in Settings :
          Save([Current EXCEPT !.limits[r] = s]) /\ promise' = [promise EXCEPT !.limits[r] = s]
    BY <1>4 DEF SetLimits
  <2>2. PICK S \in Gate :
          /\ S = [Current EXCEPT !.limits[r] = s]
          /\ S.limits = [Current.limits EXCEPT ![r] = s]
          /\ S.last = Current.last /\ S.count = Current.count
          /\ S.start = Current.start /\ S.dedup = Current.dedup
    BY LimitedState
  <2>3. /\ promise'.limits = [promise.limits EXCEPT ![r] = s]
        /\ promise'.last = promise.last /\ promise'.keys = promise.keys
    BY <1>1, <2>1 DEF GateTypeOK
  <2>4. Fine(Current)
    BY CurrentState
  <2>5. Fine(S)'
    BY <1>1, <1>2, <2>2, <2>3, <2>4 DEF Fine, Keeps, Counted
  <2> QED
    BY <1>1, <2>1, <2>2, <2>5, SaveStep
<1>5. ASSUME Reset PROVE Stored' /\ SameWindow'
  <2>1. PICK S \in Gate : S = Fresh
    BY <1>1, FreshState
  <2>2. /\ \A r \in Rules : S.count[r] = 0
        /\ \A j \in DedupKeys : S.dedup[j] = 0
    BY <1>1, <2>1, FreshState
  <2>3. promise'.last = S.last /\ promise'.keys = S.dedup /\ promise'.limits = S.limits
    BY <1>5, <2>1 DEF Reset
  <2>4. Keeps(S)'
    BY <2>2, <2>3 DEF Keeps
  <2>6. Counted(S)'
    <3> SUFFICES ASSUME NEW r \in Rules
                 PROVE  S.count[r] + Cardinality(At(r, "record")) <= runs[r]
      BY <1>1, <1>2 DEF Counted
    <3> QED
      BY <1>1, <2>2, Numbers DEF Written
  <2> QED
    BY <1>1, <1>5, <2>1, <2>4, <2>6, SaveStep DEF Fine, Reset
<1> QED
  BY <1>3, <1>4, <1>5

\* The object's memory may go, and time pass.
LEMMA SurroundStep ==
  ASSUME IInv, GateTypeOK', Evict \/ Tick \/ UNCHANGED vars
  PROVE  Stored' /\ SameWindow' /\ Written'
<1>1. /\ GateTypeOK /\ Written /\ UNCHANGED <<disk, eval, rows, runs, promise>>
      /\ mem' = mem \/ mem' = NoState
      /\ clock' = clock \/ clock' = clock + 1
  BY DEF IInv, Evict, Tick, vars
<1>2. \A r : \A place : At(r, place)' = At(r, place)
  BY <1>1 DEF At
<1>3. clock' >= clock
  BY <1>1 DEF GateTypeOK
<1>4. \A r \in Rules :
        /\ Cardinality(At(r, "record")') \in Nat
        /\ runs'[r] - Cardinality(At(r, "record")') >= runs[r] - Cardinality(At(r, "record"))
  BY <1>1, <1>2, Numbers DEF GateTypeOK
<1>5. Stored' /\ SameWindow'
  BY <1>1, <1>3, <1>4, SideStep
<1>6. Written'
  BY <1>1, <1>2 DEF Written
<1> QED
  BY <1>5, <1>6

-----------------------------------------------------------------------------
(* The window of the history *)

\* The numbers that WindowOK compares.
LEMMA WindowNumbers ==
  ASSUME GateTypeOK
  PROVE  /\ clock \in Nat /\ window.from \in Nat /\ Window \in Nat /\ Ceiling \in Nat \ {0}
         /\ \A r \in Rules :
              /\ window.granted[r] \in Nat /\ window.lost[r] \in Nat /\ window.orphans[r] \in Nat
              /\ Cardinality(InFlight(r)) \in Nat /\ Cardinality(Evaluators) \in Nat
<1>1. window \in WindowRow
  BY DEF GateTypeOK, WindowRow
<1> QED
  BY <1>1, Numbers, GateAssumption DEF GateTypeOK, WindowRow

\* A step that opens no window and grants nothing, and after which what is no longer
\* under way is counted or lost.
LEMMA WindowKept ==
  ASSUME IInv, GateTypeOK', NEW S \in Gate, Current' = S, S.start = Current.start, clock' = clock,
         window'.from = window.from, window'.granted = window.granted,
         window'.orphans = window.orphans,
         \A r \in Rules :
           /\ window'.lost[r] \in Nat /\ window'.lost[r] >= window.lost[r]
           /\ Cardinality(InFlight(r)') \in Nat
           /\ S.count[r] + Cardinality(InFlight(r)') + window'.lost[r] >=
                Current.count[r] + Cardinality(InFlight(r)) + window.lost[r]
  PROVE  WindowOK'
<1>1. GateTypeOK /\ Current \in Gate /\ WindowOK
  BY CurrentState DEF IInv
<1>2. \A r \in Rules : S.count[r] \in Nat /\ Current.count[r] \in Nat
  BY <1>1 DEF Gate
<1>3. ASSUME NEW r \in Rules
      PROVE  /\ window'.granted[r] <=
                  S.count[r] + Cardinality(InFlight(r)') + window'.lost[r] + window'.orphans[r]
             /\ Over(S) /\ clock - window.from <= Window =>
                  window'.granted[r] <= window'.lost[r] + window'.orphans[r]
             /\ window'.granted[r] <=
                  Ceiling - 1 + Cardinality(Evaluators) + window'.lost[r] + window'.orphans[r]
  <2>1. /\ window.granted[r] <=
             Current.count[r] + Cardinality(InFlight(r)) + window.lost[r] + window.orphans[r]
        /\ Over(S) /\ clock - window.from <= Window =>
             window.granted[r] <= window.lost[r] + window.orphans[r]
        /\ window.granted[r] <=
             Ceiling - 1 + Cardinality(Evaluators) + window.lost[r] + window.orphans[r]
    BY <1>1 DEF WindowOK, Serves, WindowBounded, Over
  <2> QED
    BY <1>1, <1>2, <2>1, WindowNumbers
<1>4. ~(clock' - Current'.start > Window) => window'.from <= Current'.start
  BY <1>1 DEF WindowOK, Serves, Over
<1>5. Serves(Current)'
  BY <1>3, <1>4 DEF Serves, Over
<1>6. WindowBounded'
  BY <1>3 DEF WindowBounded
<1> QED
  BY <1>1, <1>5, <1>6 DEF WindowOK

\* The steps of an evaluator other than the check.
LEMMA WorkedWindow ==
  ASSUME IInv, GateTypeOK', NEW e \in Evaluators,
         \/ Start(e) \/ Act(e) \/ Insert(e) \/ Count(e)
         \/ Record(e) \/ RecordLost(e) \/ Leave(e)
  PROVE  WindowOK'
<1>1. GateTypeOK /\ EvalOK /\ Current \in Gate /\ clock' = clock
  BY CurrentState DEF IInv, Start, Act, Insert, Count, Record, RecordLost, Leave
<1>2. \A r \in Rules : Current.count[r] \in Nat
  BY <1>1 DEF Gate
<1>3. CASE Start(e) \/ Act(e) \/ Insert(e) \/ Count(e)
  <2>1. PICK x :
          /\ eval' = [eval EXCEPT ![e] = x]
          /\ \/ eval[e].at = "idle" /\ x.at = "check"
             \/ eval[e].at \in Working /\ x.at \in Working /\ x.rule = eval[e].rule
    <3>1. CASE Start(e)
      <4>1. PICK event \in Events, matched \in SUBSET Rules :
              eval' = [eval EXCEPT ![e] = [at |-> "check", todo |-> matched, rule |-> NoRule, event |-> event]]
        BY <3>1 DEF Start
      <4> QED
        BY <3>1, <4>1 DEF Start
    <3>2. ASSUME NEW place, Move(e, place)
          PROVE  /\ eval' = [eval EXCEPT ![e] = Stance(e, place, eval[e].todo, eval[e].rule)]
                 /\ Stance(e, place, eval[e].todo, eval[e].rule).at = place
                 /\ Stance(e, place, eval[e].todo, eval[e].rule).rule = eval[e].rule
      BY <1>1, <3>2, Stances DEF Stance
    <3>3. CASE Act(e)
      BY <3>2, <3>3 DEF Act, Working
    <3>4. CASE Insert(e)
      BY <3>2, <3>4 DEF Insert, Working
    <3>5. CASE Count(e)
      BY <3>2, <3>5 DEF Count, Working
    <3> QED BY <1>3, <3>1, <3>3, <3>4, <3>5
  <2>2. UNCHANGED <<clock, mem, disk, window>>
    BY <1>3 DEF Start, Act, Insert, Count
  <2>3. \A r \in Rules : Cardinality(InFlight(r)') = Cardinality(InFlight(r))
    <3> TAKE r \in Rules
    <3>1. Busy(eval[e], r) <=> Busy(x, r)
      BY <2>1 DEF Busy, Working
    <3> QED
      BY <1>1, <2>1, <3>1, MovedWork
  <2>4. Current' = Current
    BY <2>2 DEF Current, Fresh
  <2> QED
    BY <1>1, <1>2, <2>2, <2>3, <2>4, WindowNumbers, WindowKept
<1>4. CASE RecordLost(e) \/ Leave(e)
  <2>1. PICK x : eval' = [eval EXCEPT ![e] = x] /\ x.at \in {"check", "idle"}
    <3>1. CASE RecordLost(e)
      <4>1. eval' = [eval EXCEPT ![e] = Stance(e, "check", eval[e].todo, NoRule)]
        BY <1>1, <3>1, Stances DEF RecordLost
      <4>2. Stance(e, "check", eval[e].todo, NoRule).at = "check"
        BY DEF Stance
      <4> QED
        BY <4>1, <4>2
    <3>2. CASE Leave(e)
      <4>1. eval' = [eval EXCEPT ![e] = Idle] /\ Idle.at = "idle"
        BY <3>2 DEF Leave, Idle
      <4> QED
        BY <4>1
    <3> QED BY <1>4, <3>1, <3>2
  <2>2. UNCHANGED <<clock, mem, disk>> /\ LoseReport(e)
    BY <1>4 DEF RecordLost, Leave
  <2>3. \A r \in Rules :
          /\ Cardinality(InFlight(r)') \in Nat /\ window'.lost[r] \in Nat
          /\ window'.lost[r] >= window.lost[r]
          /\ Cardinality(InFlight(r)') + window'.lost[r] = Cardinality(InFlight(r)) + window.lost[r]
    <3> TAKE r \in Rules
    <3>1. ~Busy(x, r) /\ (e \in InFlight(r) <=> Busy(eval[e], r))
      BY <2>1 DEF Busy, Working, InFlight
    <3>2. Cardinality(InFlight(r)') = Cardinality(InFlight(r)) - (IF e \in InFlight(r) THEN 1 ELSE 0)
      <4>1. CASE Busy(eval[e], r)
        BY <1>1, <2>1, <3>1, <4>1, MovedWork
      <4>2. CASE ~Busy(eval[e], r)
        <5>1. Cardinality(InFlight(r)') = Cardinality(InFlight(r))
          BY <1>1, <2>1, <3>1, <4>2, MovedWork
        <5> QED
          BY <1>1, <3>1, <4>2, <5>1, WindowNumbers
      <4> QED BY <4>1, <4>2
    <3>3. Cardinality(InFlight(r)') \in Nat
      BY <1>1, <2>1, Moved
    <3>4. window'.lost[r] = window.lost[r] + (IF e \in InFlight(r) THEN 1 ELSE 0)
      BY <1>1, <2>2, LoseFields
    <3> QED
      BY <1>1, <3>2, <3>3, <3>4, WindowNumbers
  <2>4. Current' = Current
    BY <2>2 DEF Current, Fresh
  <2>5. /\ window'.from = window.from /\ window'.granted = window.granted
        /\ window'.orphans = window.orphans
    BY <1>1, <2>2, LoseFields
  <2>6. \A r \in Rules :
          Current.count[r] + Cardinality(InFlight(r)') + window'.lost[r] >=
            Current.count[r] + Cardinality(InFlight(r)) + window.lost[r]
    BY <1>1, <1>2, <2>3, WindowNumbers
  <2> QED
    BY <1>1, <2>3, <2>4, <2>5, <2>6, WindowKept
<1>5. CASE Record(e)
  <2> DEFINE q == eval[e].rule
             x == Stance(e, "check", eval[e].todo, NoRule)
  <2>1. q \in Rules /\ KeyOf(e) \in DedupKeys /\ eval[e].at = "record"
    BY <1>1, <1>5 DEF Record, EvalOK, Working, KeyOf, DedupKeys
  <2>2. PICK S \in Gate :
          S = Recorded(q, KeyOf(e)) /\ S.count = [Current.count EXCEPT ![q] = @ + 1] /\ S.start = Current.start
    <3> DEFINE T == Recorded(eval[e].rule, KeyOf(e))
    <3>1. /\ T \in Gate /\ T.count = [Current.count EXCEPT ![eval[e].rule] = @ + 1]
          /\ T.start = Current.start
      BY <2>1, RecordedState
    <3> HIDE DEF T
    <3>2. T = Recorded(q, KeyOf(e))
      BY DEF T
    <3> QED
      BY <3>1, <3>2
  <2>3. Current' = S /\ window' = window
    BY <1>5, <2>2, GateAssumption DEF Record, Save, Current
  <2>4. eval' = [eval EXCEPT ![e] = x] /\ x.at = "check"
    BY <1>1, <1>5, Stances DEF Record, Stance
  <2> HIDE DEF x, q
  <2>5. ASSUME NEW r \in Rules
        PROVE  /\ Cardinality(InFlight(r)') \in Nat
               /\ S.count[r] + Cardinality(InFlight(r)') = Current.count[r] + Cardinality(InFlight(r))
    <3>1. ~Busy(x, r) /\ (Busy(eval[e], r) <=> r = q)
      BY <2>1, <2>4 DEF Busy, Working, q
    <3>2. Cardinality(InFlight(r)') \in Nat
      BY <1>1, <2>4, Moved
    <3>3. CASE r = q
      <4>1. Cardinality(InFlight(r)') = Cardinality(InFlight(r)) - 1
        BY <1>1, <2>4, <3>1, <3>3, MovedWork
      <4>2. S.count[r] = Current.count[r] + 1
        BY <1>1, <2>1, <2>2, <3>3 DEF Gate
      <4> QED
        BY <1>1, <1>2, <3>2, <4>1, <4>2, WindowNumbers
    <3>4. CASE r # q
      <4>1. Cardinality(InFlight(r)') = Cardinality(InFlight(r))
        BY <1>1, <2>4, <3>1, <3>4, MovedWork
      <4>2. S.count[r] = Current.count[r]
        BY <1>1, <2>2, <3>4 DEF Gate
      <4> QED
        BY <3>2, <4>1, <4>2
    <3> QED BY <3>3, <3>4
  <2>6. \A r \in Rules :
          S.count[r] + Cardinality(InFlight(r)') + window.lost[r] >=
            Current.count[r] + Cardinality(InFlight(r)) + window.lost[r]
    BY <1>1, <1>2, <2>5, WindowNumbers
  <2>7. \A r \in Rules :
          /\ window'.lost[r] \in Nat /\ window'.lost[r] >= window.lost[r]
          /\ Cardinality(InFlight(r)') \in Nat
          /\ S.count[r] + Cardinality(InFlight(r)') + window'.lost[r] >=
               Current.count[r] + Cardinality(InFlight(r)) + window.lost[r]
    BY <1>1, <2>3, <2>5, <2>6, WindowNumbers
  <2>8. /\ window'.from = window.from /\ window'.granted = window.granted
        /\ window'.orphans = window.orphans
    BY <2>3
  <2>9. Current' = S /\ S.start = Current.start
    BY <2>2, <2>3
  <2> QED
    BY <1>1, <2>7, <2>8, <2>9, WindowKept
<1> QED BY <1>3, <1>4, <1>5

\* The check, which may open a window, and grants an execution below the limit only.
LEMMA CheckedWindow ==
  ASSUME IInv, GateTypeOK', NEW e \in Evaluators, Check(e)
  PROVE  WindowOK'
<1>1. /\ GateTypeOK /\ WindowOK /\ Current \in Gate /\ Rolled \in Gate
      /\ eval[e].at = "check" /\ clock' = clock
  BY CurrentState, RolledState DEF IInv, Check
<1>2. PICK q \in eval[e].todo :
        LET k == <<q, eval[e].event>>
        IN /\ mem' = Checked(q, k)
           /\ IF Granted(q, k)
              THEN /\ eval' = [eval EXCEPT ![e] = Stance(e, "act", eval[e].todo \ {q}, q)]
                   /\ window' = [Opened(q, k) EXCEPT !.granted[q] = @ + 1]
              ELSE /\ eval' = [eval EXCEPT ![e] = Stance(e, "check", eval[e].todo \ {q}, eval[e].rule)]
                   /\ window' = Opened(q, k)
  BY <1>1, Stances
<1> DEFINE k == <<q, eval[e].event>>
           S == Checked(q, k)
           w == Opened(q, k)
           one == IF Granted(q, k) THEN 1 ELSE 0
<1>3. q \in Rules
  BY <1>1 DEF GateTypeOK
<1>4. S \in Gate /\ Current' = S
  <2>1. S \in Gate
    BY <1>1 DEF Checked
  <2> QED
    BY <1>2, <2>1, GateAssumption DEF Current
<1>5. /\ w \in WindowRow
      /\ Opens(q, k) => /\ w.from = clock
                        /\ \A r \in Rules : w.granted[r] = 0 /\ w.lost[r] = 0 /\ w.orphans[r] = 0
      /\ ~Opens(q, k) => w = window
  BY <1>1, NewWindowFields DEF Opened, GateTypeOK, WindowRow
<1>6. /\ window'.from = w.from /\ window'.lost = w.lost /\ window'.orphans = w.orphans
      /\ \A r \in Rules : window'.granted[r] = w.granted[r] + (IF r = q THEN one ELSE 0)
  <2>1. w.lost \in [Rules -> Nat] /\ w.granted \in [Rules -> Nat]
    BY <1>5 DEF WindowRow
  <2>2. CASE Granted(q, k)
    <3>1. window' = [w EXCEPT !.granted[q] = @ + 1]
      BY <1>2, <2>2
    <3> HIDE DEF w, k
    <3> QED
      BY <1>3, <1>5, <2>1, <2>2, <3>1, WindowFields
  <2>3. CASE ~Granted(q, k)
    <3>1. window' = w
      BY <1>2, <2>3
    <3> HIDE DEF w, k
    <3> QED
      BY <2>1, <2>3, <3>1
  <2> QED BY <2>2, <2>3
<1>7. \A r \in Rules :
        /\ Cardinality(InFlight(r)') \in Nat
        /\ Cardinality(InFlight(r)') = Cardinality(InFlight(r)) + (IF r = q THEN one ELSE 0)
        /\ r = q => Cardinality(InFlight(r)) <= Cardinality(Evaluators) - 1
  <2> TAKE r \in Rules
  <2>1. /\ e \notin InFlight(r) /\ InFlight(r) \subseteq Evaluators \ {e}
        /\ InFlight(r) \subseteq Evaluators /\ InFlight(r)' \subseteq Evaluators
    BY <1>1 DEF InFlight
  <2>2. Cardinality(InFlight(r)) <= Cardinality(Evaluators) - 1
    <3>1. IsFiniteSet(Evaluators) /\ Cardinality(Evaluators \ {e}) = Cardinality(Evaluators) - 1
      BY GateAssumption, FS_RemoveElement
    <3>2. IsFiniteSet(Evaluators \ {e})
      BY <3>1, FS_Subset
    <3> QED
      BY <2>1, <3>1, <3>2, FS_Subset
  <2>3. PICK x : /\ eval' = [eval EXCEPT ![e] = x]
                 /\ Granted(q, k) => x.at = "act" /\ x.rule = q
                 /\ ~Granted(q, k) => x.at = "check"
    <3>1. CASE Granted(q, k)
      <4>1. eval' = [eval EXCEPT ![e] = Stance(e, "act", eval[e].todo \ {q}, q)]
        BY <1>2, <3>1
      <4>2. /\ Stance(e, "act", eval[e].todo \ {q}, q).at = "act"
            /\ Stance(e, "act", eval[e].todo \ {q}, q).rule = q
        BY DEF Stance
      <4> HIDE DEF k
      <4> QED
        BY <3>1, <4>1, <4>2
    <3>2. CASE ~Granted(q, k)
      <4>1. eval' = [eval EXCEPT ![e] = Stance(e, "check", eval[e].todo \ {q}, eval[e].rule)]
        BY <1>2, <3>2
      <4>2. Stance(e, "check", eval[e].todo \ {q}, eval[e].rule).at = "check"
        BY DEF Stance
      <4> HIDE DEF k
      <4> QED
        BY <3>2, <4>1, <4>2
    <3> QED BY <3>1, <3>2
  <2>4. /\ \A d \in Evaluators : d # e => (d \in InFlight(r) <=> d \in InFlight(r)')
        /\ e \in InFlight(r)' <=> Granted(q, k) /\ r = q
    BY <1>1, <2>3 DEF InFlight, GateTypeOK
  <2> HIDE DEF k
  <2>5. CASE Granted(q, k) /\ r = q
    <3>1. Cardinality(InFlight(r)') = Cardinality(InFlight(r)) + 1
      BY <2>1, <2>4, <2>5, OneMoves
    <3> QED
      BY <2>1, <2>2, <2>4, <2>5, <3>1, OneMoves
  <2>6. CASE ~(Granted(q, k) /\ r = q)
    <3>1. Cardinality(InFlight(r)') = Cardinality(InFlight(r)) /\ Cardinality(InFlight(r)) \in Nat
      BY <2>1, <2>4, <2>6, OneMoves
    <3> QED
      BY <2>2, <2>6, <3>1
  <2> QED BY <2>5, <2>6
<1>8. Granted(q, k) => S = Rolled /\ Rolled.count[q] <= Ceiling - 1
  <2>1. Rolled.limits[q] \in Settings
    BY <1>1, <1>3 DEF Gate
  <2>2. Rolled.limits[q].max <= Ceiling /\ Rolled.limits[q].max \in Nat
    BY <2>1, GateAssumption
  <2>3. Rolled.count[q] \in Nat /\ Ceiling \in Nat
    BY <1>1, <1>3, GateAssumption DEF Gate
  <2> QED
    BY <2>2, <2>3 DEF Granted, Within, Checked
<1>9. \A r \in Rules : S.count[r] \in Nat
  BY <1>4 DEF Gate
<1>10. S.start \in Nat /\ Current.start \in Nat
  BY <1>1, <1>4 DEF Gate
<1>11. \/ S = Current /\ (~Denied(q, k) => ~WindowOver)
       \/ /\ ~Denied(q, k) /\ WindowOver
          /\ S.start = clock /\ \A r \in Rules : S.count[r] = 0
          /\ Opens(q, k) <=> clock - window.from > Window
  BY <1>1, RolledState DEF Checked, Opens
\* What remains is arithmetic on these numbers.
<1>12. /\ w.from <= clock /\ (~Over(S) => w.from <= S.start)
       /\ \A r \in Rules :
            /\ w.granted[r] <=
                 S.count[r] + Cardinality(InFlight(r)) + w.lost[r] + w.orphans[r]
            /\ Over(S) /\ clock - w.from <= Window => w.granted[r] <= w.lost[r] + w.orphans[r]
            /\ w.granted[r] <= Ceiling - 1 + Cardinality(Evaluators) + w.lost[r] + w.orphans[r]
       /\ Granted(q, k) => ~Over(S)
  <2>1. CASE Opens(q, k)
    <3>1. S.start = clock
      BY <2>1 DEF Opens, Checked
    <3>2. ~Over(S)
      BY <1>1, <3>1, WindowNumbers DEF Over
    <3> QED
      BY <1>1, <1>5, <1>9, <2>1, <3>1, <3>2, WindowNumbers
  <2>2. CASE ~Opens(q, k) /\ S = Current /\ (~Denied(q, k) => ~WindowOver)
    <3>1. w = window
      BY <1>5, <2>2
    <3>2. Granted(q, k) => ~Over(S)
      BY <2>2 DEF Granted, Over, WindowOver
    <3> HIDE DEF S, w, k
    <3> QED
      BY <1>1, <2>2, <3>1, <3>2 DEF WindowOK, Serves, WindowBounded
  <2>3. CASE /\ ~Opens(q, k) /\ WindowOver /\ clock - window.from <= Window
             /\ S.start = clock /\ \A r \in Rules : S.count[r] = 0
    <3>1. w = window
      BY <1>5, <2>3
    <3>2. ~Over(S)
      BY <1>1, <2>3, WindowNumbers DEF Over
    <3>3. window.from <= clock
      BY <1>1 DEF WindowOK
    <3>4. \A r \in Rules :
            /\ window.granted[r] <= window.lost[r] + window.orphans[r]
            /\ window.granted[r] <=
                 Ceiling - 1 + Cardinality(Evaluators) + window.lost[r] + window.orphans[r]
      BY <1>1, <2>3 DEF WindowOK, Serves, WindowBounded, Over, WindowOver
    <3> HIDE DEF S, w, k
    <3> QED
      BY <1>1, <2>3, <3>1, <3>2, <3>3, <3>4, WindowNumbers
  <2> QED
    BY <1>1, <1>11, <2>1, <2>2, <2>3, WindowNumbers
<1>13. w.from \in Nat /\ \A r \in Rules : w.granted[r] \in Nat /\ w.lost[r] \in Nat /\ w.orphans[r] \in Nat
  BY <1>5 DEF WindowRow
<1> HIDE DEF S, w, k
<1>14. ASSUME NEW r \in Rules
       PROVE  /\ window'.granted[r] <=
                   S.count[r] + Cardinality(InFlight(r)') + window'.lost[r] + window'.orphans[r]
              /\ Over(S) /\ clock - w.from <= Window =>
                   window'.granted[r] <= window'.lost[r] + window'.orphans[r]
              /\ window'.granted[r] <=
                   Ceiling - 1 + Cardinality(Evaluators) + window'.lost[r] + window'.orphans[r]
  <2>1. one \in {0, 1} /\ (one = 1 => Granted(q, k))
    OBVIOUS
  <2> HIDE DEF one
  <2>2. CASE r = q /\ one = 1
    <3>1. S.count[r] <= Ceiling - 1 /\ ~Over(S)
      BY <1>8, <1>12, <2>1, <2>2
    <3> QED
      BY <1>1, <1>6, <1>7, <1>9, <1>12, <1>13, <2>2, <3>1, WindowNumbers
  <2>3. CASE ~(r = q /\ one = 1)
    <3>1. /\ window'.granted[r] = w.granted[r]
          /\ Cardinality(InFlight(r)') = Cardinality(InFlight(r))
      BY <1>1, <1>6, <1>7, <1>13, <2>1, <2>3, WindowNumbers
    <3> QED
      BY <1>6, <1>12, <3>1
  <2> QED BY <2>2, <2>3
<1>15. Serves(Current)'
  BY <1>1, <1>4, <1>6, <1>12, <1>14 DEF Serves, Over
<1>16. WindowBounded'
  BY <1>14 DEF WindowBounded
<1> QED
  BY <1>1, <1>6, <1>12, <1>15, <1>16 DEF WindowOK

\* New limits leave the window as it is; a reset opens one.
LEMMA OrderedWindow ==
  ASSUME IInv, GateTypeOK', (\E r \in Rules : SetLimits(r)) \/ Reset
  PROVE  WindowOK'
<1>1. /\ GateTypeOK /\ Current \in Gate /\ Fresh \in Gate /\ Fresh # NoState
      /\ clock' = clock /\ eval' = eval
  BY CurrentState, FreshState DEF IInv, SetLimits, Reset
<1>2. \A r : InFlight(r)' = InFlight(r)
  BY <1>1 DEF InFlight
<1>3. ASSUME NEW r \in Rules, SetLimits(r) PROVE WindowOK'
  <2>1. PICK s \in Settings : Save([Current EXCEPT !.limits[r] = s])
    BY <1>3 DEF SetLimits
  <2>2. PICK S \in Gate :
          S = [Current EXCEPT !.limits[r] = s] /\ S.count = Current.count /\ S.start = Current.start
    BY LimitedState
  <2>3. Current' = S /\ window' = window
    BY <1>3, <2>1, <2>2, GateAssumption DEF SetLimits, Save, Current
  <2>4. \A q \in Rules : S.count[q] = Current.count[q] /\ Current.count[q] \in Nat
    BY <1>1, <2>2 DEF Gate
  <2>5. \A q \in Rules :
          /\ window'.lost[q] \in Nat /\ window'.lost[q] >= window.lost[q]
          /\ Cardinality(InFlight(q)') \in Nat
          /\ S.count[q] + Cardinality(InFlight(q)') + window'.lost[q] >=
               Current.count[q] + Cardinality(InFlight(q)) + window.lost[q]
    BY <1>1, <1>2, <2>3, <2>4, WindowNumbers
  <2>6. Current' = S /\ S.start = Current.start
    BY <2>2, <2>3
  <2>7. /\ window'.from = window.from /\ window'.granted = window.granted
        /\ window'.orphans = window.orphans
    BY <2>3
  <2> QED
    BY <1>1, <2>5, <2>6, <2>7, WindowKept
<1>4. ASSUME Reset PROVE WindowOK'
  <2>1. Current' = Fresh /\ window' = NewWindow
    BY <1>1, <1>4 DEF Reset, Save, Current
  <2>2. Fresh.start = clock /\ \A r \in Rules : Fresh.count[r] = 0
    BY DEF Fresh
  <2>3. /\ window'.from = clock
        /\ \A r \in Rules : window'.granted[r] = 0 /\ window'.lost[r] = 0 /\ window'.orphans[r] = 0
    BY <1>1, <2>1, NewWindowFields
  <2>4. WindowBounded'
    BY <1>1, <2>3, WindowNumbers DEF WindowBounded
  <2>5. Serves(Current)'
    BY <1>1, <1>2, <2>1, <2>2, <2>3, WindowNumbers DEF Serves, Over
  <2> QED
    BY <1>1, <2>3, <2>4, <2>5, WindowNumbers DEF WindowOK
<1> QED BY <1>3, <1>4

\* An eviction that forgets a window, in which nothing was reported, excuses what is
\* under way.
LEMMA EvictedWindow ==
  ASSUME IInv, GateTypeOK', Evict
  PROVE  WindowOK'
<1>1. /\ GateTypeOK /\ SameWindow /\ WindowOK /\ Current \in Gate /\ Fresh \in Gate
      /\ mem # NoState /\ mem' = NoState /\ UNCHANGED <<clock, disk, eval>>
      /\ Current = mem
  BY CurrentState, FreshState DEF IInv, Evict, Current
<1>2. \A r : InFlight(r)' = InFlight(r)
  BY <1>1 DEF InFlight
<1>3. \A r \in Rules : Current.count[r] \in Nat
  BY <1>1 DEF Gate
<1>4. CASE disk # NoState /\ mem.count = disk.count /\ mem.start = disk.start
  <2>1. Current' = disk /\ disk \in Gate /\ window' = window
    BY <1>1, <1>4 DEF Current, Evict, GateTypeOK
  <2> QED
    BY <1>1, <1>2, <1>3, <1>4, <2>1, WindowNumbers, WindowKept
<1>5. CASE /\ disk # NoState /\ Over(disk) /\ mem.start # disk.start
           /\ \A r \in Rules : mem.count[r] = 0
  <2> DEFINE f == [r \in Rules |-> window.orphans[r] + Cardinality(InFlight(r))]
  <2>1. Current' = disk /\ disk \in Gate /\ \A r \in Rules : disk.count[r] \in Nat
    BY <1>1, <1>5 DEF Current, GateTypeOK, Gate
  <2>2. window' = [window EXCEPT !.orphans = f]
    BY <1>5 DEF Evict
  <2>3. \A r \in Rules : f[r] = window.orphans[r] + Cardinality(InFlight(r))
    OBVIOUS
  <2> HIDE DEF f
  <2>4. /\ window'.from = window.from /\ window'.granted = window.granted
        /\ window'.lost = window.lost /\ window'.orphans = f
    BY <1>1, <2>2 DEF GateTypeOK
  <2>5. ASSUME NEW r \in Rules
        PROVE  /\ window'.granted[r] <= window'.lost[r] + window'.orphans[r]
               /\ window'.granted[r] <=
                    disk.count[r] + Cardinality(InFlight(r)') + window'.lost[r] + window'.orphans[r]
               /\ window'.granted[r] <=
                    Ceiling - 1 + Cardinality(Evaluators) + window'.lost[r] + window'.orphans[r]
    <3>1. window.granted[r] <=
            Current.count[r] + Cardinality(InFlight(r)) + window.lost[r] + window.orphans[r]
      BY <1>1 DEF WindowOK, Serves
    <3> QED
      BY <1>1, <1>2, <1>5, <2>1, <2>3, <2>4, <3>1, WindowNumbers
  <2>6. Serves(Current)'
    BY <1>1, <1>5, <2>1, <2>5 DEF Serves, Over
  <2>7. WindowBounded'
    BY <2>5 DEF WindowBounded
  <2> QED
    BY <1>1, <2>4, <2>6, <2>7 DEF WindowOK
<1>6. CASE disk = NoState /\ \A r \in Rules : mem.count[r] = 0
  <2>1. Current' = Fresh /\ window' = window
    BY <1>1, <1>6 DEF Current, Evict, Fresh
  <2>2. Fresh.start = clock /\ \A r \in Rules : Fresh.count[r] = 0
    BY DEF Fresh
  <2>3. Serves(Current)'
    BY <1>1, <1>2, <1>6, <2>1, <2>2, WindowNumbers DEF WindowOK, Serves, Over
  <2>4. WindowBounded'
    BY <1>1, <2>1 DEF WindowOK, WindowBounded
  <2> QED
    BY <1>1, <2>1, <2>3, <2>4 DEF WindowOK
<1> QED
  BY <1>1, <1>4, <1>5, <1>6 DEF SameWindow

\* Time passes: a window that is over now was opened long enough ago.
LEMMA TickedWindow ==
  ASSUME IInv, GateTypeOK', Tick \/ UNCHANGED vars
  PROVE  WindowOK'
<1>1. /\ GateTypeOK /\ WindowOK /\ Current \in Gate
      /\ UNCHANGED <<mem, disk, eval, window>> /\ (clock' = clock \/ clock' = clock + 1)
  BY CurrentState DEF IInv, Tick, vars
<1>2. \A r : InFlight(r)' = InFlight(r)
  BY <1>1 DEF InFlight
<1>3. WindowBounded'
  BY <1>1 DEF WindowOK, WindowBounded
<1>4. clock' \in Nat /\ clock \in Nat /\ clock' >= clock
  BY <1>1 DEF GateTypeOK
<1>5. CASE Current' = Current
  <2>1. Current.start \in Nat
    BY <1>1 DEF Gate
  <2>2. ~Over(Current)' => window.from <= Current.start
    <3>1. ~(clock' - Current.start > Window) => ~(clock - Current.start > Window)
      BY <1>4, <2>1, GateAssumption
    <3> QED
      BY <1>1, <1>5, <3>1 DEF WindowOK, Serves, Over
  <2>3. ASSUME NEW r \in Rules, clock' - Current.start > Window, clock' - window.from <= Window
        PROVE  window.granted[r] <= window.lost[r] + window.orphans[r]
    <3>1. clock - window.from <= Window
      BY <1>1, <1>4, <2>3, WindowNumbers
    <3>2. clock - Current.start > Window
      <4>1. ~(clock - Current.start > Window) => window.from <= Current.start
        BY <1>1 DEF WindowOK, Serves, Over
      <4> QED
        BY <1>1, <1>4, <2>1, <2>3, <4>1, WindowNumbers
    <3> QED
      BY <1>1, <3>1, <3>2 DEF WindowOK, Serves, Over
  <2>4. Serves(Current)'
    BY <1>1, <1>2, <1>5, <2>2, <2>3 DEF WindowOK, Serves, Over
  <2> QED
    BY <1>1, <1>3, <1>4, <2>4, WindowNumbers DEF WindowOK
<1>6. CASE mem = NoState /\ disk = NoState
  <2>1. /\ Current.start = clock /\ Current'.start = clock'
        /\ \A r \in Rules : Current.count[r] = 0 /\ Current'.count[r] = 0
    BY <1>1, <1>6 DEF Current, Fresh
  <2>2. window.from <= clock'
    BY <1>1, <1>4, WindowNumbers DEF WindowOK
  <2>3. ~(clock' - clock' > Window)
    <3>1. \A n \in Nat : n - n = 0
      OBVIOUS
    <3> QED
      BY <1>1, <1>4, <3>1, WindowNumbers
  <2>4. Serves(Current)'
    BY <1>1, <1>2, <2>1, <2>2, <2>3 DEF WindowOK, Serves, Over
  <2> QED
    BY <1>1, <1>3, <2>2, <2>4 DEF WindowOK
<1>7. mem # NoState \/ disk # NoState => Current' = Current
  BY <1>1 DEF Current
<1> QED
  BY <1>5, <1>6, <1>7

-----------------------------------------------------------------------------
(* The theorems *)

\* Nothing was acknowledged, counted or stored yet.
LEMMA InitIInv == Init => IInv
<1> SUFFICES ASSUME Init PROVE IInv
  OBVIOUS
<1>1. Fresh.last = [r \in Rules |-> 0] /\ Fresh.dedup = [k \in DedupKeys |-> 0]
      /\ Fresh.limits = [r \in Rules |-> Defaults]
  BY DEF Fresh
<1>2. GateTypeOK
  BY <1>1, GateAssumption DEF Init, GateTypeOK, Idle, Places, NewWindow, NoneYet
<1>3. EvalOK
  BY DEF Init, EvalOK, Idle, Working
<1>4. Stored /\ SameWindow
  BY <1>1 DEF Init, Stored, SameWindow, Blank
<1>6. WindowOK
  <2>1. /\ window.from = clock
        /\ \A r \in Rules : window.granted[r] = 0 /\ window.lost[r] = 0 /\ window.orphans[r] = 0
    BY <1>2, NewWindowFields DEF Init
  <2>2. Current.start = clock /\ \A r \in Rules : Current.count[r] = 0
    BY DEF Init, Current, Fresh
  <2>3. clock \in Nat /\ Ceiling \in Nat \ {0}
    BY <1>2, GateAssumption DEF GateTypeOK
  <2> QED
    BY <2>1, <2>2, <2>3, Numbers DEF WindowOK, Serves, Over, WindowBounded
<1>5. Written
  <2> SUFFICES ASSUME NEW r \in Rules
               PROVE  Cardinality(At(r, "record")) <= 0 /\ Cardinality(At(r, "stats")) <= 0
    BY Numbers DEF Init, Written
  <2>1. At(r, "record") = {} /\ At(r, "stats") = {}
    BY DEF Init, At, Idle
  <2> QED
    BY <2>1, FS_EmptySet
<1> QED
  BY <1>2, <1>3, <1>4, <1>5, <1>6 DEF IInv

\* The invariant holds in every state of every behaviour.
LEMMA Invariance == Spec => []IInv
<1>1. IInv /\ [Next]_vars => IInv'
  <2> SUFFICES ASSUME IInv, [Next]_vars PROVE IInv'
    OBVIOUS
  <2>1. GateTypeOK' /\ EvalOK'
    BY TypeStep
  <2>2. Stored' /\ SameWindow' /\ Written'
    BY <2>1, StepCases, CheckStep, WorkStep, RecordStep, OrderStep, SurroundStep
  <2>3. WindowOK'
    BY <2>1, StepCases, CheckedWindow, WorkedWindow, OrderedWindow, EvictedWindow, TickedWindow
  <2> QED
    BY <2>1, <2>2, <2>3 DEF IInv
<1> QED
  BY <1>1, InitIInv, PTL DEF Spec

\* The object and its evaluators keep their types.
THEOREM TypeCorrect == Spec => []GateTypeOK
BY Invariance, PTL DEF IInv

\* A window grants no more executions of a rule than its limit, one for every other
\* evaluator, the reports that were lost and those in flight at an eviction.
THEOREM WindowLimit == Spec => []WindowBounded
BY Invariance, PTL DEF IInv, WindowOK

\* Every execution that the gate counts was counted in D1, and has its row.
THEOREM Accounting == Spec => []CountedIsRecorded
<1>1. IInv => CountedIsRecorded
  <2> SUFFICES ASSUME IInv, NEW r \in Rules
               PROVE  Current.count[r] <= runs[r] /\ runs[r] <= rows[r]
    BY DEF CountedIsRecorded
  <2>1. /\ Current.count[r] + Cardinality(At(r, "record")) <= runs[r]
        /\ runs[r] + Cardinality(At(r, "stats")) <= rows[r]
    BY CurrentState DEF IInv, Fine, Counted, Written
  <2>2. Current.count[r] \in Nat /\ runs[r] \in Nat /\ rows[r] \in Nat
    BY CurrentState DEF IInv, GateTypeOK, Gate
  <2> QED
    BY <2>1, <2>2, Numbers
<1> QED
  BY <1>1, Invariance, PTL

\* Only a check grants an execution.
LEMMA GrantedByCheck ==
  ASSUME IInv, [Next]_vars, NEW e \in Evaluators, Grants(e)
  PROVE  /\ eval'[e].rule \in Rules /\ eval'[e].event \in Events
         /\ Granted(eval'[e].rule, <<eval'[e].rule, eval'[e].event>>)
<1>1. GateTypeOK /\ EvalOK /\ eval[e].at = "check" /\ eval'[e].at = "act"
  BY DEF IInv, Grants
<1>2. ASSUME NEW d \in Evaluators,
             \/ Start(d) \/ Check(d) \/ Act(d) \/ Insert(d) \/ Count(d)
             \/ Record(d) \/ RecordLost(d) \/ Leave(d)
      PROVE  d = e
  <2>1. ASSUME NEW x, eval' = [eval EXCEPT ![d] = x], d # e PROVE FALSE
    BY <1>1, <2>1 DEF GateTypeOK
  <2>2. \E x : eval' = [eval EXCEPT ![d] = x]
    BY <1>1, <1>2, Stances DEF Start, Act, Insert, Count, Record, RecordLost, Leave
  <2> QED BY <2>1, <2>2
<1>3. Check(e)
  <2>1. eval' # eval
    BY <1>1
  <2>2. ~Start(e) /\ ~Act(e) /\ ~Insert(e) /\ ~Count(e) /\ ~Record(e) /\ ~RecordLost(e)
    BY <1>1 DEF Start, Act, Insert, Count, Record, RecordLost
  <2>3. ~Leave(e)
    BY <1>1 DEF Leave, Idle, GateTypeOK
  <2>4. UNCHANGED eval => FALSE
    BY <2>1
  <2> QED
    BY <1>2, <2>2, <2>3, <2>4, StepCases DEF SetLimits, Reset, Evict, Tick, vars
<1>4. PICK q \in eval[e].todo :
        IF Granted(q, <<q, eval[e].event>>)
        THEN eval' = [eval EXCEPT ![e] = Stance(e, "act", eval[e].todo \ {q}, q)]
        ELSE eval' = [eval EXCEPT ![e] = Stance(e, "check", eval[e].todo \ {q}, eval[e].rule)]
  BY <1>1, <1>3, Stances
<1>5. CASE Granted(q, <<q, eval[e].event>>)
  <2>1. eval'[e] = Stance(e, "act", eval[e].todo \ {q}, q)
    BY <1>1, <1>4, <1>5 DEF GateTypeOK
  <2>2. eval'[e].rule = q /\ eval'[e].event = eval[e].event
    BY <2>1 DEF Stance
  <2>3. q \in Rules /\ eval[e].event \in Events
    BY <1>1 DEF GateTypeOK, EvalOK
  <2> QED BY <1>5, <2>2, <2>3
<1>6. CASE ~Granted(q, <<q, eval[e].event>>)
  <2>1. eval'[e] = Stance(e, "check", eval[e].todo \ {q}, eval[e].rule)
    BY <1>1, <1>4, <1>6 DEF GateTypeOK
  <2> QED
    BY <1>1, <2>1 DEF Stance
<1> QED BY <1>5, <1>6

\* No execution of a rule is granted within its cooldown of the last one that was
\* acknowledged, whatever left memory since.
THEOREM Cooldown == Spec => CooldownKept
<1>1. ASSUME IInv, [Next]_vars, NEW e \in Evaluators, Grants(e)
      PROVE  \/ promise.last[eval'[e].rule] = 0
             \/ clock - promise.last[eval'[e].rule] >= promise.limits[eval'[e].rule].cooldown
  <2> DEFINE r == eval'[e].rule
  <2>1. r \in Rules /\ ~Cooling(r)
    BY <1>1, GrantedByCheck DEF Granted, Denied
  <2>2. Current.last = promise.last /\ Current.limits = promise.limits
    BY <1>1, CurrentState DEF Fine, Keeps
  <2>3. promise.last[r] \in Nat /\ clock \in Nat /\ promise.limits[r] \in Settings
    BY <1>1, <2>1 DEF IInv, GateTypeOK
  <2>4. promise.limits[r].cooldown \in Nat
    BY <2>3, GateAssumption
  <2> HIDE DEF r
  <2>5. promise.last[r] = 0 \/ clock - promise.last[r] >= promise.limits[r].cooldown
    BY <2>1, <2>2, <2>3, <2>4 DEF Cooling
  <2> QED BY <2>5 DEF r
<1>2. IInv /\ [Next]_vars =>
        [\A e \in Evaluators :
           Grants(e) =>
             LET r == eval'[e].rule
             IN promise.last[r] = 0 \/ clock - promise.last[r] >= promise.limits[r].cooldown]_vars
  BY <1>1
<1> QED
  BY <1>2, Invariance, PTL DEF Spec, CooldownKept

\* No execution is granted twice within the lifetime of its key.
THEOREM Deduplication == Spec => DedupKept
<1>1. ASSUME IInv, [Next]_vars, NEW e \in Evaluators, Grants(e)
      PROVE  \/ promise.keys[<<eval'[e].rule, eval'[e].event>>] = 0
             \/ clock - promise.keys[<<eval'[e].rule, eval'[e].event>>] >= DedupTtl
  <2> DEFINE k == <<eval'[e].rule, eval'[e].event>>
  <2>1. k \in DedupKeys /\ ~Duplicate(k)
    BY <1>1, GrantedByCheck DEF Granted, Denied, DedupKeys
  <2> HIDE DEF k
  <2>2. \/ promise.keys[k] = 0
        \/ Current.dedup[k] = promise.keys[k] + DedupTtl
        \/ clock >= promise.keys[k] + DedupTtl
    BY <1>1, <2>1, CurrentState DEF Fine, Keeps
  <2>3. promise.keys[k] \in Nat /\ clock \in Nat /\ DedupTtl \in Nat /\ Current.dedup[k] \in Nat
    BY <1>1, <2>1, CurrentState, GateAssumption DEF IInv, GateTypeOK, Gate
  <2>4. promise.keys[k] = 0 \/ clock - promise.keys[k] >= DedupTtl
    BY <2>1, <2>2, <2>3 DEF Duplicate
  <2> QED BY <2>4 DEF k
<1>2. IInv /\ [Next]_vars =>
        [\A e \in Evaluators :
           Grants(e) =>
             LET k == <<eval'[e].rule, eval'[e].event>>
             IN promise.keys[k] = 0 \/ clock - promise.keys[k] >= DedupTtl]_vars
  BY <1>1
<1> QED
  BY <1>2, Invariance, PTL DEF Spec, DedupKept

=============================================================================
