-------------------------- MODULE AtlasWorkflowProofs --------------------------
(***************************************************************************)
(* Proofs about AtlasWorkflow, for any apps, any classifications, any      *)
(* numbers of attempts and any faults: its types, the four invariants of   *)
(* the run `saga', and that it implements RunLifecycle.                    *)
(***************************************************************************)
EXTENDS AtlasWorkflow, SequenceTheorems, TLAPS

-----------------------------------------------------------------------------
(* The step lists *)

\* A step that calls an adapter names its app.
Steps == {s \in [prefix : Prefixes, app : Apps \cup {NoApp}, op : Ops] :
            s.op \in {"provision", "deprovision"} => s.app \in Apps}

\* What two lists of steps make together.
LEMMA Together ==
  ASSUME NEW s \in Seq(Steps), NEW t \in Seq(Steps)
  PROVE  /\ s \o t \in Seq(Steps)
         /\ Len(s) \in Nat /\ Len(t) \in Nat /\ Len(s \o t) = Len(s) + Len(t)
         /\ \A i \in 1 .. Len(s) : (s \o t)[i] = s[i]
         /\ \A i \in 1 .. Len(t) : (s \o t)[Len(s) + i] = t[i]
<1>1. Len(s) \in Nat /\ Len(t) \in Nat
  BY LenProperties
<1>2. /\ s \o t \in Seq(Steps)
      /\ Len(s \o t) = Len(s) + Len(t)
      /\ \A i \in 1 .. Len(s) + Len(t) : (s \o t)[i] = IF i <= Len(s) THEN s[i] ELSE t[i - Len(s)]
  BY ConcatProperties
<1>3. \A i \in 1 .. Len(s) : (s \o t)[i] = s[i]
  BY <1>1, <1>2
<1>4. \A i \in 1 .. Len(t) : (s \o t)[Len(s) + i] = t[i]
  <2> TAKE i \in 1 .. Len(t)
  <2>1. Len(s) + i \in 1 .. Len(s) + Len(t) /\ ~(Len(s) + i <= Len(s)) /\ (Len(s) + i) - Len(s) = i
    BY <1>1
  <2> QED
    BY <2>1, <1>2
<1> QED
  BY <1>1, <1>2, <1>3, <1>4

\* One step for each app, in the order of the apps.
LEMMA ForList ==
  ASSUME NEW prefix \in Prefixes, NEW op \in Ops, NEW apps \in Seq(Apps)
  PROVE  /\ For(prefix, op, apps) \in Seq(Steps)
         /\ Len(For(prefix, op, apps)) = Len(apps)
         /\ \A n \in 1 .. Len(apps) : For(prefix, op, apps)[n] = Step(prefix, apps[n], op)
<1>1. Len(apps) \in Nat /\ DOMAIN apps = 1 .. Len(apps)
  BY LenProperties
<1>2. \A n \in 1 .. Len(apps) : Step(prefix, apps[n], op) \in Steps
  BY ElementOfSeq DEF Step, Steps
<1>3. For(prefix, op, apps) = [n \in 1 .. Len(apps) |-> Step(prefix, apps[n], op)]
  BY <1>1 DEF For
<1>4. For(prefix, op, apps) \in Seq(Steps)
  BY <1>1, <1>2, <1>3
<1> QED
  BY <1>1, <1>3, <1>4

\* The revocations of credentials, with their evidence.
LEMMA CredentialList ==
  ASSUME NEW j \in JobType
  PROVE  CredentialSteps(j) \in Seq(Steps)
<1> DEFINE revoke == [n \in 1 .. j.credentials |-> Step("revoke_nhi", NoApp, "revoke_nhi")]
           emit   == <<Step("emit_nhi", NoApp, "evidence")>>
<1>1. j.credentials \in Nat
  BY DEF JobType
<1>2. Step("revoke_nhi", NoApp, "revoke_nhi") \in Steps
  BY DEF Step, Steps, Prefixes, Ops
<1>3. Step("emit_nhi", NoApp, "evidence") \in Steps
  BY DEF Step, Steps, Prefixes, Ops
<1>4. revoke \in Seq(Steps)
  BY <1>1, <1>2
<1>5. emit \in Seq(Steps)
  BY <1>3
<1>6. revoke \o emit \in Seq(Steps)
  BY <1>4, <1>5, ConcatProperties
<1> QED
  BY <1>6 DEF CredentialSteps

\* The body of each kind of run is a list of steps.
LEMMA BodyList ==
  ASSUME NEW j \in JobType
  PROVE  Body(j) \in Seq(Steps)
<1>1. j.provision \in Seq(Apps) /\ j.revoke \in Seq(Apps) /\ j.action \in Actions
  BY DEF JobType
<1>2. /\ For("provision", "provision", j.provision) \in Seq(Steps)
      /\ For("provision_new", "provision", j.provision) \in Seq(Steps)
      /\ For("revoke", "deprovision", j.revoke) \in Seq(Steps)
      /\ For("revoke_old", "deprovision", j.revoke) \in Seq(Steps)
  BY <1>1, ForList DEF Prefixes, Ops
<1>3. For("revoke", "deprovision", j.revoke) \o CredentialSteps(j) \in Seq(Steps)
  BY <1>2, CredentialList, ConcatProperties
<1>4. For("revoke_old", "deprovision", j.revoke)
        \o For("provision_new", "provision", j.provision) \in Seq(Steps)
  BY <1>2, ConcatProperties
<1> QED
  BY <1>1, <1>2, <1>3, <1>4 DEF Body, Joins, Actions

\* definition.steps: the body between the resolution of the access and the evidence.
LEMMA MainList ==
  ASSUME NEW j \in JobType
  PROVE  /\ Main(j) \in Seq(Steps)
         /\ Len(Body(j)) \in Nat /\ Len(Main(j)) = Len(Body(j)) + 2
         /\ Main(j)[1].op = "resolve" /\ Main(j)[Len(Main(j))].op = "evidence"
         /\ \A n \in 1 .. Len(Body(j)) : Main(j)[n + 1] = Body(j)[n]
<1> DEFINE first == <<Step("resolve_access", NoApp, "resolve")>>
           last  == <<Step("emit_evidence", NoApp, "evidence")>>
           body  == Body(j)
<1>1. first \in Seq(Steps) /\ Len(first) = 1 /\ first[1].op = "resolve"
  BY DEF Step, Steps, Prefixes, Ops
<1>2. last \in Seq(Steps) /\ Len(last) = 1 /\ last[1].op = "evidence"
  BY DEF Step, Steps, Prefixes, Ops
<1>3. body \in Seq(Steps) /\ Len(body) \in Nat
  BY BodyList, LenProperties
<1>4. Main(j) = (first \o body) \o last
  BY DEF Main
<1> HIDE DEF first, last, body
<1>5. /\ first \o body \in Seq(Steps) /\ Len(first \o body) = 1 + Len(body)
      /\ (first \o body)[1] = first[1]
      /\ \A n \in 1 .. Len(body) : (first \o body)[1 + n] = body[n]
  BY <1>1, <1>3, Together
<1>6. /\ Main(j) \in Seq(Steps) /\ Len(Main(j)) = (1 + Len(body)) + 1
      /\ \A n \in 1 .. 1 + Len(body) : Main(j)[n] = (first \o body)[n]
      /\ Main(j)[(1 + Len(body)) + 1] = last[1]
  <2>1. /\ (first \o body) \o last \in Seq(Steps)
        /\ Len((first \o body) \o last) = Len(first \o body) + Len(last)
        /\ \A n \in 1 .. Len(first \o body) : ((first \o body) \o last)[n] = (first \o body)[n]
        /\ \A n \in 1 .. Len(last) : ((first \o body) \o last)[Len(first \o body) + n] = last[n]
    BY <1>2, <1>5, Together
  <2> QED
    BY <2>1, <1>2, <1>4, <1>5
<1>7. Main(j)[1] = first[1] /\ Main(j)[Len(Main(j))] = last[1]
  BY <1>3, <1>5, <1>6
<1>9. \A n \in 1 .. Len(body) : Main(j)[n + 1] = body[n]
  <2> TAKE n \in 1 .. Len(body)
  <2>1. n + 1 \in 1 .. 1 + Len(body) /\ n + 1 = 1 + n
    BY <1>3
  <2> QED
    BY <2>1, <1>5, <1>6
<1> QED
  BY <1>1, <1>2, <1>3, <1>6, <1>7, <1>9 DEF body

\* definition.onFailure: no compensation's handler reaches its adapter.
LEMMA UndoList ==
  ASSUME NEW j \in JobType
  PROVE  /\ Undo(j) \in Seq(Steps)
         /\ \A n \in 1 .. Len(Undo(j)) : ~Reaches(Undo(j)[n])
<1>1. j.provision \in Seq(Apps) /\ j.action \in Actions
  BY DEF JobType
<1>2. CASE Joins(j)
  <2>1. Undo(j) = For("provision", "deprovision", j.provision)
    BY <1>2 DEF Undo, Joins
  <2>2. /\ Undo(j) \in Seq(Steps) /\ Len(Undo(j)) = Len(j.provision)
        /\ \A n \in 1 .. Len(Undo(j)) : Undo(j)[n] = Step("provision", j.provision[n], "deprovision")
    BY <1>1, <2>1, ForList DEF Prefixes, Ops
  <2>3. ASSUME NEW n \in 1 .. Len(Undo(j))
        PROVE  Undo(j)[n].op = "deprovision" /\ Undo(j)[n].prefix = "provision"
    <3>1. Undo(j)[n] = [prefix |-> "provision", app |-> j.provision[n], op |-> "deprovision"]
      BY <2>2 DEF Step
    <3> QED
      BY <3>1
  <2> QED
    BY <2>2, <2>3 DEF Reaches
<1>3. CASE j.action = "mover"
  <2>1. Undo(j) = For("provision_new", "deprovision", j.provision)
    BY <1>3 DEF Undo, Joins
  <2>2. /\ Undo(j) \in Seq(Steps) /\ Len(Undo(j)) = Len(j.provision)
        /\ \A n \in 1 .. Len(Undo(j)) : Undo(j)[n] = Step("provision_new", j.provision[n], "deprovision")
    BY <1>1, <2>1, ForList DEF Prefixes, Ops
  <2>3. ASSUME NEW n \in 1 .. Len(Undo(j))
        PROVE  Undo(j)[n].op = "deprovision" /\ Undo(j)[n].prefix = "provision_new"
    <3>1. Undo(j)[n] = [prefix |-> "provision_new", app |-> j.provision[n], op |-> "deprovision"]
      BY <2>2 DEF Step
    <3> QED
      BY <3>1
  <2> QED
    BY <2>2, <2>3 DEF Reaches
<1>4. CASE j.action = "leaver"
  <2>1. Undo(j) = <<>>
    BY <1>4 DEF Undo, Joins
  <2> QED
    BY <2>1
<1> QED
  BY <1>1, <1>2, <1>3, <1>4 DEF Joins, Actions

\* The body of a joiner's run provisions, one app after the other.
LEMMA JoinerBody ==
  ASSUME NEW j \in JobType, Joins(j)
  PROVE  /\ Len(Body(j)) = Len(j.provision)
         /\ \A n \in 1 .. Len(j.provision) : Body(j)[n] = Step("provision", j.provision[n], "provision")
<1>1. j.provision \in Seq(Apps) /\ Body(j) = For("provision", "provision", j.provision)
  BY DEF JobType, Body, Joins
<1> QED
  BY <1>1, ForList DEF Prefixes, Ops

\* The body of a leaver's run revokes, one app after the other, and comes to the
\* credentials then.
LEMMA LeaverBody ==
  ASSUME NEW j \in JobType, j.action = "leaver"
  PROVE  /\ Len(j.revoke) \in Nat /\ Len(Body(j)) >= Len(j.revoke)
         /\ j.credentials = 0 => Len(Body(j)) = Len(j.revoke)
         /\ \A n \in 1 .. Len(j.revoke) : Body(j)[n] = Step("revoke", j.revoke[n], "deprovision")
         /\ \A n \in 1 .. Len(Body(j)) : Body(j)[n].op # "provision"
<1> DEFINE apps == For("revoke", "deprovision", j.revoke)
           tail == CredentialSteps(j)
<1>1. j.revoke \in Seq(Apps) /\ j.credentials \in Nat /\ Len(j.revoke) \in Nat
  BY LenProperties DEF JobType
<1>2. Body(j) = apps \o tail
  BY DEF Body, Joins
<1>3. /\ apps \in Seq(Steps) /\ Len(apps) = Len(j.revoke)
      /\ \A n \in 1 .. Len(apps) : apps[n] = Step("revoke", j.revoke[n], "deprovision")
  BY <1>1, ForList DEF Prefixes, Ops
<1>4. tail \in Seq(Steps) /\ Len(tail) \in Nat
  BY CredentialList, LenProperties
<1>5. j.credentials = 0 => Len(tail) = 0
  BY DEF CredentialSteps
<1>6. \A n \in 1 .. Len(tail) : tail[n].op # "provision"
  <2>1. CASE j.credentials = 0
    BY <2>1, <1>5
  <2>2. CASE j.credentials # 0
    <3> DEFINE revoke == [n \in 1 .. j.credentials |-> Step("revoke_nhi", NoApp, "revoke_nhi")]
               emit   == <<Step("emit_nhi", NoApp, "evidence")>>
    <3>1. tail = revoke \o emit
      BY <2>2 DEF CredentialSteps
    <3>2. /\ revoke \in Seq(Steps) /\ Len(revoke) = j.credentials
          /\ \A n \in 1 .. j.credentials : revoke[n].op = "revoke_nhi"
      <4>1. Step("revoke_nhi", NoApp, "revoke_nhi") \in Steps
            /\ Step("revoke_nhi", NoApp, "revoke_nhi").op = "revoke_nhi"
        BY DEF Step, Steps, Prefixes, Ops
      <4> QED
        BY <1>1, <4>1
    <3>3. emit \in Seq(Steps) /\ Len(emit) = 1 /\ emit[1].op = "evidence"
      BY DEF Step, Steps, Prefixes, Ops
    <3> HIDE DEF revoke, emit
    <3>4. /\ Len(revoke \o emit) = Len(revoke) + Len(emit)
          /\ \A n \in 1 .. Len(revoke) : (revoke \o emit)[n] = revoke[n]
          /\ \A n \in 1 .. Len(emit) : (revoke \o emit)[Len(revoke) + n] = emit[n]
      BY <3>2, <3>3, Together
    <3>5. /\ Len(tail) = j.credentials + 1
          /\ \A n \in 1 .. j.credentials : tail[n] = revoke[n]
          /\ tail[j.credentials + 1] = emit[1]
      BY <3>1, <3>2, <3>3, <3>4
    <3> QED
      BY <1>1, <3>2, <3>3, <3>5
  <2> QED BY <2>1, <2>2
<1> HIDE DEF apps, tail
<1>7. /\ Len(Body(j)) = Len(apps) + Len(tail)
      /\ \A n \in 1 .. Len(apps) : Body(j)[n] = apps[n]
      /\ \A n \in 1 .. Len(tail) : Body(j)[Len(apps) + n] = tail[n]
  BY <1>2, <1>3, <1>4, Together
<1>8. \A n \in 1 .. Len(j.revoke) : Body(j)[n] = Step("revoke", j.revoke[n], "deprovision")
  BY <1>3, <1>7
<1>9. \A n \in 1 .. Len(Body(j)) : Body(j)[n].op # "provision"
  <2> TAKE n \in 1 .. Len(Body(j))
  <2>1. CASE n <= Len(apps)
    <3>1. Body(j)[n] = Step("revoke", j.revoke[n], "deprovision")
      BY <2>1, <1>1, <1>3, <1>8
    <3> QED
      BY <3>1 DEF Step
  <2>2. CASE ~(n <= Len(apps))
    <3>1. n - Len(apps) \in 1 .. Len(tail) /\ Len(apps) + (n - Len(apps)) = n
      BY <2>2, <1>1, <1>3, <1>4, <1>7
    <3> QED
      BY <3>1, <1>6, <1>7
  <2> QED BY <2>1, <2>2
<1> QED
  BY <1>1, <1>3, <1>4, <1>5, <1>7, <1>8, <1>9

-----------------------------------------------------------------------------
(* The inductive invariant *)

\* The code stands at a step of the part it is in, and a step is answered only if
\* its handler reaches its call.
Standing ==
  /\ phase = "main" => pos \in 1 .. Len(Main(job))
  /\ phase = "undo" => pos \in 1 .. Len(Undo(job))
  /\ status = "none" => phase = "start"
  /\ status = "complete" => phase = "complete"
  /\ status = "errored" => phase \in {"start", "fail"}
  /\ at \in {"calling", "answered"} => CanReach

\* The compensations are tried one after the other.
Settled ==
  /\ phase \in {"start", "main", "complete"} => settled = {}
  /\ phase = "undo" => settled = 1 .. pos - 1
  /\ phase = "fail" => settled = 1 .. Len(Undo(job))

\* The runs all of whose handlers reach their calls
Smooth(j) == Joins(j) \/ (j.action = "leaver" /\ j.credentials = 0)

\* Every attempt after the first was paid for with a fault.
Paid ==
  Smooth(job) =>
    /\ phase \in {"start", "main", "complete"} => faults >= try - 1
    /\ phase \in {"undo", "fail"} \/ status = "errored" =>
         faults >= Attempts \/ faults >= RecordAttempts

\* What a run is for: an account in every app, or in none.
Single(j) == Joins(j) \/ j.action = "leaver"
Wanted(j) == IF Joins(j) THEN j.provision ELSE j.revoke
Toward(j) == IF Joins(j) THEN "provision" ELSE "deprovision"
Against(j) == IF Joins(j) THEN "deprovision" ELSE "provision"
Has(app) == IF Joins(job) THEN app \in access ELSE app \notin access

\* The n-th app has been dealt with.
Reached(n) ==
  \/ phase = "main" /\ (pos > n + 1 \/ (pos = n + 1 /\ at = "answered"))
  \/ phase = "complete" \/ row = "completed"

\* And stays so, since no call of the run that is still on its way undoes it.
Effective ==
  Single(job) =>
    /\ \A n \in 1 .. Len(Wanted(job)) : Reached(n) => Has(Wanted(job)[n])
    /\ \A app \in Apps : late[<<Against(job), app>>] = 0

IInv == AtlasTypeOK /\ Standing /\ Settled /\ Paid /\ Effective

-----------------------------------------------------------------------------
(* The steps of the runs with one direction *)

\* Of a joiner's and a leaver's run: their steps go in one direction only.
LEMMA SingleSteps ==
  ASSUME NEW j \in JobType, Single(j)
  PROVE  /\ Len(Wanted(j)) \in Nat /\ Len(Main(j)) \in Nat /\ Len(Main(j)) >= Len(Wanted(j)) + 2
         /\ \A n \in 1 .. Len(Wanted(j)) :
              /\ Wanted(j)[n] \in Apps
              /\ Main(j)[n + 1].op = Toward(j) /\ Main(j)[n + 1].app = Wanted(j)[n]
         /\ \A n \in 1 .. Len(Main(j)) : Main(j)[n].op # Against(j)
<1>1. Wanted(j) \in Seq(Apps)
  BY DEF Wanted, JobType
<1>2. Len(Wanted(j)) \in Nat /\ \A n \in 1 .. Len(Wanted(j)) : Wanted(j)[n] \in Apps
  BY <1>1, LenProperties, ElementOfSeq
<1>3. \A n \in 1 .. Len(Wanted(j)) : \E prefix \in Prefixes : Body(j)[n] = Step(prefix, Wanted(j)[n], Toward(j))
  <2>1. CASE Joins(j)
    BY <2>1, JoinerBody DEF Wanted, Toward, Prefixes
  <2>2. CASE j.action = "leaver"
    <3>1. ~Joins(j)
      BY <2>2 DEF Joins
    <3> QED
      BY <2>2, <3>1, LeaverBody DEF Wanted, Toward, Prefixes
  <2> QED BY <2>1, <2>2 DEF Single
<1>4. Len(Body(j)) \in Nat /\ Len(Body(j)) >= Len(Wanted(j))
  <2>1. CASE Joins(j)
    BY <2>1, <1>2, JoinerBody DEF Wanted
  <2>2. CASE j.action = "leaver"
    <3>1. ~Joins(j)
      BY <2>2 DEF Joins
    <3> QED
      BY <2>2, <3>1, LeaverBody, MainList DEF Wanted
  <2> QED BY <2>1, <2>2 DEF Single
<1>5. \A n \in 1 .. Len(Wanted(j)) : Main(j)[n + 1].op = Toward(j) /\ Main(j)[n + 1].app = Wanted(j)[n]
  <2> TAKE n \in 1 .. Len(Wanted(j))
  <2>1. n \in 1 .. Len(Body(j))
    BY <1>2, <1>4
  <2>2. Main(j)[n + 1] = Body(j)[n]
    BY <2>1, MainList
  <2>3. PICK prefix \in Prefixes : Body(j)[n] = [prefix |-> prefix, app |-> Wanted(j)[n], op |-> Toward(j)]
    BY <1>3 DEF Step
  <2> QED
    BY <2>2, <2>3
<1>6. \A n \in 1 .. Len(Body(j)) : Body(j)[n].op # Against(j)
  <2>1. CASE Joins(j)
    <3> TAKE n \in 1 .. Len(Body(j))
    <3>1. Body(j)[n] = [prefix |-> "provision", app |-> j.provision[n], op |-> "provision"]
      BY <2>1, JoinerBody DEF Step
    <3> QED
      BY <2>1, <3>1 DEF Against
  <2>2. CASE j.action = "leaver"
    <3>1. ~Joins(j)
      BY <2>2 DEF Joins
    <3> QED
      BY <2>2, <3>1, LeaverBody DEF Against
  <2> QED BY <2>1, <2>2 DEF Single
<1>7. \A n \in 1 .. Len(Main(j)) : Main(j)[n].op # Against(j)
  <2> TAKE n \in 1 .. Len(Main(j))
  <2>1. CASE n = 1 \/ n = Len(Main(j))
    BY <2>1, MainList DEF Against
  <2>2. CASE n # 1 /\ n # Len(Main(j))
    <3>1. n - 1 \in 1 .. Len(Body(j)) /\ (n - 1) + 1 = n
      BY <2>2, <1>4, MainList
    <3> QED
      BY <3>1, <1>6, MainList
  <2> QED BY <2>1, <2>2
<1> QED
  BY <1>2, <1>4, <1>5, <1>7, MainList

\* All their handlers reach their calls, except those that revoke credentials.
LEMMA SmoothSteps ==
  ASSUME NEW j \in JobType, Smooth(j)
  PROVE  \A n \in 1 .. Len(Main(j)) : Reaches(Main(j)[n])
<1>1. \A n \in 1 .. Len(Body(j)) : Reaches(Body(j)[n])
  <2> TAKE n \in 1 .. Len(Body(j))
  <2>1. CASE Joins(j)
    <3>1. Body(j)[n] = [prefix |-> "provision", app |-> j.provision[n], op |-> "provision"]
      BY <2>1, JoinerBody DEF Step
    <3>2. Body(j)[n].prefix = "provision" /\ Body(j)[n].op = "provision"
      BY <3>1
    <3> QED
      BY <3>2 DEF Reaches
  <2>2. CASE j.action = "leaver" /\ j.credentials = 0
    <3>1. Body(j)[n] = [prefix |-> "revoke", app |-> j.revoke[n], op |-> "deprovision"]
      BY <2>2, LeaverBody DEF Step
    <3>2. Body(j)[n].prefix = "revoke" /\ Body(j)[n].op = "deprovision"
      BY <3>1
    <3> QED
      BY <3>2 DEF Reaches
  <2> QED BY <2>1, <2>2 DEF Smooth
<1> TAKE n \in 1 .. Len(Main(j))
<1>2. CASE n = 1 \/ n = Len(Main(j))
  BY <1>2, MainList DEF Reaches
<1>3. CASE n # 1 /\ n # Len(Main(j))
  <2>1. n - 1 \in 1 .. Len(Body(j)) /\ (n - 1) + 1 = n
    BY <1>3, MainList
  <2> QED
    BY <2>1, <1>1, MainList
<1> QED BY <1>2, <1>3

-----------------------------------------------------------------------------
(* What a step does to the course of run() *)

Charged == faults' = faults + 1 \/ (~CanReach /\ faults' = faults)

\* It leaves the code where it was,
Quiet ==
  /\ UNCHANGED <<status, phase, pos, try, done, settled>>
  /\ at' \in Places /\ (at' \in {"calling", "answered"} => CanReach)
  /\ faults' \in {faults, faults + 1}

\* or has it try again,
Again ==
  /\ Running /\ try < Limit /\ try' = try + 1 /\ at' = "ready" /\ Charged
  /\ UNCHANGED <<status, phase, pos, done, settled>>

\* or give the step up,
GivesUp == Running /\ try >= Limit /\ StepFails /\ Charged

\* or go on with the next,
GoesOn == Running /\ at = "answered" /\ StepSucceeds /\ faults' = faults

\* or starts the run or ends it from outside.
Outside ==
  /\ \/ status = "none" /\ status' = "running"
     \/ Running /\ status' = "terminated"
  /\ UNCHANGED <<phase, pos, at, try, done, settled, faults>>

\* Every step is one of these.
LEMMA Courses ==
  ASSUME AtlasTypeOK, Standing, [Next]_vars
  PROVE  job' = job /\ (Quiet \/ Again \/ GivesUp \/ GoesOn \/ Outside)
<1> USE DEF Quiet, Places, AtlasTypeOK, Standing
<1>1. ASSUME AttemptFails, Running, Charged PROVE Again \/ GivesUp
  <2>1. CASE try < Limit /\ try' = try + 1 /\ at' = "ready" /\ UNCHANGED <<status, phase, pos, done, settled>>
    BY <1>1, <2>1 DEF Again
  <2>2. CASE try >= Limit /\ StepFails
    BY <1>1, <2>2 DEF GivesUp
  <2> QED BY <1>1, <2>1, <2>2 DEF AttemptFails
<1>2. CASE Create
  BY <1>2 DEF Create, Outside
<1>3. CASE InsertRow
  BY <1>3 DEF InsertRow
<1>4. CASE Wake
  BY <1>4 DEF Wake
<1>5. CASE Dispatch
  <2>1. CASE CanReach /\ at' = "calling" /\ UNCHANGED <<status, phase, pos, try, done, settled>>
    BY <1>5, <2>1 DEF Dispatch
  <2>2. CASE ~CanReach /\ AttemptFails
    BY <1>5, <2>2, <1>1 DEF Dispatch, Charged
  <2> QED BY <1>5, <2>1, <2>2 DEF Dispatch
<1>6. CASE Take
  BY <1>6 DEF Take
<1>7. CASE Succeed
  BY <1>7 DEF Succeed, GoesOn
<1>8. CASE Refuse
  BY <1>8, <1>1 DEF Refuse, Fault, Charged
<1>9. CASE TimeOut
  BY <1>9, <1>1 DEF TimeOut, Fault, Charged
<1>10. CASE Crash
  BY <1>10 DEF Crash, Fault
<1>11. CASE Terminate
  BY <1>11 DEF Terminate, Outside
<1>12. CASE Land
  BY <1>12 DEF Land
<1>13. CASE UNCHANGED vars
  BY <1>13 DEF vars
<1> QED
  BY <1>2, <1>3, <1>4, <1>5, <1>6, <1>7, <1>8, <1>9, <1>10, <1>11, <1>12, <1>13 DEF Next, Progress

\* Where a step that was given up, or done, leaves the code.
LEMMA After ==
  ASSUME AtlasTypeOK, Standing, job' = job, StepFails \/ StepSucceeds, Running
  PROVE  \* the end
         \/ /\ UNCHANGED <<phase, pos, at, try>>
            /\ \/ status' = "errored" /\ phase \in {"start", "fail"} /\ (phase = "start" => StepFails)
               \/ status' = "complete" /\ phase = "complete" /\ StepSucceeds
            /\ settled' = settled
         \* the next step of definition.steps, or the record of its end
         \/ /\ status' = status /\ at' \in {"asleep", "ready"} /\ try' = 1 /\ StepSucceeds
            /\ settled' = settled
            /\ \/ phase = "start" /\ phase' = "main" /\ pos' = 1
               \/ phase = "main" /\ phase' = "main" /\ pos' = pos + 1 /\ pos < Len(Main(job))
               \/ phase = "main" /\ phase' = "complete" /\ pos' = 1 /\ pos = Len(Main(job))
         \* the catch block
         \/ /\ status' = status /\ at' = "ready" /\ try' = 1
            /\ \/ phase' = "undo" /\ pos' <= Len(Undo(job)) /\ Len(Undo(job)) # 0
               \/ phase' = "fail" /\ pos' = 1
            /\ \/ /\ phase \in {"main", "complete"} /\ StepFails /\ settled' = settled
                  /\ phase' = "undo" => pos' = 1
                  /\ phase' = "fail" => Len(Undo(job)) = 0
               \/ /\ phase = "undo" /\ settled' = settled \cup {pos}
                  /\ phase' = "undo" => pos' = pos + 1
                  /\ phase' = "fail" => pos = Len(Undo(job))
<1>1. job \in JobType
  BY JobAssumption DEF AtlasTypeOK
<1>2. Len(Undo(job)) \in Nat /\ Len(Main(job)) \in Nat \ {0}
  BY <1>1, MainList, UndoList, LenProperties
<1>3. phase \in Phases /\ pos \in Nat \ {0} /\ status = "running"
  BY DEF AtlasTypeOK, Running
<1>4. CASE phase = "start"
  BY <1>4 DEF StepFails, StepSucceeds, Settle, Stand, End
<1>5. CASE phase = "main"
  <2>1. pos \in 1 .. Len(Main(job))
    BY <1>5 DEF Standing
  <2>2. CASE StepFails
    BY <1>2, <1>3, <1>5, <2>2 DEF StepFails, Settle, Stand, ToUndo
  <2>3. CASE StepSucceeds
    BY <1>2, <1>3, <1>5, <2>1, <2>3 DEF StepSucceeds, Settle, Stand
  <2> QED BY <2>2, <2>3
<1>6. CASE phase = "complete"
  BY <1>2, <1>3, <1>6 DEF StepFails, StepSucceeds, Settle, Stand, ToUndo, End
<1>7. CASE phase = "undo"
  <2>1. pos \in 1 .. Len(Undo(job))
    BY <1>7 DEF Standing
  <2>2. ToUndo(pos + 1) /\ settled' = settled \cup {pos}
    BY <1>7 DEF StepFails, StepSucceeds, Settle
  <2> QED
    BY <1>2, <1>3, <1>7, <2>1, <2>2 DEF ToUndo, Stand
<1>8. CASE phase = "fail"
  BY <1>8 DEF StepFails, StepSucceeds, Settle, End
<1> QED
  BY <1>3, <1>4, <1>5, <1>6, <1>7, <1>8 DEF Phases

-----------------------------------------------------------------------------
(* What a step does to the accounts and the row *)

\* A call of an attempt that is given up is on its way.
Sent(c) == at = "calling" /\ c = <<Cur.op, Cur.app>> /\ late' = [late EXCEPT ![c] = @ + 1]

\* Either it changes neither an account nor the end in the row, or the call of the
\* step takes effect, or one that is late does.
LEMMA Effects ==
  ASSUME AtlasTypeOK, Standing, [Next]_vars
  PROVE  \/ /\ access' = access /\ (row' = row \/ row' = "running")
            /\ late' = late \/ \E c \in Calls : Sent(c)
            /\ ~(at' = "answered" /\ at # "answered")
         \/ /\ Running /\ at = "calling" /\ Applied(Cur.op, Cur.app) /\ late' = late
            /\ row' = RowAfter /\ UNCHANGED <<phase, pos, status>>
         \/ /\ \E c \in Calls : late[c] > 0 /\ late' = [late EXCEPT ![c] = @ - 1] /\ Applied(c[1], c[2])
            /\ UNCHANGED <<phase, pos, status, at, row>>
<1> USE DEF AtlasTypeOK
<1>1. Abandon => late' = late \/ \E c \in Calls : Sent(c)
  BY DEF Abandon, Sent
<1>2. AttemptFails => at' # "answered" \/ at = "answered"
  BY DEF AttemptFails, StepFails, ToUndo, Stand, End
<1>3. StepSucceeds => at' # "answered" \/ at = "answered"
  BY DEF StepSucceeds, ToUndo, Stand, End
<1>4. CASE Create \/ InsertRow \/ Wake
  BY <1>4 DEF Create, InsertRow, Wake
<1>5. CASE Dispatch
  BY <1>5, <1>2 DEF Dispatch
<1>6. CASE Take
  BY <1>6 DEF Take
<1>7. CASE Succeed
  BY <1>7, <1>3 DEF Succeed
<1>8. CASE Refuse
  BY <1>8, <1>2 DEF Refuse
<1>9. CASE TimeOut
  BY <1>9, <1>1, <1>2 DEF TimeOut
<1>10. CASE Crash
  BY <1>10, <1>1 DEF Crash
<1>11. CASE Terminate
  BY <1>11, <1>1 DEF Terminate
<1>12. CASE Land
  BY <1>12 DEF Land
<1>13. CASE UNCHANGED vars
  BY <1>13 DEF vars
<1> QED
  BY <1>4, <1>5, <1>6, <1>7, <1>8, <1>9, <1>10, <1>11, <1>12, <1>13 DEF Next, Progress

\* The step the code is at is one of its lists' or writes the row, and what it
\* calls has an app.
LEMMA CurrentStep ==
  ASSUME AtlasTypeOK, Standing
  PROVE  /\ Cur.op \in {"provision", "deprovision"} => Cur.app \in Apps
         /\ phase \notin {"main", "undo"} => Cur.op = "record"
         /\ phase = "undo" => ~Reaches(Cur) /\ Cur # Record
<1>1. job \in JobType
  BY JobAssumption DEF AtlasTypeOK
<1>2. Record.op = "record"
  BY DEF Record, Step
<1>3. CASE phase = "main"
  <2>1. Cur = Main(job)[pos] /\ pos \in 1 .. Len(Main(job))
    BY <1>3 DEF Cur, Standing
  <2>2. Cur \in Steps
    BY <1>1, <2>1, MainList, ElementOfSeq
  <2> QED
    BY <1>3, <2>2 DEF Steps
<1>4. CASE phase = "undo"
  <2>1. Cur = Undo(job)[pos] /\ pos \in 1 .. Len(Undo(job))
    BY <1>4 DEF Cur, Standing
  <2>2. Cur \in Steps /\ ~Reaches(Cur)
    BY <1>1, <2>1, UndoList, ElementOfSeq
  <2>3. Cur # Record
    BY <1>2, <2>2 DEF Steps, Ops
  <2> QED
    BY <1>4, <2>2, <2>3 DEF Steps
<1>5. CASE phase \notin {"main", "undo"}
  BY <1>2, <1>5 DEF Cur
<1> QED
  BY <1>3, <1>4, <1>5

-----------------------------------------------------------------------------
(* The steps keep the invariant *)

\* The types.
LEMMA TypeStep ==
  ASSUME AtlasTypeOK, Standing, [Next]_vars
  PROVE  AtlasTypeOK'
<1>1. job \in JobType
  BY JobAssumption DEF AtlasTypeOK
<1>2. /\ job' \in Jobs /\ status' \in Statuses /\ phase' \in Phases /\ pos' \in Nat \ {0}
      /\ at' \in Places /\ try' \in Nat \ {0} /\ settled' \subseteq Nat
  <2>1. job' = job
    BY Courses
  <2>2. CASE Quiet \/ Again \/ Outside
    <3>1. phase' = phase /\ pos' = pos /\ settled' = settled
      BY <2>2 DEF Quiet, Again, Outside
    <3>2. status' \in Statuses /\ at' \in Places
      BY <2>2 DEF Quiet, Again, Outside, AtlasTypeOK, Places, Statuses
    <3>3. try' \in Nat \ {0}
      BY <2>2 DEF Quiet, Again, Outside, AtlasTypeOK
    <3> QED
      BY <2>1, <3>1, <3>2, <3>3 DEF AtlasTypeOK
  <2>3. CASE GivesUp \/ GoesOn
    <3>1. Running /\ (StepFails \/ StepSucceeds)
      BY <2>3 DEF GivesUp, GoesOn
    <3>2. status' \in Statuses /\ at' \in Places /\ phase' \in Phases
      BY <2>1, <3>1, After DEF AtlasTypeOK, Places, Statuses, Phases
    <3>3. try' \in Nat \ {0}
      BY <2>1, <3>1, After DEF AtlasTypeOK
    <3>4. pos' \in Nat \ {0}
      BY <2>1, <3>1, After DEF AtlasTypeOK
    <3>5. settled' \subseteq Nat
      BY <3>1 DEF StepFails, StepSucceeds, Settle, AtlasTypeOK
    <3> QED
      BY <2>1, <3>2, <3>3, <3>4, <3>5 DEF AtlasTypeOK
  <2> QED BY <2>2, <2>3, Courses
<1>3. done' \in Nat /\ faults' \in Nat
  BY Courses DEF Quiet, Again, Outside, GivesUp, GoesOn, Charged, StepFails, StepSucceeds, AtlasTypeOK
<1>4. access' \subseteq Apps
  <2>1. ASSUME Applied(Cur.op, Cur.app) PROVE access' \subseteq Apps
    BY <2>1, CurrentStep DEF Applied, AtlasTypeOK
  <2>2. ASSUME NEW c \in Calls, Applied(c[1], c[2]) PROVE access' \subseteq Apps
    BY <2>2 DEF Applied, Calls, AtlasTypeOK
  <2> QED BY <2>1, <2>2, Effects DEF AtlasTypeOK
<1>5. late' \in [Calls -> Nat]
  <2>1. ASSUME NEW c \in Calls, Sent(c) PROVE late' \in [Calls -> Nat]
    BY <2>1 DEF Sent, AtlasTypeOK
  <2>2. ASSUME NEW c \in Calls, late[c] > 0, late' = [late EXCEPT ![c] = @ - 1]
        PROVE  late' \in [Calls -> Nat]
    BY <2>2 DEF AtlasTypeOK
  <2> QED BY <2>1, <2>2, Effects DEF AtlasTypeOK
<1>6. row' \in {"absent", "running", "completed", "failed"}
  BY Effects DEF RowAfter, AtlasTypeOK
<1> QED
  BY <1>2, <1>3, <1>4, <1>5, <1>6 DEF AtlasTypeOK

\* Where the code stands, and what it has tried there.
LEMMA CourseStep ==
  ASSUME AtlasTypeOK, Standing, Settled, [Next]_vars
  PROVE  Standing' /\ Settled'
<1>1. job \in JobType /\ job' = job
  BY JobAssumption, Courses DEF AtlasTypeOK
<1>2. Len(Undo(job)) \in Nat /\ Len(Main(job)) \in Nat \ {0}
  BY <1>1, MainList, UndoList, LenProperties
<1>3. CASE Quiet \/ Again \/ Outside
  <2>1. phase' = phase /\ pos' = pos /\ settled' = settled
    BY <1>3 DEF Quiet, Again, Outside
  <2>2. CanReach' = CanReach
    BY <1>1, <2>1 DEF CanReach, Cur
  <2>3. at' \in {"calling", "answered"} => CanReach
    BY <1>3 DEF Quiet, Again, Outside, Standing
  <2>4. status' = "none" => status = "none"
    BY <1>3 DEF Quiet, Again, Outside
  <2>5. status' \in {"complete", "errored"} => status' = status
    BY <1>3 DEF Quiet, Again, Outside
  <2> QED
    BY <1>1, <2>1, <2>2, <2>3, <2>4, <2>5 DEF Standing, Settled
<1>4. CASE GivesUp \/ GoesOn
  <2>1. Running /\ (StepFails \/ StepSucceeds)
    BY <1>4 DEF GivesUp, GoesOn
  <2>2. CASE /\ UNCHANGED <<phase, pos, at, try>> /\ settled' = settled
             /\ \/ status' = "errored" /\ phase \in {"start", "fail"}
                \/ status' = "complete" /\ phase = "complete"
    <3>1. CanReach' = CanReach
      BY <1>1, <2>2 DEF CanReach, Cur
    <3> QED
      BY <1>1, <2>2, <3>1 DEF Standing, Settled
  <2>3. CASE /\ status' = status /\ at' \in {"asleep", "ready"} /\ settled' = settled
             /\ \/ phase = "start" /\ phase' = "main" /\ pos' = 1
                \/ phase = "main" /\ phase' = "main" /\ pos' = pos + 1 /\ pos < Len(Main(job))
                \/ phase = "main" /\ phase' = "complete"
    BY <1>1, <1>2, <2>1, <2>3 DEF Standing, Settled, Running, AtlasTypeOK
  <2>4. CASE /\ status' = status /\ at' = "ready"
             /\ \/ phase' = "undo" /\ pos' <= Len(Undo(job)) /\ Len(Undo(job)) # 0
                \/ phase' = "fail" /\ pos' = 1
             /\ \/ /\ phase \in {"main", "complete"} /\ settled' = settled
                   /\ phase' = "undo" => pos' = 1
                   /\ phase' = "fail" => Len(Undo(job)) = 0
                \/ /\ phase = "undo" /\ settled' = settled \cup {pos}
                   /\ phase' = "undo" => pos' = pos + 1
                   /\ phase' = "fail" => pos = Len(Undo(job))
    <3>1. Standing'
      BY <1>1, <1>2, <2>1, <2>4 DEF Standing, Running, AtlasTypeOK
    <3>2. CASE phase \in {"main", "complete"}
      <4>1. settled = {} /\ settled' = {}
        BY <2>4, <3>2 DEF Settled
      <4>2. phase' = "undo" => 1 .. pos' - 1 = {}
        BY <2>4, <3>2
      <4>3. phase' = "fail" => 1 .. Len(Undo(job)) = {}
        BY <2>4, <3>2
      <4> QED
        BY <1>1, <2>4, <3>1, <4>1, <4>2, <4>3 DEF Settled
    <3>3. CASE phase = "undo"
      <4>1. settled = 1 .. pos - 1 /\ pos \in 1 .. Len(Undo(job))
        BY <3>3 DEF Settled, Standing
      <4>2. settled' = 1 .. pos
        <5>1. settled' = (1 .. pos - 1) \cup {pos}
          BY <2>4, <3>3, <4>1
        <5>2. pos \in Nat \ {0}
          BY <1>2, <4>1
        <5> QED
          BY <5>1, <5>2
      <4> QED
        BY <1>1, <1>2, <2>4, <3>1, <3>3, <4>1, <4>2 DEF Settled
    <3> QED BY <2>4, <3>1, <3>2, <3>3
  <2> QED
    BY <1>1, <2>1, <2>2, <2>3, <2>4, After
<1> QED
  BY <1>3, <1>4, Courses

\* The steps of a run whose handlers reach their calls cost a fault each time they
\* are tried again.
LEMMA PaidStep ==
  ASSUME AtlasTypeOK, Standing, Paid, [Next]_vars
  PROVE  Paid'
<1> SUFFICES ASSUME Smooth(job)
             PROVE  /\ phase' \in {"start", "main", "complete"} => faults' >= try' - 1
                    /\ phase' \in {"undo", "fail"} \/ status' = "errored" =>
                         faults' >= Attempts \/ faults' >= RecordAttempts
  BY Courses DEF Paid
<1>1. job \in JobType /\ job' = job
  BY JobAssumption, Courses DEF AtlasTypeOK
<1>2. faults \in Nat /\ try \in Nat /\ Attempts \in Nat /\ RecordAttempts \in Nat
  BY JobAssumption DEF AtlasTypeOK
<1>3. phase \in {"start", "main", "complete"} => CanReach
  <2>1. phase = "main" => Reaches(Cur)
    BY <1>1, SmoothSteps DEF Cur, Standing
  <2> QED
    BY <2>1 DEF CanReach, Cur
<1>4. phase \in {"start", "main", "complete"} => Limit = Attempts \/ Limit = RecordAttempts
  BY DEF Limit
<1>5. CASE Quiet \/ Outside
  BY <1>2, <1>5 DEF Quiet, Outside, Paid
<1>6. CASE Again
  BY <1>2, <1>3, <1>6 DEF Again, Charged, Paid, Standing, Running
<1>7. CASE GivesUp
  <2>1. phase \in {"start", "main", "complete"} => faults' >= Attempts \/ faults' >= RecordAttempts
    BY <1>2, <1>3, <1>4, <1>7 DEF GivesUp, Charged, Paid
  <2>2. faults' >= faults /\ faults' \in Nat
    BY <1>2, <1>7 DEF GivesUp, Charged
  <2>3. phase \in {"undo", "fail"} => faults' >= Attempts \/ faults' >= RecordAttempts
    BY <1>2, <2>2 DEF Paid
  <2>4. phase \in {"start", "main", "complete", "undo", "fail"}
    BY DEF AtlasTypeOK, Phases
  <2>5. phase' \in {"start", "main", "complete"} => (phase' = phase /\ try' = try) \/ try' = 1
    BY <1>1, <1>7, After DEF GivesUp
  <2>6. faults' >= try' - 1 \/ phase' \in {"undo", "fail"}
    BY <1>2, <2>2, <2>4, <2>5, TypeStep DEF Paid, AtlasTypeOK, Phases
  <2> QED
    BY <2>1, <2>3, <2>4, <2>6
<1>8. CASE GoesOn
  <2>1. Running /\ StepSucceeds /\ faults' = faults
    BY <1>8 DEF GoesOn
  <2>2. phase' \in {"start", "main", "complete"} => (phase' = phase /\ try' = try) \/ try' = 1
    BY <1>1, <2>1, After
  <2>3. phase' \in {"undo", "fail"} \/ status' = "errored" => phase \in {"undo", "fail"}
    BY <2>1 DEF StepSucceeds, Stand, End, ToUndo, Running
  <2> QED
    BY <1>2, <2>1, <2>2, <2>3 DEF Paid
<1> QED
  BY <1>5, <1>6, <1>7, <1>8, Courses

\* An app counts as dealt with only when its call has taken effect.
LEMMA ReachedStep ==
  ASSUME AtlasTypeOK, Standing, [Next]_vars, Single(job),
         NEW n \in 1 .. Len(Wanted(job)), Reached(n)'
  PROVE  Reached(n) \/ (phase = "main" /\ pos = n + 1 /\ Applied(Cur.op, Cur.app))
<1>1. job \in JobType /\ job' = job
  BY JobAssumption, Courses DEF AtlasTypeOK
<1>2. /\ Len(Wanted(job)) \in Nat /\ Len(Main(job)) \in Nat
      /\ Len(Main(job)) >= Len(Wanted(job)) + 2
  BY <1>1, SingleSteps
<1>3. pos \in Nat \ {0}
  BY DEF AtlasTypeOK
<1>4. CASE row' = "completed"
  BY <1>4, Effects DEF Reached, RowAfter
<1>5. CASE phase' = "complete"
  <2>1. CASE Quiet \/ Again \/ Outside
    BY <1>5, <2>1 DEF Quiet, Again, Outside, Reached
  <2>2. CASE GivesUp \/ GoesOn
    <3>1. Running /\ (StepFails \/ StepSucceeds)
      BY <2>2 DEF GivesUp, GoesOn
    <3>2. phase = "complete" \/ (phase = "main" /\ pos = Len(Main(job)))
      BY <1>1, <1>5, <3>1, After
    <3> QED
      BY <1>2, <1>3, <3>2 DEF Reached
  <2> QED BY <2>1, <2>2, Courses
<1>6. CASE phase' = "main"
  <2>1. CASE Quiet \/ Again \/ Outside
    <3>1. phase = "main" /\ pos' = pos
      BY <1>6, <2>1 DEF Quiet, Again, Outside
    <3>2. CASE at' = "answered" /\ at # "answered"
      <4>1. Quiet \/ Outside
        BY <2>1, <3>2 DEF Again
      <4>2. Applied(Cur.op, Cur.app)
        BY <3>2, Effects
      <4>3. pos > n + 1 \/ pos = n + 1 \/ row' = "completed"
        BY <3>1, <1>6 DEF Reached
      <4> QED
        BY <3>1, <4>2, <4>3, <1>4 DEF Reached
    <3>3. CASE ~(at' = "answered" /\ at # "answered")
      BY <1>4, <1>6, <3>1, <3>3 DEF Reached
    <3> QED BY <3>2, <3>3
  <2>2. CASE GivesUp \/ GoesOn
    <3>1. Running /\ (StepFails \/ StepSucceeds)
      BY <2>2 DEF GivesUp, GoesOn
    <3>2. /\ at' \in {"asleep", "ready"} /\ StepSucceeds
          /\ \/ phase = "start" /\ pos' = 1
             \/ phase = "main" /\ pos' = pos + 1
      BY <1>1, <1>6, <3>1, After
    <3>3. row' = "completed" \/ (phase = "main" /\ pos + 1 > n + 1)
      BY <1>2, <1>6, <3>2 DEF Reached
    <3>4. phase = "main" => ~StepFails
      BY <1>6 DEF StepFails, ToUndo, Stand
    <3>6. phase = "main" => at = "answered"
      BY <2>2, <3>4 DEF GivesUp, GoesOn
    <3> QED
      BY <1>2, <1>3, <1>4, <3>3, <3>6 DEF Reached
  <2> QED BY <2>1, <2>2, Courses
<1> QED
  BY <1>4, <1>5, <1>6 DEF Reached

\* What has been dealt with stays so.
LEMMA EffectiveStep ==
  ASSUME AtlasTypeOK, Standing, Effective, [Next]_vars
  PROVE  Effective'
<1>1. job \in JobType /\ job' = job
  BY JobAssumption, Courses DEF AtlasTypeOK
<1> SUFFICES ASSUME Single(job)
             PROVE  /\ \A n \in 1 .. Len(Wanted(job)) : Reached(n)' => Has(Wanted(job)[n])'
                    /\ \A app \in Apps : late'[<<Against(job), app>>] = 0
  BY <1>1 DEF Effective
<1>2. \A n \in 1 .. Len(Main(job)) : Main(job)[n].op # Against(job)
  BY <1>1, SingleSteps
<1>3. at = "calling" => Cur.op # Against(job)
  <2>1. CASE phase = "main"
    BY <2>1, <1>2 DEF Cur, Standing
  <2>2. CASE phase = "undo"
    BY <2>2, CurrentStep DEF Standing, CanReach
  <2>3. CASE phase \notin {"main", "undo"}
    BY <2>3, CurrentStep DEF Against
  <2> QED BY <2>1, <2>2, <2>3
<1>4. \A c \in Calls : late[c] > 0 => c[1] # Against(job)
  <2> TAKE c \in Calls
  <2>1. PICK op \in {"provision", "deprovision"}, app \in Apps : c = <<op, app>>
    BY DEF Calls
  <2>2. late[<<Against(job), app>>] = 0
    BY DEF Effective
  <2> QED
    BY <2>1, <2>2
<1>5. ASSUME NEW op, NEW app, op # Against(job), Applied(op, app)
      PROVE  \A x : Has(x) => Has(x)'
  BY <1>1, <1>5 DEF Applied, Against, Has
<1>6. ASSUME NEW app, Applied(Toward(job), app) PROVE Has(app)'
  BY <1>1, <1>6 DEF Applied, Toward, Has
<1>7. \A x : Has(x) => Has(x)'
  <2>1. CASE access' = access
    BY <1>1, <2>1 DEF Has
  <2>2. CASE at = "calling" /\ Applied(Cur.op, Cur.app)
    BY <1>3, <1>5, <2>2
  <2>3. ASSUME NEW c \in Calls, late[c] > 0, Applied(c[1], c[2]) PROVE \A x : Has(x) => Has(x)'
    BY <1>4, <1>5, <2>3
  <2> QED BY <2>1, <2>2, <2>3, Effects
<1>8. ASSUME NEW n \in 1 .. Len(Wanted(job)), Reached(n)'
      PROVE  Has(Wanted(job)[n])'
  <2>1. CASE Reached(n)
    <3>1. Has(Wanted(job)[n])
      BY <2>1 DEF Effective
    <3> QED
      BY <1>1, <1>7, <3>1 DEF Has
  <2>2. CASE phase = "main" /\ pos = n + 1 /\ Applied(Cur.op, Cur.app)
    <3>1. Cur.op = Toward(job) /\ Cur.app = Wanted(job)[n]
      BY <1>1, <2>2, SingleSteps DEF Cur
    <3>2. Applied(Toward(job), Wanted(job)[n])
      BY <2>2, <3>1
    <3> QED
      BY <1>1, <3>2 DEF Applied, Toward, Has
  <2> QED BY <2>1, <2>2, <1>8, ReachedStep
<1>9. ASSUME NEW app \in Apps PROVE late'[<<Against(job), app>>] = 0
  <2>1. <<Against(job), app>> \in Calls /\ late[<<Against(job), app>>] = 0
    BY DEF Calls, Against, Effective
  <2>2. CASE late' = late
    BY <2>1, <2>2
  <2>3. ASSUME NEW c \in Calls, Sent(c) PROVE late'[<<Against(job), app>>] = 0
    <3>1. c # <<Against(job), app>>
      BY <1>3, <2>3 DEF Sent
    <3> QED
      BY <2>1, <2>3, <3>1 DEF Sent, AtlasTypeOK
  <2>4. ASSUME NEW c \in Calls, late[c] > 0, late' = [late EXCEPT ![c] = @ - 1]
        PROVE  late'[<<Against(job), app>>] = 0
    <3>1. c # <<Against(job), app>>
      BY <2>1, <2>4
    <3> QED
      BY <2>1, <2>4, <3>1 DEF AtlasTypeOK
  <2> QED BY <2>2, <2>3, <2>4, Effects
<1> QED
  BY <1>8, <1>9

-----------------------------------------------------------------------------
(* The theorems *)

\* Nothing has happened yet.
LEMMA InitIInv == Init => IInv
<1> SUFFICES ASSUME Init PROVE IInv
  OBVIOUS
<1>1. job \in JobType
  BY JobAssumption DEF Init
<1>2. job.revoke \in Seq(Apps)
  BY <1>1 DEF JobType
<1>3. \A n \in DOMAIN job.revoke : job.revoke[n] \in Apps
  BY <1>2, LenProperties, ElementOfSeq
<1>4. AtlasTypeOK
  BY <1>3 DEF Init, AtlasTypeOK, Statuses, Phases, Places, AppsIn
<1>5. Standing /\ Settled /\ Paid
  BY DEF Init, Standing, Settled, Paid
<1>6. Effective
  BY DEF Init, Effective, Reached, Against, Calls
<1> QED
  BY <1>4, <1>5, <1>6 DEF IInv

\* The invariant holds in every state of every behaviour.
LEMMA Invariance == Spec => []IInv
<1>1. IInv /\ [Next]_vars => IInv'
  BY TypeStep, CourseStep, PaidStep, EffectiveStep DEF IInv
<1> QED
  BY <1>1, InitIInv, PTL DEF Spec

\* The instance, the rows and the adapters keep their types.
THEOREM TypeCorrect == Spec => []AtlasTypeOK
BY Invariance, PTL DEF IInv

\* What a completed joiner's or leaver's run was for has happened, whatever was lost,
\* repeated or late.
THEOREM Effectiveness == Spec => []CompletedIsEffective
<1>1. IInv => CompletedIsEffective
  <2> SUFFICES ASSUME IInv, status = "complete" \/ row = "completed", Single(job)
               PROVE  /\ Joins(job) => AppsIn(job.provision) \subseteq access
                      /\ job.action = "leaver" => AppsIn(job.revoke) \cap access = {}
    BY DEF CompletedIsEffective, Single
  <2>1. job \in JobType
    BY JobAssumption DEF IInv, AtlasTypeOK
  <2>2. \A n \in 1 .. Len(Wanted(job)) : Has(Wanted(job)[n])
    BY DEF IInv, Standing, Effective, Reached
  <2>3. DOMAIN job.provision = 1 .. Len(job.provision) /\ DOMAIN job.revoke = 1 .. Len(job.revoke)
    BY <2>1, LenProperties DEF JobType
  <2>4. CASE Joins(job)
    BY <2>2, <2>3, <2>4 DEF Wanted, Has, AppsIn, Joins
  <2>5. CASE job.action = "leaver"
    <3>1. ~Joins(job)
      BY <2>5 DEF Joins
    <3> QED
      BY <2>2, <2>3, <2>5, <3>1 DEF Wanted, Has, AppsIn
  <2> QED BY <2>4, <2>5 DEF Single
<1> QED
  BY <1>1, Invariance, PTL

\* A compensation that fails keeps no other from being tried.
THEOREM UndoTried == Spec => []EveryUndoTried
<1>1. IInv => EveryUndoTried
  <2> SUFFICES ASSUME IInv, phase = "fail" PROVE settled = DOMAIN Undo(job)
    BY DEF EveryUndoTried
  <2>1. job \in JobType
    BY JobAssumption DEF IInv, AtlasTypeOK
  <2> QED
    BY <2>1, UndoList, LenProperties DEF IInv, Settled
<1> QED
  BY <1>1, Invariance, PTL

\* Fewer faults than the attempts of one step fail no run whose handlers all reach
\* their calls.
THEOREM Retries == Spec => []FaultsAreRetried
<1>1. IInv => FaultsAreRetried
  BY DEF IInv, Paid, Smooth, FaultsAreRetried
<1> QED
  BY <1>1, Invariance, PTL

\* The moves of the abstract run that both statuses make at once.
LEMMA Moves ==
  ASSUME \/ /\ Live \in {"running", "compensating"} /\ Live' = "failed" /\ Undoing' = Undoing
         \/ /\ Live = "running" /\ Live' = "completed" /\ Undoing' = Undoing
         \/ /\ Live = "running" /\ Live' = "compensating" /\ Undoing'
  PROVE  Lifecycle!LifecycleNext
<1>1. <<Live, Live'>> \in Lifecycle!Transitions
  BY DEF Lifecycle!Transitions
<1>2. Live' \in (IF Live' \in Lifecycle!Ended THEN {Live'} ELSE {Live, Live, Live'})
  BY SMT
<1>3. Undoing' = (Undoing \/ Live' = "compensating")
  BY DEF Undoing
<1> QED
  BY <1>1, <1>2, <1>3 DEF Lifecycle!LifecycleNext, Lifecycle!Move

\* A run on Cloudflare Workflows moves through its statuses as RunLifecycle promises:
\* the engine may replace WorkflowDO for whoever watches the status alone.
THEOREM Implementation == Spec => ImplementsLifecycle
<1>1. Init => Lifecycle!LifecycleInit
  BY DEF Init, Lifecycle!LifecycleInit, Live, Undoing
<1>2. IInv /\ [Next]_vars => [Lifecycle!LifecycleNext]_(Lifecycle!lifecycleVars)
  <2> SUFFICES ASSUME IInv, [Next]_vars
               PROVE  Lifecycle!LifecycleNext \/ (Live' = Live /\ Undoing' = Undoing)
    BY DEF Lifecycle!lifecycleVars
  <2>1. AtlasTypeOK /\ Standing /\ job \in JobType /\ job' = job
    BY JobAssumption, Courses DEF IInv, AtlasTypeOK
  <2>2. Undo(job) # <<>> <=> Len(Undo(job)) # 0
    BY <2>1, UndoList, EmptySeq
  <2>3. CASE Quiet \/ Again
    BY <2>1, <2>3 DEF Quiet, Again, Live, Undoing
  <2>4. CASE Outside
    <3>1. phase' = phase /\ Undoing' = Undoing
      BY <2>1, <2>4 DEF Outside, Undoing
    <3>2. CASE status = "none" /\ status' = "running"
      <4>1. ~Undoing /\ Live = "none" /\ Live' = "running"
        BY <2>1, <3>1, <3>2 DEF Undoing, Live, Standing
      <4> QED
        BY <3>1, <4>1 DEF Lifecycle!LifecycleNext, Lifecycle!Begin
    <3>3. CASE Running /\ status' = "terminated"
      <4>1. Live \in {"running", "compensating"} /\ Live' = "failed"
        BY <3>1, <3>3 DEF Undoing, Live, Running
      <4> QED
        BY <3>1, <4>1, Moves
    <3> QED BY <2>4, <3>2, <3>3 DEF Outside
  <2>5. CASE GivesUp \/ GoesOn
    <3>1. Running /\ (StepFails \/ StepSucceeds)
      BY <2>5 DEF GivesUp, GoesOn
    <3>2. CASE status' = "errored" /\ phase' = phase
      <4>1. Live \in {"running", "compensating"} /\ Live' = "failed" /\ Undoing' = Undoing
        BY <2>1, <3>1, <3>2 DEF Undoing, Live, Running
      <4> QED
        BY <4>1, Moves
    <3>3. CASE status' = "complete" /\ phase = "complete" /\ phase' = phase
      <4>1. Live = "running" /\ Live' = "completed" /\ Undoing' = Undoing
        BY <2>1, <3>1, <3>3 DEF Undoing, Live, Running
      <4> QED
        BY <4>1, Moves
    <3>4. CASE /\ status' = status /\ phase \in {"start", "main"} /\ phase' \in {"main", "complete"}
      BY <2>1, <3>1, <3>4 DEF Undoing, Live, Running
    <3>5. CASE status' = status /\ phase = "undo" /\ phase' \in {"undo", "fail"}
      BY <2>1, <3>1, <3>5 DEF Undoing, Live, Running
    <3>6. CASE /\ status' = status /\ phase \in {"main", "complete"}
               /\ phase' = "fail" /\ Len(Undo(job)) = 0
      BY <2>1, <2>2, <3>1, <3>6 DEF Undoing, Live, Running
    <3>7. CASE /\ status' = status /\ phase \in {"main", "complete"}
               /\ phase' = "undo" /\ Len(Undo(job)) # 0
      <4>1. Live = "running" /\ Live' = "compensating" /\ ~Undoing /\ Undoing'
        BY <2>1, <2>2, <3>1, <3>7 DEF Undoing, Live, Running
      <4> QED
        BY <4>1, Moves
    <3> QED
      BY <2>1, <3>1, <3>2, <3>3, <3>4, <3>5, <3>6, <3>7, After
  <2> QED
    BY <2>1, <2>3, <2>4, <2>5, Courses
<1> QED
  BY <1>1, <1>2, Invariance, PTL DEF Spec, ImplementsLifecycle, Lifecycle!LifecycleSpec

=============================================================================
