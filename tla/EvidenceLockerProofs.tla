------------------------- MODULE EvidenceLockerProofs -------------------------
(***************************************************************************)
(* Proofs about EvidenceLocker, for any calls, evidence, controls, months  *)
(* and any loss of payload keys in the hash: the five invariants of the    *)
(* run `locker' are consequences of one inductive invariant.               *)
(***************************************************************************)
EXTENDS EvidenceLocker, TLAPS

-----------------------------------------------------------------------------
(* The inductive invariant *)

\* A call that has started has its evidence; one that put an object, as every call
\* with a bucket has at its batch, leaves it there, since nothing deletes objects.
CallOK ==
  \A c \in Calls :
    /\ call[c].at # "idle" => call[c].item \in Evidence /\ call[c].month \in Months
    /\ call[c].at = "put" => call[c].bucket
    /\ call[c].bucket /\ call[c].at \in {"batch", "stored", "stranded"} =>
         object[MyKey(c)] # NoEvidence

\* A call without a bucket has written rows that name k.
Excused(k) ==
  \E c \in Calls : call[c].at = "stored" /\ ~call[c].bucket /\ MyKey(c) = k

\* An object lies under the hash of its content.
ObjectOK == \A k \in Keys : object[k] # NoEvidence => Digest(object[k]) = k[1]

IInv ==
  /\ LockerTypeOK
  /\ CallOK
  /\ ObjectOK
  /\ RowsHaveObject
  /\ AllControlsOrNone
  /\ UnindexedIsExplained
  /\ StoredIsIndexed

-----------------------------------------------------------------------------
(* Keys and rows *)

\* A key tells the hash and the month, a hash tells the controls.
LEMMA KeyFacts ==
  ASSUME NEW i \in Evidence, NEW j \in Evidence, NEW m \in Months, NEW n \in Months
  PROVE  /\ Key(i, m) \in Keys /\ Digest(i) \in Digests
         /\ Key(i, m) = <<Digest(i), m>> /\ Key(i, m)[1] = Digest(i) /\ Key(i, m)[2] = m
         /\ Key(i, m) = Key(j, n) <=> Digest(i) = Digest(j) /\ m = n
         /\ Digest(i) = Digest(j) => Controls[i] = Controls[j]
<1>1. Digest(i) \in Digests
  BY DEF Digests
<1>2. Key(i, m) = <<Digest(i), m>> /\ Key(j, n) = <<Digest(j), n>>
  BY DEF Key
<1>4. Key(i, m)[1] = Digest(i) /\ Key(i, m)[2] = m /\ Key(j, n)[1] = Digest(j) /\ Key(j, n)[2] = n
  BY <1>2
<1>3. Digest(i) = Digest(j) => Controls[i] = Controls[j]
  BY DEF Digest
<1>5. Key(i, m) \in Keys
  BY <1>1, <1>2 DEF Keys
<1>6. Key(i, m) = Key(j, n) <=> Digest(i) = Digest(j) /\ m = n
  BY <1>2, <1>4
<1> QED
  BY <1>1, <1>2, <1>3, <1>4, <1>5, <1>6

\* What an insert makes of the index: all of the item's controls, and of every
\* item with its hash; the other items' rows stay as they are.
LEMMA InsertIndexes ==
  ASSUME IInv, NEW c \in Calls, Insert(c)
  PROVE  \A j \in Evidence :
           /\ Digest(j) = Digest(call[c].item) => Indexed(j)'
           /\ Digest(j) # Digest(call[c].item) => RowsOf(j)' = RowsOf(j)
<1> DEFINE i == call[c].item
           new == {ctrl \in Controls[i] : \A r \in RowsOf(i) : r.ctrl # ctrl}
           added == {Row(i, call[c].month, ctrl) : ctrl \in new}
<1>1. i \in Evidence /\ call[c].month \in Months /\ rows' = rows \cup added
  BY DEF IInv, CallOK, Insert
<1>2. \A r \in added : r.digest = Digest(i) /\ r.ctrl \in new
  BY DEF Row
<1>3. \A ctrl \in new : \E r \in added : r.ctrl = ctrl /\ r.digest = Digest(i)
  <2> TAKE ctrl \in new
  <2>1. Row(i, call[c].month, ctrl) \in added
    OBVIOUS
  <2>2. Row(i, call[c].month, ctrl).ctrl = ctrl /\ Row(i, call[c].month, ctrl).digest = Digest(i)
    BY DEF Row
  <2> HIDE DEF added, new
  <2> QED
    BY <2>1, <2>2
<1>4. {r.ctrl : r \in RowsOf(i)} = {} \/ {r.ctrl : r \in RowsOf(i)} = Controls[i]
  BY <1>1 DEF IInv, AllControlsOrNone, Indexed
<1> HIDE DEF added
<1>5. ASSUME NEW j \in Evidence, Digest(j) = Digest(i)
      PROVE  {r.ctrl : r \in {q \in rows \cup added : q.digest = Digest(j)}} = Controls[j]
  <2>1. Controls[j] = Controls[i]
    BY <1>1, <1>5, KeyFacts
  <2>2. ASSUME NEW x \in Controls[j]
        PROVE  \E r \in rows \cup added : r.digest = Digest(j) /\ r.ctrl = x
    <3>1. CASE x \in new
      BY <3>1, <1>3, <1>5
    <3>2. CASE x \notin new
      BY <3>2, <2>1, <1>5 DEF RowsOf
    <3> QED BY <3>1, <3>2
  <2>3. ASSUME NEW r \in rows \cup added, r.digest = Digest(j)
        PROVE  r.ctrl \in Controls[j]
    <3>1. CASE r \in added
      BY <3>1, <1>2, <2>1
    <3>2. CASE r \in rows
      <4>1. r \in RowsOf(i)
        BY <3>2, <2>3, <1>5 DEF RowsOf
      <4> QED
        BY <4>1, <1>4, <2>1
    <3> QED BY <3>1, <3>2
  <2> QED
    BY <2>2, <2>3
<1>6. ASSUME NEW j \in Evidence, Digest(j) # Digest(i)
      PROVE  {q \in rows \cup added : q.digest = Digest(j)} = RowsOf(j)
  BY <1>6, <1>2 DEF RowsOf
<1> QED
  BY <1>1, <1>5, <1>6 DEF Indexed, RowsOf

-----------------------------------------------------------------------------
(* The steps *)

\* Nothing is stored yet.
LEMMA InitIInv == Init => IInv
<1> SUFFICES ASSUME Init PROVE IInv
  OBVIOUS
<1>1. LockerTypeOK
  BY DEF Init, LockerTypeOK, Idle, Places
<1>2. \A i \in Evidence : RowsOf(i) = {}
  BY DEF Init, RowsOf
<1>3. \A c \in Calls : call[c].at = "idle"
  BY DEF Init, Idle
<1> QED
  BY <1>1, <1>2, <1>3, KeyFacts DEF IInv, Init, CallOK, ObjectOK, RowsHaveObject,
     AllControlsOrNone, UnindexedIsExplained, StoredIsIndexed

\* What RowsHaveObject says of a row.
LEMMA RowCases ==
  RowsHaveObject <=>
    \A r \in rows :
      LET k == <<r.digest, r.month>>
      IN \/ object[k] # NoEvidence /\ Digest(object[k]) = r.digest
         \/ object[k] = NoEvidence /\ Excused(k)
BY DEF RowsHaveObject, Excused

\* A call that starts, with a bucket or without, has promised nothing yet.
LEMMA StartStep ==
  ASSUME IInv, NEW c \in Calls, Head(c) \/ Bypass(c)
  PROVE  IInv'
<1> USE DEF IInv
<1>1. PICK i \in Evidence, m \in Months, place \in {"put", "found", "batch"}, b \in BOOLEAN :
        /\ call' = [call EXCEPT ![c] = [at |-> place, item |-> i, month |-> m, bucket |-> b]]
        /\ place = "put" => b
        /\ place = "batch" => ~b
  <2>1. CASE Head(c)
    <3>1. PICK i \in Evidence, m \in Months :
            call' = [call EXCEPT ![c] =
              [at |-> IF object[Key(i, m)] = NoEvidence THEN "put" ELSE "found",
               item |-> i, month |-> m, bucket |-> TRUE]]
      BY <2>1 DEF Head
    <3> QED
      BY <3>1
  <2>2. CASE Bypass(c)
    BY <2>2 DEF Bypass
  <2> QED
    BY <2>1, <2>2
<1>2. call[c].at = "idle" /\ object' = object /\ rows' = rows
  BY DEF Head, Bypass
<1>3. call' \in [Calls -> [at : Places, item : Evidence \cup {NoEvidence},
                          month : Months \cup {NoMonth}, bucket : BOOLEAN]]
  BY <1>1 DEF LockerTypeOK, Places
<1>4. /\ call'[c].item = i /\ call'[c].month = m /\ call'[c].bucket = b
      /\ call'[c].at = place
  BY <1>1, <1>3 DEF LockerTypeOK
<1>5. \A d \in Calls : d # c => call'[d] = call[d]
  BY <1>1 DEF LockerTypeOK
<1>6. LockerTypeOK' /\ ObjectOK' /\ AllControlsOrNone'
  BY <1>2, <1>3 DEF LockerTypeOK, ObjectOK, AllControlsOrNone, RowsOf, Indexed
<1>7. CallOK'
  BY <1>1, <1>2, <1>4, <1>5 DEF CallOK, MyKey
<1>8. UnindexedIsExplained'
  BY <1>2, <1>4, <1>5 DEF UnindexedIsExplained, MyKey, Indexed, RowsOf
<1>9. StoredIsIndexed'
  BY <1>2, <1>4, <1>5 DEF StoredIsIndexed, MyKey, Indexed, RowsOf
<1>10. \A k : Excused(k) => Excused(k)'
  BY <1>2, <1>5 DEF Excused, MyKey
<1>11. RowsHaveObject'
  BY <1>2, <1>10 DEF RowsHaveObject, Excused
<1> QED
  BY <1>6, <1>7, <1>8, <1>9, <1>11

\* The object may be replaced, but only by one with the same hash.
LEMMA PutStep ==
  ASSUME IInv, NEW c \in Calls, Put(c)
  PROVE  IInv'
<1> USE DEF IInv
<1> DEFINE i == call[c].item
           m == call[c].month
<1>1. i \in Evidence /\ m \in Months /\ call[c].at = "put" /\ call[c].bucket
  BY DEF Put, CallOK
<1>2. object' = [object EXCEPT ![Key(i, m)] = i] /\ rows' = rows
  BY DEF Put, MyKey
<1>3. call' = [call EXCEPT ![c].at = "batch"]
  BY DEF Put, Goes
<1>4. \A d \in Calls : /\ call'[d].item = call[d].item /\ call'[d].month = call[d].month
                       /\ call'[d].bucket = call[d].bucket
  BY <1>3 DEF LockerTypeOK
<1>5. call'[c].at = "batch" /\ \A d \in Calls : d # c => call'[d] = call[d]
  BY <1>3 DEF LockerTypeOK
<1>6. Key(i, m) \in Keys /\ Key(i, m)[1] = Digest(i)
  BY <1>1, KeyFacts
<1>7. i # NoEvidence
  BY <1>1, EvidenceAssumption
<1>8. \A k \in Keys : /\ k # Key(i, m) => object'[k] = object[k]
                      /\ k = Key(i, m) => object'[k] = i
  BY <1>2 DEF LockerTypeOK
<1>9. LockerTypeOK'
  BY <1>1, <1>2, <1>3, <1>6 DEF LockerTypeOK, Places
<1>10. ObjectOK'
  BY <1>6, <1>8 DEF ObjectOK
<1>11. \A d \in Calls : (call[d].at # "idle" => MyKey(d) \in Keys) /\ MyKey(d)' = MyKey(d)
  BY <1>4, KeyFacts DEF MyKey, CallOK, Key
<1>12. \A k \in Keys : object[k] # NoEvidence => object'[k] # NoEvidence
  BY <1>7, <1>8
<1>13. CallOK'
  <2> SUFFICES ASSUME NEW d \in Calls
               PROVE  /\ call'[d].at # "idle" => call'[d].item \in Evidence /\ call'[d].month \in Months
                      /\ call'[d].at = "put" => call'[d].bucket
                      /\ call'[d].bucket /\ call'[d].at \in {"batch", "stored", "stranded"}
                           => object'[MyKey(d)'] # NoEvidence
    BY DEF CallOK
  <2>1. CASE d = c
    BY <2>1, <1>1, <1>4, <1>5, <1>6, <1>7, <1>8, <1>11 DEF MyKey
  <2>2. CASE d # c
    BY <2>2, <1>4, <1>5, <1>11, <1>12 DEF CallOK
  <2> QED BY <2>1, <2>2
<1>14. RowsHaveObject'
  <2> SUFFICES ASSUME NEW r \in rows
               PROVE  LET k == <<r.digest, r.month>>
                      IN \/ object'[k] # NoEvidence /\ Digest(object'[k]) = r.digest
                         \/ object'[k] = NoEvidence /\ Excused(k)'
    BY <1>2 DEF RowsHaveObject, Excused
  <2> DEFINE k == <<r.digest, r.month>>
  <2>1. k \in Keys
    BY DEF LockerTypeOK, AllRows, Row, Keys, Digests
  <2>2. CASE k = Key(i, m)
    BY <2>1, <2>2, <1>6, <1>7, <1>8
  <2>3. CASE k # Key(i, m)
    <3>1. object'[k] = object[k]
      BY <2>1, <2>3, <1>8
    <3>2. Excused(k) => Excused(k)'
      BY <1>1, <1>4, <1>5, <1>11 DEF Excused
    <3> QED
      BY <3>1, <3>2, RowCases
  <2> QED BY <2>2, <2>3
<1>15. \A j \in Evidence : Indexed(j)' = Indexed(j) /\ RowsOf(j)' = RowsOf(j)
  BY <1>2 DEF Indexed, RowsOf
<1>16. AllControlsOrNone'
  BY <1>15 DEF AllControlsOrNone
<1>17. UnindexedIsExplained'
  <2> SUFFICES ASSUME NEW j \in Evidence, NEW n \in Months,
                      object'[Key(j, n)] # NoEvidence, ~Indexed(j)'
               PROVE  \E d \in Calls : /\ call'[d].bucket /\ call'[d].at \in {"batch", "stranded"}
                                      /\ MyKey(d)' = Key(j, n)
    BY DEF UnindexedIsExplained, Key, Digest
  <2>1. CASE Key(j, n) = Key(i, m)
    BY <2>1, <1>1, <1>4, <1>5, <1>11 DEF MyKey
  <2>2. CASE Key(j, n) # Key(i, m)
    <3>1. object[Key(j, n)] # NoEvidence /\ ~Indexed(j)
      BY <2>2, <1>8, <1>15, KeyFacts
    <3>2. PICK d \in Calls : /\ call[d].bucket /\ call[d].at \in {"batch", "stranded"}
                           /\ MyKey(d) = Key(j, n)
      BY <3>1 DEF UnindexedIsExplained
    <3> QED
      BY <3>2, <1>1, <1>4, <1>5, <1>11
  <2> QED BY <2>1, <2>2
<1>18. StoredIsIndexed'
  <2> SUFFICES ASSUME NEW d \in Calls, NEW j \in Evidence, call'[d].at = "stored", j = call'[d].item
               PROVE  Indexed(j)' /\ (call'[d].bucket => object'[MyKey(d)'] # NoEvidence)
    BY <1>13 DEF StoredIsIndexed, CallOK, Indexed, RowsOf
  <2>1. d # c /\ call[d].at = "stored" /\ j = call[d].item
    BY <1>5
  <2>2. Indexed(j)
    BY <2>1 DEF StoredIsIndexed
  <2> QED
    BY <2>1, <2>2, <1>13, <1>15 DEF CallOK
<1> QED
  BY <1>9, <1>10, <1>13, <1>14, <1>16, <1>17, <1>18

\* The rows of one item come together, and explain its object.
LEMMA InsertStep ==
  ASSUME IInv, NEW c \in Calls, Insert(c)
  PROVE  IInv'
<1> USE DEF IInv
<1> DEFINE i == call[c].item
           m == call[c].month
<1>1. i \in Evidence /\ m \in Months /\ call[c].at = "batch" /\ object' = object
  BY DEF Insert, CallOK
<1>2. call' = [call EXCEPT ![c].at = "stored"]
  BY DEF Insert, Goes
<1>3. \A d \in Calls : /\ call'[d].item = call[d].item /\ call'[d].month = call[d].month
                       /\ call'[d].bucket = call[d].bucket
  BY <1>2 DEF LockerTypeOK
<1>4. call'[c].at = "stored" /\ \A d \in Calls : d # c => call'[d] = call[d]
  BY <1>2 DEF LockerTypeOK
<1>5. \A r \in rows' : r \in rows \/ \E ctrl \in Controls[i] : r = Row(i, m, ctrl)
  BY DEF Insert
<1>6. \A j \in Evidence : Indexed(j) => Indexed(j)'
  BY InsertIndexes DEF Indexed
<1>7. \A j \in Evidence : j = i => Indexed(j)'
  BY InsertIndexes
<1>8. /\ MyKey(c) = Key(i, m) /\ (call[c].bucket => object[Key(i, m)] # NoEvidence)
      /\ \A d \in Calls : MyKey(d)' = MyKey(d)
  BY <1>1, <1>3 DEF CallOK, MyKey, Key
<1>9. LockerTypeOK'
  BY <1>1, <1>2, <1>5 DEF LockerTypeOK, Places, AllRows
<1>10. CallOK' /\ ObjectOK'
  BY <1>1, <1>3, <1>4, <1>8 DEF CallOK, ObjectOK
<1>11. RowsHaveObject'
  <2> SUFFICES ASSUME NEW r \in rows'
               PROVE  LET k == <<r.digest, r.month>>
                      IN \/ object[k] # NoEvidence /\ Digest(object[k]) = r.digest
                         \/ object[k] = NoEvidence /\ Excused(k)'
    BY <1>1 DEF RowsHaveObject, Excused
  <2> DEFINE k == <<r.digest, r.month>>
  <2>1. CASE r \in rows
    <3>1. Excused(k) => Excused(k)'
      BY <1>1, <1>3, <1>4, <1>8 DEF Excused
    <3> QED
      BY <2>1, <3>1, RowCases
  <2>2. CASE r \notin rows
    <3>1. r.digest = Digest(i) /\ r.month = m
      BY <2>2, <1>5 DEF Row
    <3>2. k = Key(i, m) /\ k \in Keys /\ k[1] = r.digest
      BY <3>1, <1>1, KeyFacts
    <3>3. CASE object[k] # NoEvidence
      BY <3>2, <3>3 DEF ObjectOK
    <3>4. CASE object[k] = NoEvidence
      <4>1. call'[c].at = "stored" /\ ~call'[c].bucket /\ MyKey(c)' = k
        BY <3>2, <3>4, <1>3, <1>4, <1>8
      <4> QED
        BY <3>4, <4>1 DEF Excused
    <3> QED BY <3>3, <3>4
  <2> QED BY <2>1, <2>2
<1>12. AllControlsOrNone'
  <2> SUFFICES ASSUME NEW j \in Evidence PROVE RowsOf(j)' = {} \/ Indexed(j)'
    BY DEF AllControlsOrNone
  <2>1. CASE Digest(j) = Digest(i)
    BY <2>1, InsertIndexes
  <2>2. CASE Digest(j) # Digest(i)
    BY <2>2, InsertIndexes, <1>6 DEF AllControlsOrNone
  <2> QED BY <2>1, <2>2
<1>13. UnindexedIsExplained'
  <2> SUFFICES ASSUME NEW j \in Evidence, NEW n \in Months,
                      object[Key(j, n)] # NoEvidence, ~Indexed(j)'
               PROVE  \E d \in Calls : /\ call'[d].bucket /\ call'[d].at \in {"batch", "stranded"}
                                      /\ MyKey(d)' = Key(j, n)
    BY <1>1 DEF UnindexedIsExplained, Key, Digest
  <2>1. Digest(j) # Digest(i) /\ ~Indexed(j)
    BY <1>6, InsertIndexes
  <2>2. PICK d \in Calls : /\ call[d].bucket /\ call[d].at \in {"batch", "stranded"}
                           /\ MyKey(d) = Key(j, n)
    BY <2>1 DEF UnindexedIsExplained
  <2>3. d # c
    BY <2>1, <2>2, <1>1, <1>8, KeyFacts
  <2> QED
    BY <2>2, <2>3, <1>3, <1>4, <1>8
<1>14. StoredIsIndexed'
  <2> SUFFICES ASSUME NEW d \in Calls, NEW j \in Evidence, call'[d].at = "stored", j = call'[d].item
               PROVE  Indexed(j)' /\ (call'[d].bucket => object[MyKey(d)] # NoEvidence)
    BY <1>1, <1>8, <1>10 DEF StoredIsIndexed, CallOK, Indexed, RowsOf
  <2>1. CASE d = c
    BY <2>1, <1>3, <1>7, <1>8
  <2>2. CASE d # c
    <3>1. call[d].at = "stored" /\ call[d].item = j
      BY <2>2, <1>4
    <3> QED
      BY <3>1, <1>3, <1>6 DEF StoredIsIndexed
  <2> QED BY <2>1, <2>2
<1> QED
  BY <1>9, <1>10, <1>11, <1>12, <1>13, <1>14

\* An interruption leaves both stores as they are, and explains what it leaves.
LEMMA FailStep ==
  ASSUME IInv, NEW c \in Calls, Fail(c)
  PROVE  IInv'
<1> USE DEF IInv
<1>1. PICK place \in {"lost", "stranded"} :
        /\ call' = [call EXCEPT ![c].at = place]
        /\ call[c].at \in {"put", "batch"}
        /\ call[c].at = "batch" /\ call[c].bucket => place = "stranded"
        /\ place = "stranded" => call[c].at = "batch"
  BY DEF Fail, Goes
<1>2. object' = object /\ rows' = rows
  BY DEF Fail
<1>3. \A d \in Calls : /\ call'[d].item = call[d].item /\ call'[d].month = call[d].month
                       /\ call'[d].bucket = call[d].bucket
  BY <1>1 DEF LockerTypeOK
<1>4. call'[c].at = place /\ \A d \in Calls : d # c => call'[d] = call[d]
  BY <1>1 DEF LockerTypeOK
<1>5. \A d \in Calls : MyKey(d)' = MyKey(d)
  BY <1>3 DEF MyKey, Key
<1>6. LockerTypeOK'
  BY <1>1, <1>2 DEF LockerTypeOK, Places
<1>7. ObjectOK' /\ AllControlsOrNone'
  BY <1>2 DEF ObjectOK, AllControlsOrNone, RowsOf, Indexed
<1>8. CallOK'
  BY <1>1, <1>2, <1>3, <1>4, <1>5 DEF CallOK
<1>9. \A d \in Calls : call[d].bucket /\ call[d].at \in {"batch", "stranded"} =>
        call'[d].at \in {"batch", "stranded"}
  BY <1>1, <1>4 DEF CallOK
<1>10. UnindexedIsExplained'
  BY <1>2, <1>3, <1>5, <1>9 DEF UnindexedIsExplained, Indexed, RowsOf
<1>15. RowsHaveObject'
  <2>1. \A k : Excused(k) => Excused(k)'
    BY <1>1, <1>3, <1>4, <1>5 DEF Excused
  <2> QED
    BY <1>2, <2>1 DEF RowsHaveObject, Excused
<1>11. \A d \in Calls : call'[d].at = "stored" => call[d].at = "stored"
  BY <1>1, <1>4
<1>12. \A i \in Evidence : Indexed(i)' <=> Indexed(i)
  BY <1>2 DEF Indexed, RowsOf
<1>13. \A d \in Calls : call[d].at = "stored" => call[d].item \in Evidence
  BY DEF CallOK
<1>14. StoredIsIndexed'
  BY <1>2, <1>3, <1>5, <1>11, <1>12, <1>13 DEF StoredIsIndexed
<1> QED
  BY <1>6, <1>7, <1>8, <1>10, <1>14, <1>15

-----------------------------------------------------------------------------
(* The theorems *)

\* The invariant holds in every state of every behaviour.
LEMMA Invariance == Spec => []IInv
<1>1. IInv /\ [Next]_vars => IInv'
  <2> SUFFICES ASSUME IInv, [Next]_vars PROVE IInv'
    OBVIOUS
  <2>1. ASSUME NEW c \in Calls, Store(c) PROVE IInv'
    BY <2>1, StartStep, PutStep, InsertStep, FailStep DEF Store
  <2>2. CASE UNCHANGED vars
    <3>1. object' = object /\ rows' = rows /\ call' = call
      BY <2>2 DEF vars
    <3>2. LockerTypeOK' /\ CallOK' /\ ObjectOK' /\ RowsHaveObject'
      BY <3>1 DEF IInv, LockerTypeOK, CallOK, ObjectOK, RowsHaveObject, MyKey
    <3>3. AllControlsOrNone' /\ UnindexedIsExplained' /\ StoredIsIndexed'
      BY <3>1 DEF IInv, AllControlsOrNone, UnindexedIsExplained, StoredIsIndexed,
         Indexed, RowsOf, MyKey
    <3> QED
      BY <3>2, <3>3 DEF IInv
  <2> QED
    BY <2>1, <2>2 DEF Next
<1> QED
  BY <1>1, InitIInv, PTL DEF Spec

\* The stores and the calls keep their types.
THEOREM TypeCorrect == Spec => []LockerTypeOK
BY Invariance, PTL DEF IInv

\* A row of the index leads to an object with its hash, unless a call without a
\* bucket has stored that evidence in that month.
THEOREM DanglingExplained == Spec => []RowsHaveObject
BY Invariance, PTL DEF IInv

\* The controls of an item are indexed together.
THEOREM ControlsTogether == Spec => []AllControlsOrNone
BY Invariance, PTL DEF IInv

\* Evidence is missing from the index only between the two writes of a call, and
\* after an interruption there.
THEOREM GapExplained == Spec => []UnindexedIsExplained
BY Invariance, PTL DEF IInv

\* An answer "stored" is true from then on: of the rows, and of the object if there
\* was a bucket.
THEOREM StoredStays == Spec => []StoredIsIndexed
BY Invariance, PTL DEF IInv

=============================================================================
