---------------------------- MODULE EvidenceLocker ----------------------------
(***************************************************************************)
(* storeEvidence (packages/shared/src/evidence/locker.ts): a piece of      *)
(* classified evidence is written to two stores that share no transaction, *)
(* an object in R2 under a key made of its content hash and its month, and *)
(* one row per control in D1's compliance_evidence.                        *)
(*                                                                         *)
(* Calls come from every part of the platform, at the same time and for    *)
(* the same evidence, some of them from workers that have no bucket and    *)
(* write the rows alone.  An action is what a call does between two awaits *)
(* of R2 or D1; any of them may fail or be the isolate's last.             *)
(***************************************************************************)
EXTENDS FiniteSets

CONSTANTS
  Calls,       \* invocations of storeEvidence
  Evidence,    \* the pieces of classified evidence
  NoEvidence,
  About,       \* tenant, event type, source, actor and subject of each
  Controls,    \* the controls each is tagged with, with their impact
  Payload,     \* the payload of each
  Shown,       \* what canonicalize leaves of a payload
  Months,      \* classifiedAt, to the month
  NoMonth

ASSUME EvidenceAssumption ==
  /\ NoEvidence \notin Evidence /\ NoMonth \notin Months
  /\ DOMAIN About = Evidence /\ DOMAIN Controls = Evidence /\ DOMAIN Payload = Evidence
  /\ \A i \in Evidence : Controls[i] # {}

VARIABLES
  object,   \* the R2 bucket
  rows,     \* compliance_evidence
  call      \* where each call stands, and what it was told

vars == <<object, rows, call>>

\* Mutant: the controls are left out of the hash.
DigestWithoutControls(i) == <<About[i], Shown[Payload[i]]>>

\* The content hash: SHA-256 of what canonicalize prints.  It passes the names of
\* the item's own fields to JSON.stringify as the list of allowed keys, which holds
\* at every depth: of a payload only keys with one of those names are printed.
Digest(i) == <<About[i], Controls[i], Shown[Payload[i]]>>

Digests  == {Digest(i) : i \in Evidence}
Key(i, m) == <<Digest(i), m>>
Keys     == Digests \X Months

\* A row, without its random id.  source_id is the content hash; item and month
\* stand for the payload and the r2Key in its metadata.
Row(i, m, ctrl) == [digest |-> Digest(i), ctrl |-> ctrl, item |-> i, month |-> m]
AllRows == {Row(i, m, ctrl) : i \in Evidence, m \in Months, ctrl \in UNION {Controls[j] : j \in Evidence}}

RowsOf(i)  == {r \in rows : r.digest = Digest(i)}
Indexed(i) == {r.ctrl : r \in RowsOf(i)} = Controls[i]

\* "lost": the call threw or its isolate died before it wrote anything;
\* "stranded": the same between the object and its rows.
Places == {"idle", "put", "batch", "stored", "found", "lost", "stranded"}

\* bucket: the call's deps name a bucket.
Idle == [at |-> "idle", item |-> NoEvidence, month |-> NoMonth, bucket |-> FALSE]

Goes(c, place) == call' = [call EXCEPT ![c].at = place]
MyKey(c) == Key(call[c].item, call[c].month)

-----------------------------------------------------------------------------
(* storeEvidence *)

\* The hash is computed, and R2 asked for an object under the key.
Head(c) ==
  /\ call[c].at = "idle"
  /\ \E i \in Evidence, m \in Months :
       call' = [call EXCEPT ![c] =
         [at     |-> IF object[Key(i, m)] = NoEvidence THEN "put" ELSE "found",
          item   |-> i,
          month  |-> m,
          bucket |-> TRUE]]
  /\ UNCHANGED <<object, rows>>

\* Without a bucket R2 is neither asked nor written, though the rows will name the
\* key of an object as ever.
Bypass(c) ==
  /\ call[c].at = "idle"
  /\ \E i \in Evidence, m \in Months :
       call' = [call EXCEPT ![c] =
         [at |-> "batch", item |-> i, month |-> m, bucket |-> FALSE]]
  /\ UNCHANGED <<object, rows>>

\* Mutant: the rows are written, and the object never.
PutNothing(c) ==
  /\ call[c].at = "put"
  /\ Goes(c, "batch")
  /\ UNCHANGED <<object, rows>>

\* Mutant: the hash is put in the place of the item.
PutHash(c) ==
  /\ call[c].at = "put"
  /\ object' = [object EXCEPT ![MyKey(c)] = Digest(call[c].item)]
  /\ Goes(c, "batch")
  /\ UNCHANGED rows

\* The put has no precondition: it replaces what another call put meanwhile.
Put(c) ==
  /\ call[c].at = "put"
  /\ object' = [object EXCEPT ![MyKey(c)] = call[c].item]
  /\ Goes(c, "batch")
  /\ UNCHANGED rows

\* Mutant: the statements are sent one by one, and the first one alone arrives.
InsertOne(c) ==
  /\ call[c].at = "batch"
  /\ \E ctrl \in Controls[call[c].item] :
       rows' = rows \cup {Row(call[c].item, call[c].month, ctrl)}
  /\ Goes(c, "stored")
  /\ UNCHANGED object

\* The batch is one transaction of INSERT OR IGNORE, one row per control; the
\* table has one row per tenant, hash and control.  The tags that are sent after it
\* are refused, since they name the item's id where evidence_tags refers to a row's,
\* and that failure is ignored.
Insert(c) ==
  LET i   == call[c].item
      new == {ctrl \in Controls[i] : \A r \in RowsOf(i) : r.ctrl # ctrl}
  IN /\ call[c].at = "batch"
     /\ rows' = rows \cup {Row(i, call[c].month, ctrl) : ctrl \in new}
     /\ Goes(c, "stored")
     /\ UNCHANGED object

\* R2 or D1 fails the call, or the isolate is lost: nothing is undone, and no
\* caller tries again.
Fail(c) ==
  /\ \/ call[c].at = "put" /\ Goes(c, "lost")
     \/ call[c].at = "batch" /\ call[c].bucket /\ Goes(c, "stranded")
     \/ call[c].at = "batch" /\ ~call[c].bucket /\ Goes(c, "lost")
  /\ UNCHANGED <<object, rows>>

-----------------------------------------------------------------------------
(* The locker *)

Init ==
  /\ object = [k \in Keys |-> NoEvidence]
  /\ rows = {}
  /\ call = [c \in Calls |-> Idle]

Store(c) == Head(c) \/ Bypass(c) \/ Put(c) \/ Insert(c) \/ Fail(c)

Next == \E c \in Calls : Store(c)

Spec == Init /\ [][Next]_vars

\* R2 and D1 answer, if only with an error.
FairSpec == Spec /\ \A c \in Calls : WF_vars(Put(c) \/ Insert(c) \/ Fail(c))

-----------------------------------------------------------------------------
(* Properties *)

\* The types of the two stores and of the calls.
LockerTypeOK ==
  /\ object \in [Keys -> Evidence \cup {NoEvidence}]
  /\ rows \subseteq AllRows
  /\ call \in [Calls -> [at : Places, item : Evidence \cup {NoEvidence},
                         month : Months \cup {NoMonth}, bucket : BOOLEAN]]

\* A row of the index leads to an object: its r2Key holds evidence with the hash
\* the row names, whoever overwrote the object since the row was written.  Where it
\* leads nowhere, a call without a bucket has stored that evidence in that month;
\* no call with a bucket, wherever it was interrupted, leaves such a row.
RowsHaveObject ==
  \A r \in rows :
    LET k == <<r.digest, r.month>>
    IN \/ object[k] # NoEvidence /\ Digest(object[k]) = r.digest
       \/ object[k] = NoEvidence /\ \E c \in Calls :
            call[c].at = "stored" /\ ~call[c].bucket /\ MyKey(c) = k

\* Scoring never sees a part of an item: of its controls all have a row or none
\* has, although several calls insert them and each ignores what is there.
AllControlsOrNone == \A i \in Evidence : RowsOf(i) = {} \/ Indexed(i)

\* An object without rows is the trace of a call that is about to write them or was
\* interrupted between the two stores: no other path, in particular none of a call
\* that found the object, leaves evidence out of the index.
UnindexedIsExplained ==
  \A i \in Evidence, m \in Months :
    object[Key(i, m)] # NoEvidence /\ ~Indexed(i) =>
      \E c \in Calls :
        call[c].bucket /\ call[c].at \in {"batch", "stranded"} /\ MyKey(c) = Key(i, m)

\* Whoever was told that the evidence was stored has its rows from then on, and its
\* object under the key of the answer if there was a bucket to put it in: whatever
\* other calls ignored, replaced or left half done.
StoredIsIndexed ==
  \A c \in Calls :
    call[c].at = "stored" =>
      /\ Indexed(call[c].item)
      /\ call[c].bucket => object[MyKey(c)] # NoEvidence

\* An object gets its rows in the end, unless a call is interrupted between the two.
GetsIndexed ==
  \A i \in Evidence, m \in Months :
    object[Key(i, m)] # NoEvidence
      ~> Indexed(i) \/ \E c \in Calls : call[c].at = "stranded" /\ MyKey(c) = Key(i, m)

\* locker.ts:91: "Content hash covers: tenantId + eventType + source + actor +
\* subject + payload + controls".  What a caller is told is there already has the
\* payload of the caller's evidence.
FoundIsTheSame ==
  \A c \in Calls :
    call[c].at = "found" => Payload[object[MyKey(c)]] = Payload[call[c].item]

=============================================================================
