--------------------------- MODULE WorkflowExecutions ---------------------------
(***************************************************************************)
(* POST /api/v1/workflows/execute of the compliance worker                 *)
(* (compliance-worker/src/modules/automation): an execution is recorded    *)
(* once for an idempotency key of a tenant, by the rows of D1 and by two   *)
(* maps in the memory of the isolate, of which one, in executor.ts, does   *)
(* not know tenants.                                                       *)
(*                                                                         *)
(* The engine's answer holds no run id, so the executor always makes up a  *)
(* completed run with the steps 1 .. StepCount.  An id is named by the     *)
(* call that drew it.  A call without a key shares nothing with others and *)
(* is left out.  Statements of D1 are single, and an action is the code    *)
(* from one to the next.                                                   *)
(***************************************************************************)
EXTENDS Integers, FiniteSets

CONSTANTS
  Calls,      \* requests
  Isolates,   \* the worker's isolates
  Tenants, Keys,
  StepCount,  \* stepDefs.length
  None,       \* no value
  MaxCrashes  \* bound: isolates lost

ASSUME ExecAssumption ==
  /\ None \notin Calls /\ None \notin [tenant : Tenants, key : Keys, by : Calls]
  /\ StepCount \in Nat \ {0} /\ MaxCrashes \in Nat

VARIABLES
  rows,       \* workflow_executions, by id
  steps,      \* workflow_steps: how often an execution has each step
  synthetic,  \* syntheticIdempotency of each isolate: a key's id
  known,      \* inMemoryIdempotency of each isolate: the id of a tenant's key
  call,       \* the requests and where they stand
  crashes     \* isolates lost so far

vars == <<rows, steps, synthetic, known, call, crashes>>

Row    == [tenant : Tenants, key : Keys, by : Calls]
Places == {"new", "find", "cached", "execute", "insert", "delete", "steps", "read",
           "answered", "failed", "torn"}
Call   == [at : Places, isolate : Isolates, tenant : Tenants, key : Keys,
           id : Calls \cup {None}, next : 1 .. StepCount + 1]

Running == {"find", "cached", "execute", "insert", "delete", "steps", "read"}

\* findExecutionByIdempotency: the ids of a tenant's key; one at most, if the
\* index is unique.
Recorded(t, k) == {i \in Calls : rows[i] # None /\ rows[i].tenant = t /\ rows[i].key = k}

Go(c, place) == call' = [call EXCEPT ![c].at = place]

Answer(c, i) == call' = [call EXCEPT ![c].at = "answered", ![c].id = i]

-----------------------------------------------------------------------------
(* executeWorkflow *)

Begin(c) ==
  /\ call[c].at = "new" /\ Go(c, "find")
  /\ UNCHANGED <<rows, steps, synthetic, known, crashes>>

\* The first look: the key's row.
Find(c) ==
  /\ call[c].at = "find"
  /\ \/ \E i \in Recorded(call[c].tenant, call[c].key) : Answer(c, i)
     \/ Recorded(call[c].tenant, call[c].key) = {} /\ Go(c, "cached")
  /\ UNCHANGED <<rows, steps, synthetic, known, crashes>>

\* findExecutionById: an execution of that id and that tenant
Own(i, t) == i # None /\ rows[i] # None /\ rows[i].tenant = t

\* The second: the isolate's memory, which counts only if the row is there.
FindCached(c) ==
  /\ call[c].at = "cached"
  /\ LET i == known[call[c].isolate][call[c].tenant][call[c].key]
     IN \/ Own(i, call[c].tenant) /\ Answer(c, i)
        \/ ~Own(i, call[c].tenant) /\ Go(c, "execute")
  /\ UNCHANGED <<rows, steps, synthetic, known, crashes>>

\* runWorkflowExecution: the id that this isolate drew for the key, whoever asked
\* for it, or a new one
Execute(c) ==
  LET i == call[c].isolate
      k == call[c].key
  IN /\ call[c].at = "execute"
     /\ \/ /\ synthetic[i][k] # None
           /\ call' = [call EXCEPT ![c].at = "insert", ![c].id = synthetic[i][k]]
           /\ UNCHANGED synthetic
        \/ /\ synthetic[i][k] = None
           /\ call' = [call EXCEPT ![c].at = "insert", ![c].id = c]
           /\ synthetic' = [synthetic EXCEPT ![i][k] = c]
     /\ UNCHANGED <<rows, steps, known, crashes>>

-----------------------------------------------------------------------------
(* recordExecution *)

\* The row as it is after the upsert.
Upsert(c) ==
  rows' = [rows EXCEPT ![call[c].id] =
             [tenant |-> IF @ = None THEN call[c].tenant ELSE @.tenant,
              key    |-> call[c].key,
              by     |-> c]]

\* Mutant: the index on tenant and key is not a unique one.
InsertAnyway(c) ==
  /\ call[c].at = "insert"
  /\ Upsert(c) /\ Go(c, "delete")
  /\ UNCHANGED <<steps, synthetic, known, crashes>>

\* INSERT ... ON CONFLICT(id) DO UPDATE, which keeps the row's tenant; another id
\* for the tenant's key fails on the unique index.
Insert(c) ==
  /\ call[c].at = "insert"
  /\ \/ /\ rows[call[c].id] # None \/ Recorded(call[c].tenant, call[c].key) = {}
        /\ Upsert(c) /\ Go(c, "delete")
     \/ /\ rows[call[c].id] = None /\ Recorded(call[c].tenant, call[c].key) # {}
        /\ Go(c, "failed") /\ UNCHANGED rows
  /\ UNCHANGED <<steps, synthetic, known, crashes>>

\* DELETE FROM workflow_steps
Delete(c) ==
  /\ call[c].at = "delete" /\ Go(c, "steps")
  /\ steps' = [steps EXCEPT ![call[c].id] = [n \in 1 .. StepCount |-> 0]]
  /\ UNCHANGED <<rows, synthetic, known, crashes>>

\* Mutant: the loop stops before the last step.
OneShort(c) == call[c].next + 1 >= StepCount

\* Mutant: it goes on after it.
OneOver(c) == call[c].next > StepCount

Last(c) == call[c].next = StepCount

\* INSERT INTO workflow_steps, one by one; after the last the isolate remembers.
Step(c) ==
  /\ call[c].at = "steps"
  /\ steps' = [steps EXCEPT ![call[c].id][call[c].next] = @ + 1]
  /\ call' = [call EXCEPT ![c].next = @ + 1, ![c].at = IF Last(c) THEN "read" ELSE @]
  /\ known' = IF Last(c)
              THEN [known EXCEPT ![call[c].isolate][call[c].tenant][call[c].key] = call[c].id]
              ELSE known
  /\ UNCHANGED <<rows, synthetic, crashes>>

\* automation.execution_persist_failed unless the row is the tenant's
Read(c) ==
  /\ call[c].at = "read"
  /\ \/ Own(call[c].id, call[c].tenant) /\ Go(c, "answered")
     \/ ~Own(call[c].id, call[c].tenant) /\ Go(c, "failed")
  /\ UNCHANGED <<rows, steps, synthetic, known, crashes>>

-----------------------------------------------------------------------------
(* Failures *)

\* Where a request that goes no further leaves its record.
Broken(at) == IF at \in {"delete", "steps"} THEN "torn" ELSE "failed"

\* A statement fails; the request is answered with 500.
Fail(c) ==
  /\ call[c].at \in Running /\ Go(c, Broken(call[c].at))
  /\ UNCHANGED <<rows, steps, synthetic, known, crashes>>

\* An isolate is lost, with its maps and its requests.
Crash(i) ==
  /\ crashes < MaxCrashes /\ crashes' = crashes + 1
  /\ synthetic' = [synthetic EXCEPT ![i] = [k \in Keys |-> None]]
  /\ known' = [known EXCEPT ![i] = [t \in Tenants |-> [k \in Keys |-> None]]]
  /\ call' = [c \in Calls |->
                IF call[c].isolate = i /\ call[c].at \in Running
                THEN [call[c] EXCEPT !.at = Broken(@)] ELSE call[c]]
  /\ UNCHANGED <<rows, steps>>

-----------------------------------------------------------------------------
(* The endpoint *)

\* What each request will ask, and of which isolate, is open.
Init ==
  /\ rows = [i \in Calls |-> None]
  /\ steps = [i \in Calls |-> [n \in 1 .. StepCount |-> 0]]
  /\ synthetic = [i \in Isolates |-> [k \in Keys |-> None]]
  /\ known = [i \in Isolates |-> [t \in Tenants |-> [k \in Keys |-> None]]]
  /\ call \in [Calls -> [at : {"new"}, isolate : Isolates, tenant : Tenants,
                         key : Keys, id : {None}, next : {1}]]
  /\ crashes = 0

Handle(c) ==
  \/ Begin(c) \/ Find(c) \/ FindCached(c) \/ Execute(c)
  \/ Insert(c) \/ Delete(c) \/ Step(c) \/ Read(c) \/ Fail(c)

Next == (\E c \in Calls : Handle(c)) \/ (\E i \in Isolates : Crash(i))

Spec == Init /\ [][Next]_vars

-----------------------------------------------------------------------------
(* Properties *)

\* The types of the tables, the maps and the requests
ExecTypeOK ==
  /\ rows \in [Calls -> Row \cup {None}]
  /\ steps \in [Calls -> [1 .. StepCount -> Nat]]
  /\ synthetic \in [Isolates -> [Keys -> Calls \cup {None}]]
  /\ known \in [Isolates -> [Tenants -> [Keys -> Calls \cup {None}]]]
  /\ call \in [Calls -> Call]
  /\ crashes \in 0 .. MaxCrashes

\* All successful answers to one key of one tenant, given by any isolate before or
\* after a crash, name one execution, and that is the tenant's and the key's own,
\* although the executor's map hands a tenant the id of another one.
OneAnswerPerKey ==
  \A c \in Calls : call[c].at = "answered" =>
    /\ call[c].id \in Recorded(call[c].tenant, call[c].key)
    /\ \A d \in Calls :
         /\ call[d].at = "answered"
         /\ call[d].tenant = call[c].tenant
         /\ call[d].key = call[c].key
         => call[d].id = call[c].id

\* An execution that lacks one of its steps, and is nevertheless recorded as
\* completed, is one on which some request is at work between the row and the last
\* step, or broke off there: requests that record one id side by side never leave it
\* short otherwise.
StepsExplained ==
  \A i \in Calls : rows[i] # None /\ (\E n \in 1 .. StepCount : steps[i][n] = 0) =>
    \E c \in Calls : call[c].id = i /\ call[c].at \in {"delete", "steps", "torn"}

=============================================================================
