# A verification project for AtlasIT

AtlasIT automates the identity lifecycle of a company's staff: an event (somebody joins,
moves or leaves) is published, agents and automation rules react to it, and a *workflow run*
creates, changes or revokes accounts step by step, undoing what it did when a step fails
for good; evidence of all that is stored for compliance. This directory holds TLA+ models
of the parts of the system whose correctness depends on what happens *between* the steps,
the TLC configurations that check them on small instances, and machine-checked proofs of the
properties that matter most.

Contents

1. [Inventory: components, state, operations, hard behaviours](#1-inventory)
2. [Modules and how they correspond to the code](#2-modules)
3. [Runs: what each one asks and shows](#3-runs)
4. [What the models found](#4-what-the-models-found)
5. [Proofs](#5-proofs)
6. [What is not shown, and what is not modelled](#6-what-is-not-shown)
7. [Plan](#7-plan)

To reproduce: `tlc -workers 2 -config engine.cfg MCWorkflow` (the module of every run is in
`PROJECT.json`), `tlapm WorkflowDOProofs.tla` and so on for each `*Proofs.tla`.

---

## 1. Inventory

Paths are relative to `src/`; `ai-orchestrator/src` is abbreviated `ao`.

### 1.1 Components that are modelled

**WorkflowDO** (`ao/workflow/workflow-do.ts`). A Durable Object per run. *State*: the run
(`this.state`: status, steps with status, attempts and deadline, history), the same object under
storage key `state`, keys `delay:<stepId>` for grace periods, one alarm. *Operations*: `/start`,
`/step/:id/complete`, `/step/:id/fail`, `/cancel`, `/status`, `alarm()`; inside them
`advanceToNextStep`, `runCompensations`, `updateRunProgress`, `emitEvidence`,
`sendToDeadLetter`, `scheduleNextDeadlineAlarm`. *Interacts* with the `step-tasks` queue
(publishes), D1 (`workflow_runs`, `dead_letter_queue`) and R2 (evidence). *Hard*: the handlers are
coroutines over one shared in-memory run, and each awaits D1, R2 or the queue several times
before it decides what is next; one alarm serves four purposes; memory can be lost at every
await while storage, queue and D1 keep what they have. *Correct when*: statuses follow
`VALID_TRANSITIONS` in memory and in storage, steps run in order, a completed run is never
undone, nothing is left running without a wake-up, every run ends, and D1 never claims more
than storage knows.

**Step-task executor** (`ao/lib/step-executor.ts`, `queue()` in `ao/index.ts`). Stateless
consumers of the queue. *Operations*: ask the run's status, replay a cached completion, run the
step's handler, post `complete` or `fail`; `queue()` retries a message whose processing threw.
*Hard*: at-least-once delivery, a rejected `complete` that is turned into a `fail`, messages that
are dropped after `max_retries`. *Correct when* the run survives all of them.

**AtlasWorkflow** (`ao/workflow/atlas-workflow.ts`, cancelled through `ao/routes/workflows.ts`).
The same runs on Cloudflare Workflows. Where the binding `ATLAS_WORKFLOW` exists
(`ai-orchestrator/wrangler.toml:50`) it is the engine that is used, and WorkflowDO the fallback.
*State*: the instance's status and the outcomes the platform keeps of each `step.do`; the run's
row in D1; the accounts in the adapters. *Hard*: an attempt that timed out, or was under way when
the isolate was lost, may still reach its adapter; the statements for the row are steps with
retries of their own, inside and outside the `try` block; the row is inserted beside the run.
*Correct when* what a completed run was for is in effect in the adapters, every compensation is
tried, faults short of the retries do no harm, every run ends, and the promise of WorkflowDO's
statuses is kept.

**Start of a JML run** (`ao/lib/jml-engine.ts`, `ao/lib/handler-registry.ts`). `buildJmlSteps`
turns a classified change into steps and compensations; the instance or the object is created
and the `workflow_runs` row inserted afterwards. *Hard*: the run may have ended before its row
exists; a handler finds its adapter by cutting a prefix off the step's id.

**AutomationDO and the evaluator** (`ao/automation/automation-do.ts`,
`ao/lib/automation-evaluator.ts`). *State*: per tenant, in memory and in storage: last executions,
window counts and start, deduplication keys, limits; tables `automation_executions` and
`automation_rules.run_count`. *Operations*: `/check`, `/record`, `/limits`, `/reset`, and an
evaluation: check, actions, INSERT, UPDATE, record. *Hard*: permission is asked before the actions
and recorded after them; `/check` changes memory without saving; the report may be lost.
*Correct when* what a window grants above its limit is owed to evaluations in flight and lost
reports only, cooldowns and keys outlive evictions, and the counters agree.

**Event publication and fan-out** (`ao/routes/events.ts`). *State*: tables `events`,
`event_deliveries`, the KV namespace `IDEMPOTENCY_CACHE`. *Operations*: `POST /events` (cache
lookup, INSERT, cache put, fan-out under `waitUntil`, final UPDATE), `fanOutToAgents` (a row, a
webhook call and an outcome per agent, then the final status of the event). *Hard*: the handler,
every delivery and the end of the fan-out run side by side; the cache is eventually consistent;
the isolate may be lost between any two statements; a statement may fail in the try block or in
the catch block that handles the first failure. *Correct when* an agent gets what was published
under a key at most once, a deduplicated answer is about the client's own event, and statuses
agree with the rows they summarise.

**Dead letter queue and replay** (`ao/lib/dead-letter.ts`, `ao/routes/dead-letter.ts`). *State*:
table `dead_letter_queue`. *Operations*: `moveToDeadLetter`, `replayDeadLetter`, replay-all.
*Hard*: two statements that can be separated by a failure; the check of `replayed_at` and its
UPDATE are separated by an HTTP request. *Correct when* no delivery is called dead-lettered
without an entry, and no entry is called replayed without a publication.

**Evidence locker** (`packages/shared/src/evidence/locker.ts`). *State*: objects in R2 under a key
of content hash and month, rows of `compliance_evidence`, one per control. *Operation*:
`storeEvidence` (head, put, batch of rows; a caller without a bucket writes the rows alone).
*Hard*: the stores share no transaction, the put has no condition, and only some callers write
both. *Correct when* no caller with a bucket leaves a row without an object, all controls of an
item are indexed or none, and what was answered as stored is in every store the caller has.

**Dispatch worker** (`dispatch-worker/src/auth.ts`, `index.ts`). *State*: rows of
`tenant_api_keys` (quota, remainder, last refill) and `tenant_scripts` (failure count, window,
`breaker_open_until_utc`). *Operations*: authenticate and debit, look at the breaker, forward,
`updateCircuit`; an administrator issues keys. *Hard*: everything is a SELECT and a later UPDATE
without a condition on what was read, from any number of isolates. *Correct when* the quota is
exceeded by no more than the requests in flight and the breaker opens only for cause.

**Workflow executions of the compliance worker**
(`compliance-worker/src/modules/automation/{service,executor,store}.ts`). *State*:
`workflow_executions`, `workflow_steps`, and two maps from idempotency keys to ids in the memory
of each isolate. *Operation*: `executeWorkflow`. *Hard*: the maps are per isolate, one of them is
shared by all tenants; a recording is an upsert, a DELETE and an INSERT per step. *Correct when*
a tenant's key has one answer, and an execution lacks steps only where a recording was
interrupted.

### 1.2 Components that are not modelled

| Component | Why |
|---|---|
| Orchestrator entry point and cron (`ao/index.ts`) | the queue consumer is modelled; the sweeps are independent batch jobs, and `crons = []` (`ai-orchestrator/wrangler.toml:89`) starts none of them |
| Agent registry | single-row CRUD; its effect, "some set of subscribers", is modelled |
| `JMLEngine` (`packages/shared/src/workflow/jml-engine.ts`) | a third engine over a storage it is given; no `wrangler.toml` binds it, the compliance worker runs it on memory that lives as long as the call and drops its result, and nothing sets the alarm it waits for |
| AWS orchestrator and dlq-processor (`lambdas/`) | the tables and columns its statements name are in no Postgres migration, its dead letters contradict their foreign keys, its steps are stubs |
| Compliance scores | SELECTs whose result is stored by single statements |
| Evidence retention (`packages/shared/src/evidence/retention.ts`) | called by nothing; needs a column no migration has |
| Access reviews | console and compliance API keep campaigns in Postgres; the orchestrator's sweep works on D1 tables that have campaigns without items; the two share no row |
| Shared rate limit and circuit breaker (`packages/shared/src/middleware`, `shared/circuit-breaker.ts`) | wired into no worker at this commit |
| Scan runtime and its scheduler (`src/runtime`) | a separate application; guards and timeouts without state |
| Core API, marketplace, onboarding | request-response CRUD over D1 and KV |
| Adapters (about forty) | HTTP to third parties; a step's handler "succeeds, fails, or is late" |
| Consoles, e-mail, Slack, documentation, scheduler, approval, MCP workers | gateways and presentation |
| Shared packages for identity providers and schemas; infrastructure | data and declarations; limits and constraints appear as constants and guards |

### 1.3 How the parts interact

```
 client --POST /events--> handler --INSERT--> D1 events        admin --replay--> dead-letter.ts
                           |  |  \--KV get/put (idempotency)                      |  publishes anew
                           |  |--waitUntil--> fanOutToAgents --> agent webhook     v
                           |  |                    \--> event_deliveries, dead_letter_queue
                           |  \--waitUntil--> evaluator --/check,/record--> AutomationDO
                           |                     \--> automation_executions, run_count
                           \--> JML engine: buildJmlSteps, D1 workflow_runs
                                 |--create--> AtlasWorkflow --step.do--> handlers --> adapters
                                 |                 \--> D1 workflow_runs
                                 \--/start (no Workflows binding)--> WorkflowDO --> step-tasks queue
                                                     ^   \--> D1, R2, alarm             |
                                                     +--complete/fail/status-- executor-+
 all of them --storeEvidence--> R2 object, D1 compliance_evidence

 tenant --/ext/--> dispatch worker --> tenant's script      (D1 tenant_api_keys, tenant_scripts)
 tenant --/workflows/execute--> compliance worker --> D1 workflow_executions, workflow_steps
```

### 1.4 Hazards

`PROJECT.json` lists every hazard met while reading the code, at its line, with the properties that
would catch it going wrong or the reason that none does. The interesting ones fall into
six groups: handlers of one object that overlap at their awaits; the single alarm; the
difference between memory, storage, D1 and the queue when one is lost; redelivery and late
answers; multi-statement updates without a transaction; and decisions taken on what an earlier
statement read.

---

## 2. Modules

| Module | Models | Kind |
|---|---|---|
| `RunLifecycle` | what a run promises to those who see only its status | abstract specification |
| `WorkflowDO` | the Durable Object, one action per stretch of code between two external awaits | component |
| `StepExecutor` | WorkflowDO + queue + executors + the platform's faults; the workflow properties | composition |
| `JmlSteps` | `buildJmlSteps` and which handlers reach their call | operators |
| `AtlasWorkflow` | `run()` on Cloudflare Workflows with adapters, row and cancellation; implements `RunLifecycle` too | component |
| `AutomationGate` | AutomationDO and the evaluators | composition |
| `EventPipeline` | publication, fan-out, dead letters and replay | component |
| `EvidenceLocker` | `storeEvidence` over R2 and D1 | component |
| `DispatchGate` | quota and breaker of the dispatch worker | component |
| `WorkflowExecutions` | recording of executions in the compliance worker | component |
| `MCWorkflow`, `MCSaga`, `MCAutomation`, `MCEvents`, `MCEvidence`, `MCDispatch`, `MCExecutions` | values of the constants for TLC | model checking |
| `WorkflowClaims` | a comment of the repository that the workflow code does not keep | model checking |
| `WorkflowDOProofs`, `SequentialRunProofs`, `AtlasWorkflowProofs`, `AutomationGateProofs`, `EventPipelineProofs`, `EvidenceLockerProofs`, `DispatchGateProofs`, `WorkflowExecutionsProofs` | theorems | proofs |

Definitions named "Mutant" in a comment are plausible bugs of the definition below them. No
specification uses them. Putting one in the place of the correct definition makes TLC report
the property that `PROJECT.json` names for it, which shows that the property depends on that line
of the code.

### 2.1 `WorkflowDO`

*Where actions begin and end.* A Durable Object runs one handler at a time until it awaits. An
await on the object's **own storage** closes the input gate: no other request is delivered, so
no action ends there. An await on **D1, R2 or the queue** leaves the gate open: that is where
another request or the alarm may come in, and so an action is the code between two such awaits.
`thread[t].pc` names the await at which a handler stands:

| `pc` | await | action that resumes |
|---|---|---|
| `advance` | queue publish in `advanceToNextStep` | `ContinueAdvance` |
| `compensate` | queue publish in `runCompensations` | `ContinueCompensate` |
| `progress`, `evidence`, `final` | D1, R2 and D1 in `handleStepComplete` | `RecordCompletion`, `FinishCompletion`, `WriteFinal` |
| `failEvidence`, `failDlq` | R2 and D1 in `handleStepFail` | `EmitFailure`, `FinishFailure` |
| `alarmPublish`, `alarmDlq` | queue publish and D1 in `alarm()` | `AlarmPublished`, `AlarmDeadLettered` |

*State.* `run` is `this.state`; `stored` the copy under key `state`; `Save` is the assignment
followed by `storage.put`. Code that changes `this.state` without a put changes `run` only: this
is how what an eviction forgets comes into the model. A step's outputs and the run's context are
left out; a `condition` may be true or false at each evaluation.

*Rows in D1.* `row` is the status column of the run. `RecordRun` is the caller's INSERT, which may
come at any time after the start: an UPDATE before it finds no row. `ForeignKeys` says whether D1
enforces them, as it does by default: the dead letter of a workflow step is then refused.

*Whose step a handler belongs to.* An executor that reports on one step may dispatch the next
inside the same request. If that request is rejected its catch block reports the step it was
*about* (`step-executor.ts:135`-`:143`): `Own` keeps that step while the handler publishes another.

*Exceptions.* `fetch()` returns the handlers' promises without awaiting them, so its own `try`
does not catch what `transition()` throws; the exception rejects the caller's fetch (`Throw`,
then `Rejected` in the executor).

*Time.* Deadlines, delays and the alarm are countdowns in ticks: `NoTime` (-1) is "not set", 0
is "due", `Tick` lowers all of them. Only their order matters to the code. `alarm()` reads
the time once before it publishes, so its publications are assumed to take less than a tick (the
guard of `Tick`); every other handler may be overtaken by any number of ticks. The
exponential backoff is one constant. `/start` sets the alarm to the global timeout, and the
dispatch of the first batch overwrites it: that is what the code does.

*Counting attempts.* The first dispatch sets `attempts` to 1 and `handleStepFail` compares it
after incrementing: `maxRetries = 2` allows one retry, 1 allows none.

### 2.2 `StepExecutor`

Messages of a step are counted (`queue[s]`), because all carry attempt 1. `Receive` takes one or,
within a budget, leaves it for a second delivery; `Lose` drops it. An executor first asks the
status (`Deliver`), then runs the handler (`HandlerSucceeds`, `HandlerFails`) or reports a cached
completion (`Replay`); `Rejected` is the catch block, and the message's retry by `queue()`. Each
fault (failure, redelivery, loss, eviction) has a budget constant, so that a configuration
says which faults it has. `Stopped` lets a run that has nothing left to do stutter, so that TLC's
deadlock check stays on: any state in which something is pending but nothing can happen is
reported.

`RunLifecycle` is implemented with `live <- run.status`, `durable <- stored.status`,
`undone <- Undone(run)`: every status change of the object is one that `VALID_TRANSITIONS` allows,
an end is durable in the step that reaches it, and an eviction can forget nothing but the
beginning of an undoing.

### 2.3 `JmlSteps` and `AtlasWorkflow`

`Main(job)` and `Undo(job)` are the two step lists of `buildJmlSteps` for a classification, and
`Reaches(step)` says whether the step's handler gets as far as its request to an adapter. The
handlers cut `^(provision_|provision_new_)` or `^(revoke_|revoke_old_|deprovision_)` off the id
(`handler-registry.ts:275`, `:304`); the first alternative that matches wins, so `provision_new_x`
leaves `new_x`, for which there is no adapter.

The platform keeps the outcome of every `step.do` and replays `run()` with these outcomes after a
crash; so the position in the code is durable, and is the state: `phase` (record-start, the steps,
record-complete, the compensations, record-failed), `pos`, the attempt `try`, and `at`, which
splits an attempt into the handler's start, its request, and the answer. `Take` is the moment the
request has its effect in the adapter or D1.

| Action | Code or platform |
|---|---|
| `Create`, `InsertRow` | `executeJmlWorkflow`: the instance, and then its row |
| `Wake` | `step.sleep` before a delayed step |
| `Dispatch` | `dispatchStep`, and what the handler throws before its request |
| `Take`, `Succeed`, `Refuse` | effect, answer, refusal or lost answer |
| `TimeOut`, `Crash` | the attempt is given up; its request may stay under way (`Abandon`) |
| `Land` | such a request arrives, at any later time |
| `Terminate` | `POST /:id/cancel`: the instance ends, the row is not touched |

`StepSucceeds` and `StepFails` are the whole control flow of `run()`: the first record-start is
outside the `try` block, record-complete is inside it, record-failed is in the `catch` block after
the loop over the compensations, each of which has a `try` block of its own. The attempts are the
platform's (`Attempts`, `UndoAttempts`, `RecordAttempts`); each failed attempt costs a fault.
`RunLifecycle` is implemented with `live` and `durable` both the instance's status, in the words
of WorkflowDO: one abstract specification for both engines.

### 2.4 `AutomationGate`

The object's handlers await its storage only, which closes the input gate: each is one step.
`mem` and `disk` are `automationState` and the stored copy; `Current` is what `loadState` finds.
`Checked` keeps what `/check` does to the window in memory only (there is no save), `Save` is
`saveState`. An evaluator (`Start`, `Check`, `Act`, `Insert`, `Count`, `Record`, `NextRule`) stands
between two awaits of the object or of D1; `RecordLost` is a report that fails, `Leave` an
evaluation that dies with its isolate. `promise` is history: what the object has acknowledged,
whatever it still remembers. `window` is history too: when a check opened a window (`Opens`), and
of each rule how many executions were granted since, how many reports were lost (`LoseReport`),
and how many executions were in flight when an eviction forgot the window, because nothing had been
saved since it was opened (`orphans`). A window that is opened again only because an eviction
forgot it is the same window: what was granted in it before is not dropped from the sum.

### 2.5 `EventPipeline`

An action is one call to D1, KV or a webhook at the moment it takes effect, with the code up to
the next. The handler (`req`), the delivery to each agent (`hook`) and the end of the fan-out
(`fan`) have a position each and interleave freely. An event is identified by the request that
inserted it. Entries of the dead letter queue are identified by event, agent and `block`, since a
failing statement in the try block makes the catch block record, and perhaps dead-letter, the
delivery a second time.

| Action | Code |
|---|---|
| `Lookup`, `Insert`, `Cache`, `FanOut`, `Mark` | `POST /events`, statement by statement |
| `RecordDelivery`, `Post`, `RecordOutcome`, `CheckAttempts` | one delivery in `fanOutToAgents` |
| `WriteLetter`, `MarkDelivery` | `moveToDeadLetter` |
| `Tally`, `Settle` | the SELECT over the deliveries, the final UPDATE |
| `Replay`, `EndReplay` | `replayDeadLetter`, with the handler's actions in between |
| `HandlerFails`, `StatementFails`, `Crash` | rejected statements; loss of the isolate or of the 30 s of `waitUntil` |

`KeyTaken` is the UNIQUE column, which spans tenants; `Slot` is the cache key, which does not.
A failing statement has no effect; a webhook may have received the event although the call
failed. Payloads, signatures and answers are reduced to "accepted, refused, no answer".

### 2.6 `EvidenceLocker`

`Head`, `Put` and `Insert` are the three awaits of `storeEvidence`, `Fail` any of them rejected or
the isolate lost. `Bypass` is the call whose `deps` have no bucket (`locker.ts:47`, `:125`; the
event route passes `c.env.EVIDENCE ?? null`): it goes straight to the batch, and the rows name the
`r2Key` all the same. Every call may be of either kind; `call[c].bucket` says which. `Digest` says
what the content hash really covers: `canonicalize` passes the names of the item's own fields to
`JSON.stringify` as the list of allowed keys, which holds at every depth, so of a payload only
`Shown` is printed. The rows of one item are one batch, hence one step; `INSERT OR IGNORE` leaves
rows that are there (`RowsOf` is the unique index). The tags are refused by their foreign key and
change nothing.

### 2.7 `DispatchGate`

One tenant's key and one script, and requests at any point between two statements: `Arrive`,
`CheckDay`, `Refill`, `CheckQuota`, `Debit` are `verifyAuth` and `resetIfNeeded`; `Route` the look at
the breaker; `Answer` the forwarded request; `Judge` the SELECT of `updateCircuit` with everything
it computes (`Rolled`, `Tallied`, `Verdict`), `Write` its UPDATE, which writes what was computed over
whatever is there by then. The clock is a number; `Day` is its midnight. `Refill` stamps the day on
which it is sent, which may be a later one than the day it was decided on. `IssueKey` is `INSERT OR
REPLACE`. `passed` and `failures` are history variables for the properties.

### 2.8 `WorkflowExecutions`

An id is named by the call that drew it. The engine's answer is a `Response` whose `body` is a
stream, so the executor never finds a run id in it and always takes its synthetic branch: a
completed run with four steps, under the id that `syntheticIdempotency` has for the key, whichever
tenant drew it. `Find` and `FindCached` are the two looks before, `Insert`, `Delete` and `Step` the
recording, `Read` the look after it. `Insert` has SQLite's order: the conflict on the id turns it
into an UPDATE that keeps the tenant, and only a new id can fail on the index of tenant and key.
`Crash` loses an isolate with its maps and requests.

---

## 3. Runs

Passing runs (distinct states in parentheses):

| Run | Asks | Bounds |
|---|---|---|
| `engine` (542 k) | `InOrder`, `NoForwardWhileUndoing`, `NeverStranded`, `CompletedMeansDone`, `EndedStartsNothing`, `RunEnds` | 2 sequential conditional steps, 2 compensations, 2 executors, an error or a lost message |
| `evictions` (1.9 M) | `TypeOK`, `NeverUndoCompleted`, `RowIsBacked`, `ImplementsLifecycle` | 2 parallel steps with deadlines, 1 compensation, 1 redelivery, 1 eviction at any await |
| `leaver` (15 k) | `GraceHasAlarm` | 4 steps, a grace period on the second, 1 retry, 1 error, 1 loss, a cancellation |
| `saga` (20 k) | `AtlasTypeOK`, `CompletedIsEffective`, `EveryUndoTried`, `FaultsAreRetried`, `ImplementsLifecycle`, `RunEnds` | a joiner, a rehire, two leavers and a mover with up to 2 apps, 2 attempts at everything, 4 faults |
| `automation` (4.29 M) | `GateTypeOK`, `WindowBounded`, `CountedIsRecorded`, `CooldownKept`, `DedupKept` | 2 evaluators, 1 rule, 4 events of 2 payloads, 1 eviction, one change of limits or reset, a clock of 6 ticks over windows of 2 and keys of 3 |
| `events` (838 k) | `EventTypeOK`, `AtMostOncePerKey`, `DuplicateExists`, `SettledMatchesRows`, `DeadLetterExists`, `ReplayPublished` | 3 clients of 2 tenants under one key, 1 administrator, 1 agent, 1 crash, 1 failing statement, 1 stale read |
| `locker` (140 k) | `LockerTypeOK`, `RowsHaveObject`, `AllControlsOrNone`, `UnindexedIsExplained`, `StoredIsIndexed`, `GetsIndexed` | 3 calls, 3 pieces of evidence (two of one hash), 2 months, each call with or without a bucket, failures anywhere |
| `dispatch` (1.65 M) | `DispatchTypeOK`, `QuotaBounded`, `OpensForCause` | 2 requests at a time and 4 in all, quota 2, threshold 2, window and cool-down of 1 tick, 4 ticks with 2 midnights, 1 key issued anew |
| `executions` (106 k) | `ExecTypeOK`, `OneAnswerPerKey`, `StepsExplained` | 3 requests of 2 tenants under one key, 2 isolates, 2 steps, failing statements, 1 isolate lost |

What they show, in words:

- **`engine`**. Without parallel steps, no step is touched before all earlier ones are settled, even
  while a completion is halfway through its awaits. While a run is being undone no forward
  step is marked running. Whenever no handler is inside the object, an alarm is armed or the
  running step is still with the queue or an executor, hence a lost message strands nothing. A
  run that has ended starts no forward step; and every run ends.
- **`evictions`**. No overlap of completions, timeouts and failures undoes a completed run; the row
  in D1 has an outcome only if storage has it, also when memory vanishes between the two writes.
- **`leaver`**. A grace period that is running always has its stored target and an alarm no later
  than it, across errors, losses and cancellation. An eviction is left out because it breaks this,
  though only where two steps precede the delayed one (section 4).
- **`saga`**. However attempts fail, time out, are repeated and land late, a completed joiner has
  every account and a completed leaver none; every compensation is tried; fewer faults than the
  attempts of one step cannot fail a run whose handlers all reach their adapter.
- **`automation`**. What was granted since a window was opened exceeds its limit by at most one
  execution for each other evaluator, one for each report that was lost since, and those that were
  in flight when an eviction forgot the window. Lost reports are not bounded, so neither is the
  sum: what is shown is that nothing else goes beyond the limit, in particular not the window that
  an eviction brings back and the next check opens a second time. No execution is granted within
  the cooldown of an acknowledged one, or again within the lifetime of its key, although checks
  change memory only and new windows prune keys.
- **`events`**. However a client repeats a request, and wherever an earlier attempt died, an agent
  gets what was published under the key at most once; "deduplicated" names an event that exists
  and is the client's own; "completed" and "failed" agree with the rows.
- **`locker`**. A row leads to an object of its own hash, although objects are overwritten; or to
  none, and then a call without a bucket has stored that evidence in that month. No call with a
  bucket leaves such a row, wherever it is interrupted. What is answered as stored keeps its rows,
  and its object if the call had a bucket; an object without rows always has a call that was, or is,
  between the two stores.
- **`dispatch`**. Between two refills the quota lets through at most one request more for every
  other one in flight. Although counts, windows and openings are overwritten in any order, the
  breaker opens only after enough failures that one window covers.
- **`executions`**. All answers to one key of one tenant name one execution, and that is the
  tenant's own, although isolates draw ids of their own and tenants are handed each other's.

**Why these bounds.** The properties of a run relate at most two steps, or one step and the run:
two steps are the least number with an order, a parallel pair and "another step is still running";
two compensations the least with "another is still to be published"; four steps put one before and
two after a grace period. Two executors let two requests overlap in the object while the alarm is a
third. Deadlines of one or two ticks let a deadline pass before, between and after the awaits; more
ticks only repeat that. One eviction can fall at every await; the second tells no more of an object
whose memory is again equal to its storage. In `saga` four faults are enough to fail a step and one
of its compensations for good. In `automation` two evaluators are the least with a race, and the
clock covers a window, a cooldown, a key's life, and the return of each after an eviction; a second
eviction doubles the states and finds nothing new. In `events` the second client of the tenant
races the first, the third is the other tenant; the invariants quantify over at most two requests,
and one agent is enough for the properties of a delivery. In `locker` the third call meets what two
racing ones left. In `dispatch` four requests open the breaker twice with two writes in flight. In
`executions` the third request repeats what two racing ones recorded. The safety theorems of
section 5 hold without any of these bounds.

`MaxAttempts = 1` in `events` is the value the repository's end-to-end test assumes
(`tests/integration/orchestration-e2e.test.ts:677`); with the schema's default of 3
(`migrations/0008_agent_registry.sql`) the dead letter queue is unreachable, see section 4.

**Symmetry** (executors, clients of one tenant, evaluators, requests, isolates, tenants) is used
only in runs without liveness properties. `ImplementsLifecycle` contains no liveness.

**Deadlock** is checked in the runs of WorkflowDO. The other components really stop when all
requests are answered, the bounds are used up or the run has ended, so their configurations turn
the check off.

**Fairness** is weak everywhere, and none is put on faults. `StepExecutor`: a handler that waits
for D1, R2 or the queue resumes (each of these calls is answered or fails, and failures of
evidence, progress and dead letter writes are caught by the code), an executor finishes what it
took, the queue delivers, a due alarm fires and time passes. `AtlasWorkflow`: the platform goes on
with every instance, and an adapter answers or the attempt is given up by a fault. `EvidenceLocker`:
R2 and D1 answer, if only with an error. The other modules state none, as nothing in them is
promised to happen in the end.

**Faults that do not mix.** `engine` has errors or a lost message, not both, and no eviction or
cancellation: section 4 says which property each further fault breaks in the code.

---

## 4. What the models found

Each of these is a run of its own whose counterexample TLC prints.

| Run | The repository says | What happens |
|---|---|---|
| `claim_retry` | `step-executor.ts:149` "WorkflowDO manages retry backoff via alarms" | a step waiting for a retry is marked running and an alarm set, but nothing ever publishes it again; the alarm finds its deadline still ahead and is not set again, so that the run stays `running` for ever |
| `claim_hash` | `locker.ts:91` "Content hash covers: tenantId + eventType + source + actor + subject + payload + controls" | of a payload nearly nothing is hashed: evidence of one event with another payload is answered with `alreadyExists` and stored nowhere |
| `claim_rollback` | `docs/JML_ENGINE.md:29` "previously successful steps with compensators run reverse ops" | a compensation carries the id of the step it reverses, its handler finds no adapter under that name and throws: no compensation reaches an adapter, on either engine |

Also met while modelling. Of WorkflowDO:

- a compensation that completes while the next one is being published finds "all compensation
  steps done" (`workflow-do.ts:584`, `:290`) and ends the run with compensations still to come;
- the dead letter of a workflow step names a run and an action where `migrations/0009:19-20` refers
  to events and agents; D1 refuses the row and the catch block swallows it, so
  "Move to dead letter queue" (`workflow-do.ts:420`) never leaves an entry;
- a non-parallel step that follows parallel ones is dispatched with them, against
  `workflow-do.ts:685` "stop collecting (it runs alone)";
- most paths to `failed` do not write the row, which stays `running` (`workflow-do.ts:613`); a run
  that ends before its row is inserted leaves it `running` too;
- after dispatching a delayed step `alarm()` does not arm the step's deadline (`:534`, `:543`): if
  its message is lost the run stays running for ever;
- a late `/fail` of a step that has timed out deletes the alarm its run's compensations depend
  on (`:446`): with an error and a lost message together, `RunEnds` fails;
- an eviction between publishing a step and saving it as running leaves it pending for ever:
  executors see it is not running and acknowledge the message. And an eviction while an executor
  waits for the answer to `/complete` makes its catch block report a failure: `/fail` does not look
  at the step's status, so that a completed step, even of a completed run, becomes dead-lettered.
  With an eviction `InOrder`, `NeverStranded`, `CompletedMeansDone` and `RunEnds` fail. So does
  `GraceHasAlarm`, if two steps precede the delayed one: the retry of the first, re-opened, moves
  the single alarm away from the grace period of the third (`:391`);
- a batch in flight goes on being dispatched after a cancellation, which breaks `EndedStartsNothing`;
- a completed run can keep a waiting step if a delayed step is in a parallel batch (the step
  builders do not produce such a batch);
- so a failing handler whose step may be retried strands the run (`NeverStranded` fails), unless
  the deadline is not later than the backoff; with the defaults (3 attempts, 2 s of backoff, 30 s of
  timeout) it is later. And a failure reported late, while the run is being undone or when it has
  ended, marks the step running again (`NoForwardWhileUndoing` and `EndedStartsNothing` fail);
- a message delivered twice can run a step's handler twice: both executors pass the status check.

Of the steps and of AtlasWorkflow:

- `provision_new_<app>` and `revoke_old_<app>` lose only the first word of their prefix
  (`handler-registry.ts:275`, `:304`): every mover with an app to change fails;
- `revoke_nhi` asks the context for a `credentialId` that no run's context has: a leaver with
  credentials fails after its accounts were revoked;
- `POST /:id/cancel` terminates the instance and leaves the row `running`.

Of automation: the gate learns of an execution from a report whose failure is ignored
(`automation-evaluator.ts:278`), so that one whose report is lost counts in no window and starts
neither a cooldown nor the life of its key; `last_run_at` may be written out of order; one rule's
failing statement skips the rules after it; the cron evaluates an event type that `EVENT_TYPE_MAP`
does not have.

Of the pipeline:

- a failed delivery is dead-lettered when `attempts` reaches `max_attempts` (`events.ts:683`), but
  there is one attempt and the column's default is 3: nothing in production ever gets there;
- keys are namespaced "to prevent cross-tenant collisions" (`events.ts:146`), but the column is
  UNIQUE across tenants, so the second tenant's request is refused;
- `Mark` may overwrite the final status of an event; an event without subscribers stays
  `processing`; a delivery whose row could not be inserted is missing from the rows that decide
  the event's status; where `max_attempts` is 1, one delivery may get two dead letters;
- two concurrent replays of one entry both publish it; a replay goes to all subscribers, not to
  the agent whose delivery failed; a failed replay cannot be replayed again;
- `migrations/0024` drops columns that `fanOutToAgents` and the dead letter code use; the model
  follows the code and the schema of `0008`.

Of the locker: a caller without a bucket leaves rows whose `r2Key` names no object and is answered
like any other, and a later caller with a bucket repairs that in the same month only; an
interruption between the object and its rows is never repaired, as later calls find the object; the
same evidence in a later month gets a new object whose rows are all ignored; the rows of
`evidence_tags` are refused by their foreign key.

Of the dispatch worker: any answer that is not 2xx counts as a failure of the tenant's script, also
its 404; several requests at midnight refill one after the other, which refunds what was debited in
between, so that no bound holds for a day, only between refills; of two openings the one written
last counts, which may be the earlier; a write of counts that were read long ago restores them.

Of executions: two tenants that use one key on one isolate share its id: the second overwrites the
context and the steps of the first one's execution, finds no execution of its own and is answered
with 500 as long as the isolate lives; two requests that record one id side by side may leave a
step twice; a torn recording is answered as completed when the request is repeated; the very first
answer says `idempotentHit`.

---

## 5. Proofs

Liveness, and whatever needs ENABLED, is checked by TLC only. No module uses a RECURSIVE operator,
and nothing is proved by induction over data. Everything below is proved by TLAPS from the named
assumptions of the modules, which say no more than the types of the constants, that the names of
threads and values do not collide, that sets of processes whose members are counted are finite,
that a definition has a step, an item of evidence a control and a quota a request, and that a
replay's key is nobody else's (it contains the time). TLC evaluates them in every run.

Except for the two refinements and the three action properties, a theorem is `Spec => []P` for a
property P of section 3; it holds for any number of processes, messages, keys and faults, and any
limits and durations.

| Module | Obligations | Properties proved |
|---|---|---|
| `WorkflowDOProofs` | 1406 | `TypeOK`, `NeverUndoCompleted`, `RowIsBacked`, `ImplementsLifecycle` |
| `SequentialRunProofs` | 3250 | `InOrder`, `CompletedMeansDone`, `NoForwardWhileUndoing`, `GraceHasAlarm`, `EndedStartsNothing`, `NeverStranded`, under the conditions of 5.2 |
| `AtlasWorkflowProofs` | 1095 | `AtlasTypeOK`, `CompletedIsEffective`, `EveryUndoTried`, `FaultsAreRetried`, `ImplementsLifecycle` |
| `AutomationGateProofs` | 1844 | `GateTypeOK`, `WindowBounded`, `CountedIsRecorded`, `CooldownKept`, `DedupKept` |
| `EventPipelineProofs` | 620 | all six of `events` |
| `EvidenceLockerProofs` | 451 | all of `locker` but `GetsIndexed` |
| `DispatchGateProofs` | 791 | `DispatchTypeOK`, `QuotaBounded`, `OpensForCause` |
| `WorkflowExecutionsProofs` | 1038 | `ExecTypeOK`, `OneAnswerPerKey`, `StepsExplained` |

### 5.1 The workflow engine (`WorkflowDOProofs`)

*The inductive invariant.* `NeverUndoCompleted` speaks of memory and storage but is not
inductive: an eviction replaces memory by storage, so the two must be related, and a handler
that is suspended carries on with what it decided before, so something must be known of every
suspended handler. `IInv` therefore consists of

- `RunPair(run, stored)`: both are well-typed and have compensations only when compensating or
  failed; ends are in both or in neither; storage knows of an undoing that has gone beyond
  `running`, and of no other;
- `ThreadOK` for every thread: the step and the steps to do have the type its `pc` needs, a
  handler inside `runCompensations` or among the alarm's dead letters implies that the undoing has
  begun, and one at `final` that storage has the very outcome it is about to write to the row;
- `RestOK`, the types of everything else, and `RowIsBacked`.

*The argument.* `StepKeeps` says that an action keeps `IInv` if it keeps `RunPair`, gives its own
thread a correct position and takes nothing from the others: ends stay, and an undoing that has
begun stays begun (`Grows`, `OthersKeep`). `StepOKKept` reduces an action to a statement about the
run and one thread; the lemmas `DispatchOK` ... `DispatchDelayedOK` prove that statement for each
shared part of the handlers, and there is then one lemma per action, collected in
`StepInv`. The eviction is the one action that changes many threads, and is the case in which
`RunPair` is really needed. `View` accompanies every lemma with what the step looks like in
`RunLifecycle`: nothing (`SameView`), a `Checkpoint` (`Saved`) or a `Move` (`Moved`); `Start` is
`Begin` and the eviction is `Forget`. So the refinement needs no second pass over the actions.

### 5.2 Runs without parallel steps (`SequentialRunProofs`)

The six properties of `engine` and `leaver` that are about the course of a run are false under
some fault that `Spec` admits (section 4). Their theorems are of the same `Spec`, with the
conditions as assumptions on its constants, so that it is plain under which faults each of them
holds for any number of steps, compensations, executors, failures and losses:

| Theorem | No parallel steps, repeated deliveries, evictions | Nobody cancels | No retries, or no failing handler | Further |
|---|---|---|---|---|
| `InOrderHolds` | assumed | assumed | | |
| `CompletedMeansDoneHolds` | assumed | | | |
| `GraceHasAlarmHolds` | assumed | | | |
| `NoForwardWhileUndoingHolds` | assumed | | assumed | |
| `EndedStartsNothingHolds` | assumed | assumed | assumed | |
| `NeverStrandedHolds` | assumed | | assumed | no delays; every step has a timeout; no message is lost if a handler may fail |

`Sequential`, `NeverRetried` and `Guarded` name these conditions. The step builders of the
repository (`buildJmlSteps`, `buildWorkflowSteps`) make no parallel steps and give every step a
timeout; only a leaver has a delay. `POST /workflows` accepts other definitions. That
nothing is evicted or delivered twice is what the platform usually does, and not what it promises. "No
retries" is a restriction in earnest: the default is three attempts. Under the default, the
theorems speak of the runs in which handlers are slow, late or never reached, and no handler
reports a failure; if one does, the properties do fail. TLC finds a violation when a condition is
dropped, on instances of two or three steps, with four exceptions, where it finds none and no
proof is known: `EndedStartsNothing` with an eviction, and `NeverStranded` with parallel steps, with a
repeated delivery where no message is lost, and with a delay where no message is lost.

*One step at a time.* `InTurn` says that the forward steps take turns. Before the step that is
`Current` everything is settled, after it everything is pending (`RunSeq`). Its message is a token:
it is in the queue once, or one thread holds it, never both (`TokenSeq`). What a thread may
hold depends on where it stands: an executor with the message finds the step open, one that
records a completion finds it completed with nothing after it started (`HolderOK`, `ThreadSeq`). A grace
period has its key and its alarm (`GraceSeq`). None of this is visible in a single handler: that
`handleStepComplete` may trust, after two awaits, what it saw before them is the token's doing. Two
lemmas carry the argument. `TurnKeeps` is for the thread that holds the message: it may move the
step, since nobody else can. `CalmKeeps` is for everybody else, compensations and the alarm
included: they leave the forward steps alone or time the running one out. `TurnOf` says that a
thread with a message is alone with it. Then there is one lemma per action (`...InTurn`). A
cancellation takes the turn from whoever has it, so with cancellations the invariant is
`Cancellable`: the run has failed, or the steps take turns.

*Somebody sees to the run.* `Lively` is the safety side of progress. A running run is `Watched`: a
handler is about to record an outcome, or the running step has a deadline and the alarm is set to
it, or the thread that published it is about to set it. A run that is being undone is `Pursued`: if
all compensations are done, some thread will look (`Undoes`); if not, an alarm is set or about to
be (`Arms`), or, where handlers fail and no message is lost, every running compensation is with the
queue or an executor (`Carries`). The alternatives are what makes the invariant inductive: a late
failure deletes the alarm (`:446`), which is harmless only as long as no compensation's message can
be lost. The proof rests on `InTurn` wherever a forward step is reported: `HolderOK` says that such
a report is about the current step, and `RunSeq` that a step that has failed once is not retried.

### 5.3 AtlasWorkflow (`AtlasWorkflowProofs`)

The lemmas `ForList` ... `UndoList` say what the step lists of any classification are made of:
their types, and for the runs with one direction (`Single`: joiner, rehire, leaver) which step is
whose account. `IInv` adds to the types: `Standing` (the position is inside its list, and an
instance that is over is so at the place where `run()` ends), `Settled` (the compensations before
the position have an outcome, all of them in record-failed), `Paid` (the faults are at least the
attempts made, or those of a step that failed for good) and `Effective` (every account whose step
is behind the position is as wanted, and *no call that could undo it is under way*: that is what
makes calls that land late harmless). `Courses` classifies the actions by what they do to the
position, so that each conjunct looks at a few courses instead of all actions; `Moves` does the
same for the refinement.

### 5.4 AutomationGate (`AutomationGateProofs`)

The gate decides with memory or, after an eviction, with storage, so the invariant speaks of both:
each is `Fine`, that is, it keeps what was acknowledged (`Keeps`), and an evaluator about to report
has been counted (`Counted`). `SameWindow` relates the two: they have one window; or the one in memory
was never saved, and then the stored one is over and nothing was reported in the new one. This is what
a reset that was only done in memory amounts to.

`WindowBounded` follows from `Serves`: whatever was granted since the window of the history was opened
is in the count of the state the gate decides with, or in flight, or excused (a lost report, or in
flight at an eviction). An execution is granted only while that count is below the limit and the
evaluator itself is not in flight, which gives the bound. An eviction that brings an old window back
takes the count away, and `SameWindow` says that this count was zero, so that everything granted is
excused from then on: that is the second half of `Serves`, and the reason why the same window may be
opened again with its counts at zero. `OneMoves` counts the evaluators in two sets that differ
in one; one lemma per kind of action follows the window (`WorkedWindow`, `CheckedWindow`,
`OrderedWindow`, `EvictedWindow`, `TickedWindow`).

### 5.5 The event pipeline (`EventPipelineProofs`)

*The inductive invariant* adds to `EventTypeOK`: `RequestOK` (how far a handler, its event row and
its fan-out have come together: nothing is delivered before the row exists), `SettleOK` (what
was tallied still describes the rows: once the SELECT has run no delivery of that event is
under way), `PostOK` and `LetterOK` per delivery (a webhook that is still to be called was not
called; a status that is about to be written has its entry), `UniqueKeys` (two events of one key
are one), and `CacheOK` (what the cache names exists, with that key and tenant). At most once per
key then follows from `UniqueKeys` and `PostOK`: posts belong to events, a key has one event, and a
delivery posts once.

*The argument.* One lemma per conjunct, with one step per action under it. For the conjuncts
that few actions touch, the lemma `Writers` first says which actions change the events, the
cache, the letters and the targets at all.

### 5.6 EvidenceLocker, DispatchGate, WorkflowExecutions

*EvidenceLocker*. The five invariants are nearly inductive together; `CallOK` and `ObjectOK` add
what a call between two awaits holds and that an object lies under a key of its own hash.
`KeyFacts` carries the argument: a key tells the hash and a hash the controls, so whoever
overwrites an object leaves one to which the same rows belong. `RowCases` splits what a row may
lead to, and `Excused` says which keys a call without a bucket accounts for (`DanglingExplained`).

*DispatchGate*. `Quota` has two cases: while something is left, what passed and what is left make up
the quota; when nothing is left, what passed and the requests that have looked and not yet debited
exceed it by at most the others, since one of the requests is the one that took the last unit. `Causes`
says the same of the stored row and of every row that a suspended request will write over it: its
count is backed by that many failures its window covers (`Backed`), its opening has a cause
(`Caused`). So an overwritten row needs no argument of its own.

*WorkflowExecutions*. `Agreed` follows the key through both maps and the requests: every id in a map
or with a request was drawn for that key, and two rows of one tenant and key are one. `Owed` gives
every missing step of an execution a debtor that is still to write *that* step or broke off; it is
stronger than `StepsExplained` in naming the step, without which a request that finishes would leave
nothing to conclude.

---

## 6. What is not shown

- **Only model-checked**: liveness (`RunEnds` of both engines, `GetsIndexed`). Every safety property
  of a passing run is a theorem.
- **Combinations of faults.** `engine` and `leaver` have faults under which their properties are
  true in the code; section 4 says which further fault breaks which property, and the theorems of
  5.2 carry the conditions as assumptions. `engine` starts with one of its two budgets used up
  (`EngineSpec`), which is the `MaxFailures = 0` or `MaxLosses = 0` of 5.2. All other theorems hold
  under all faults together.
- **Not modelled of WorkflowDO**: failures of its own D1 and R2 writes, which the code catches;
  a rejected publication (it would abort the handler like an eviction does, with memory kept); two
  steps with one id; a second `/start`; `routes/workflows.ts` addressing an object by another name
  than the one it was started under. Evictions happen at external awaits only: elsewhere the
  runtime's output gate makes the effects since the last await vanish together.
- **Not modelled of AtlasWorkflow**: conditions and `retryConfig` of steps, which `buildJmlSteps`
  never sets; outputs merged into the context; a late *statement* for the row (D1 answers or fails
  long before a step's timeout).
- **Not modelled of automation**: which rules match an event (any set may), the effect of an
  action, the activity stream; an evaluator that is given no object to ask
  (`automation-evaluator.ts:130`), since both callers pass the binding.
- **Not modelled of the pipeline**: GET routes, validation and authentication, webhook
  signatures, and the JML work that `POST /events` also sets off.
- **Not modelled of the dispatch worker**: the log of invocations and the administrator's
  summaries, which nothing reads back; the registration of scripts; quotas that are negative
  or no number, which an administrator can ask for and the code does not refuse.
- **Not modelled of executions**: requests without a key, which share nothing; the UNIQUE index on
  tenant and creation time, which may refuse one of two executions of the same millisecond like
  any other failing statement.
- **The handlers of steps** and the adapters behind them succeed or fail as a whole.
- **Components without a model**: section 1.2. The map of `PROJECT.json` covers a small share of the
  repository's lines because most of them are adapters, consoles, bundles, generated output and
  request-response routes that keep no state between two statements; what does is modelled.

---

## 7. Plan

What is done: the two workflow engines with their common abstract specification, step lists,
automation, publication and dead letters, the evidence locker, the dispatch worker's quota and
breaker, and recorded executions. What is left, most valuable first:

1. **Resumption of WorkflowDO**: which steps an eviction can strand, and that no others can;
   runs with parallel steps, for which the token of 5.2 becomes one token per step of a batch;
   `NeverStranded` for leavers, whose grace period needs that no message is lost.
2. **Composition of `EventPipeline` and `AutomationGate`**: one publication with its fan-out and its
   rules under one `waitUntil`, whose end cuts off both.
3. **JML start**: classification and policies as operators, so that the jobs of `AtlasWorkflow` come
   from directory changes.
4. **Access reviews**, once console and orchestrator work on the same tables, and the **AWS job
   processor**, once its tables exist.
5. **Shared rate limit and breaker**, once a worker uses them; `DispatchGate` has the pattern.
