# The run control plane of AI Test Officer, in TLA+

AI Test Officer turns a test request into a *Run*: it plans, asks for approval
and permission, executes in a worker, collects evidence, computes a machine
gate, judges and concludes. What makes that trustworthy is the control plane:
an append-only event log per run, a reducer that replays it, a transactional
outbox, a graph thread that waits for people and workers, leases that fence
workers, ledgers and receipts that make side effects count once, and recoverers
that pick up what crashed processes left. These modules model the control plane,
TLC checks them on small instances, and TLAPS proves every safety property that
these instances satisfy for all sizes; liveness stays with TLC.

## 1. Inventory

Paths are relative to `src/`. "Store" is `agent/src/runEventStore.ts`.

| Component | State | Operations | Talks to |
|---|---|---|---|
| Run state machine (`packages/contracts/src/index.ts`), reducer (Store) | none (pure) | `transitionRunState`, `applyEvent`, `replayRunEvents`, `resolveFinalStatus` | everybody |
| Event store, PostgreSQL (Store) | `run_control_events`, `run_projections`, `event_outbox_v1` | `create`, `append`, `appendSystemRunEvent`, `get` | row locks, unique indexes |
| Routes and graph nodes that produce events | - | run creation, control, repair plan, benchmark timeout; collect-and-gate, finalize, retry-path | store, graph, queue |
| Run orchestrator (`runOrchestrator.ts`) | BullMQ queue, abort controllers | `processJob`, `executeQueuedRun`, `beginEvidenceCollection`, `resumeGraphAndQueueIfNeeded`, recovery timers | store, lease, graph, outbox |
| Execution lease (`executionLease.ts`) | `execution_leases` | acquire, heartbeat, release, list and remove expired | orchestrator |
| Judging recovery (`durableGateLeaseRecovery.ts`) | - | list stalled judging runs, settle from the committed gate | store, lease |
| Outbox (`outboxStore.ts`) | status, attempts, times of outbox rows | record, claim, publish, mark, mark failed | BullMQ |
| Parent coverage runs (`runOrchestrator.ts`, `coverageStore.ts`) | children, their outcomes | dispatch, aggregate | store, queue |
| Graph (`agentGraphService.ts`, `packages/agent-orchestration`) | LangGraph checkpoints, graph projection | start, resume, nodes, interrupts, routes | store, LLMs, orchestrator |
| Node executions (`agentNodeExecutionStore.ts`) | one row per node, attempt and input | claim, take over, complete, fail | graph |
| Approval recovery (`approvalResumeRecovery.ts`) | `updated_at` of the graph projection as a claim | scan, claim, resume | graph |
| LLM budget (`llmBudgetLedger.ts`, `llmProvider.ts`) | one ledger per run, a queue per provider | reserve, attempt, record, settle | LLM transport |
| Action receipts (`actionExecutionReceiptStore.ts`, `structuredActionExecutors.ts`) | one receipt per action | claim, request, complete | mutating API actions |
| Trajectory (`trajectoryEmitter.ts`, `trajectoryEventStore.ts`) | queues and remembered roots per process; events, root counters | emit, append, read | everybody |
| Artifacts (`artifactObjectStore.ts`, `artifactObjectReconciliation.ts`, `executionPersistence.ts`) | S3 objects, `artifacts_v1` rows | mirror, persist, reconcile | orchestrator, S3 |
| Repair workspace, differential runs, locks | sessions, patches, promise chains | open, patch, roll back, compare | file system |
| Write safety, tool gateway, proof bundles | policies, audit records | decide, record, validate | tools, artifacts |
| Browser agent, test runner, runtimes | sessions, observations | Playwright and container I/O | orchestrator |
| Planning, LLM providers, detection, connectors, UI, clients | caches, prompts | data shaping, I/O | - |

**What is hard here.** Every actor (HTTP handler, worker, graph continuation,
recovery timer) runs in some process, awaits between any two calls, and decides
from what it read earlier. `appendSystemRunEvent` derives version and
idempotency key from its own read and retries a version conflict, so a decision
may land on a later version than the one it was made for. Workers crash, hang
past their lease, and are handed the same job again. Graph continuations are
started with `void`: nobody waits for them, and a crash loses them. The
recoverers act on lists that are stale by the time they act.

**What makes each part correct.**

- *Store*: gapless legal logs; a key commits once; a materialized row is the
  replay of its log; a queued run has been promised a delivery; at most one conclusion; a pass is granted, never inferred.
- *Execution*: only the owner's evidence is judged; every conclusion rests on a
  committed gate; live leases are not stolen; an undisturbed run concludes, and so
  does one whose lease expired while it was prepared, executed or judged. That an
  old worker is always refused, and that an active run always moves on, are what
  the documents promise and two runs refute.
- *Graph*: it gets to the plan's approval only with a plan, also when a node that is
  still worked on is taken over; an approval whose resume was lost is resumed; an
  undisturbed run is judged. That an approval is never taken for the permission is
  refuted.
- *Outbox*: a recorded job reaches a worker.
- *Parent runs*: an aggregate leaves no item undispatched, whatever was killed or
  thrown before; dispositions claim no more than children did; a parent passes only
  if every child completed; it is concluded.
- *Budget*: a call is granted only where its allowance (its scope's, or the whole
  run's) has room, and what calls reserve comes back.
- *Receipts*: an action takes effect once, and its receipt tells what the target did.
- *Trajectory*: sequence numbers are dense per run and per tree. That a tree
  shows all of its runs' events is refuted.
- *Artifacts*: reconciliation keeps what the ledger names and marks what is lost.

`PROJECT.json` lists the components and, under `hazards`, every place that is
hard to test with the properties that cover it or the reason none does yet.

## 2. Modules

| Module | Models |
|---|---|
| `RunLifecycle` | The pure part: states, events, transition table, reducer (one operator per group of fields), the outbox rule, the final-status rule. No variables. |
| `AbstractRun` | What the control plane promises about one run: a variable `run` (its projection) and ten kinds of step. |
| `RunEventStore` | The PostgreSQL store with concurrent clients. Extends `RunLifecycle`; instantiates `AbstractRun` per run. |
| `RunCallers` | The requests that routes, worker, graph and recoverers make of the store. |
| `RunExecution` | One approved scenario run: delivery, workers, lease, graph continuations, recoverers, pause/cancel/resume, crash and stall. Extends `RunLifecycle`; instantiates `AbstractRun`. |
| `CoverageAggregation` | A parent run: dispatch of its coverage items, children from outside, the aggregation job, the aggregate gate and the conclusion, with killed processes. Extends `RunLifecycle`. |
| `AgentGraph` | The graph thread of one run from its creation to the gate, with every caller that starts or resumes it, node executions, the graph projection and the recovery of lost approvals. Extends `RunLifecycle`. |
| `LlmBudget` | The model calls of one run and the ledger they reserve from. |
| `ActionReceipts` | One mutating API action, its attempts, its receipt and its target. |
| `Outbox` | The outbox rows, the publishers that claim them, and the queue. |
| `Trajectory` | The emitters' queues and roots and the PostgreSQL append under two locks. |
| `ArtifactStore` | Mirroring and persistence of artifacts, and the reconciliation of ledger and bucket. |
| `RunLifecycleProofs` | Lemmas about the reducer and the transition table, shared by the modules below. |
| `RunEventStoreProofs`, `RunExecutionProofs`, `CoverageAggregationProofs`, `AgentGraphProofs`, `LlmBudgetProofs`, `TrajectoryProofs` | Theorems about the module each is named after. |
| `DurableServicesProofs` | Theorems about `ActionReceipts`, `Outbox`, `ArtifactStore`, and about the five services side by side. |
| `MCRunEventStore`, `MCRunExecution`, `MCCoverageAggregation`, `MCAgentGraph`, `MCDurableServices` | Instances for TLC. The last one extends the five services, which share no state. |

How they fit: `RunEventStore` is the store itself. `RunExecution`,
`CoverageAggregation` and `AgentGraph` are its callers and take its commits as
atomic, which is what its proofs justify (a log is extended by one legal event at
a time, whatever was read before). `AgentGraph` covers a run up to its queueing
and from its collection on, `RunExecution` from its approval to its conclusion.
The five services are used by all of them and are modelled apart, each with all
interleavings of its own callers.

### RunEventStore and the code

`log[r]` is the run's rows of `run_control_events`; each entry also keeps the
projection that replay gives through it, so that `get` is the last entry's.
That this memo *is* what `replayRunEvents` computes is the property
`ReplayAgrees`, checked and proved. `row[r]` is `run_projections`, `outbox` the execution rows of
`event_outbox_v1`. `pc`, `call` and `reply` are the calls in flight.

`append` has two steps, `LookupKey` and `LockedAppend`, because the key is
looked up before `SELECT ... FOR UPDATE`; from the row lock to `COMMIT` nobody
else can touch the run, so the rest is one step. Callers of *different* runs
meet only at the unique index on the key; a commit that violates it throws
(`unique_violation`). `create` has three steps (begin, check, insert) because
nothing is locked between its lookups and its insert. `SystemBegin` and
`Conflict` are `appendSystemRunEvent`: read the run, derive version and key, and
on `run_version_conflict` read again, four times at most.

Clients may ask for any request of the instance in any state. That includes
everything the callers do and more: properties proved here do not depend on the
callers' own checks.

### RunExecution and the code

`worker[w]` is a call of `executeQueuedRun`; each `pc` is an await between two
effects: `acquire`, `recheck`, `prepare` (run_preparing), `beforeStart`, `start`
(run_started), `execute`, `check` and `collect` (beginEvidenceCollection),
`release`. `base` is the version an append has read and not used yet. An append
commits, joins an equal event that took the version first (idempotency key),
meets a conflict and reads again, or is refused. An append that throws before
the `try` block leaves lease and heartbeat behind (`Threw`), as the code does.

`graph[a]` is the continuation that `resumeGraphAndQueueIfNeeded` starts for
attempt `a`'s result: accept or refuse it, compute and commit the gate
(run_judging), route, retry and queue again, or finalize. An error ends it.

`recoverer[p]` is a timer: expired leases (run_retrying and a new outbox row, or
the settlement of a judging run) and stalled judging runs. `ListJudging` has no
age test, so the recoverer may compete with a graph that is merely slow.

`Deliver` hands a job to an idle worker and drops it when its version is not the
run's. `Expire` is `lease_until` passing while no heartbeat runs; `Stall` is a
live process that hangs past both the lease and BullMQ's job lock, so that its
job is redelivered while it goes on; `Crash` kills a worker process with its
heartbeats and continuations.

Abstracted: the outcome summary's execution status is the payload's
`executionStatus`; the read that follows a version conflict is part of the step
that meets it in `RunEventStore`; the bound of four appends is not kept in
`RunExecution` (a retry there is unbounded); the lease does not run out between
a worker's read of the run and its next query unless the worker stalls.

### CoverageAggregation and the code

`items` is the parent's rows of `coverage_items_v1`, `child[i]` the state of the
child run of item `i`. `worker[w]` is `executeQueuedRun` for the parent followed
by `dispatchParentCoverageRun`: read the items, classify (items without an
executor are saved as blocked), and per child create, read all items, save all
items; then record the aggregation job in the outbox. With nothing left to
dispatch the worker begins evidence collection itself (`aggregateNow`), or
reports missing children. `Throw` is an error at any point of this (a store that
fails, a child that cannot be planned or started, a dynamic parent without a plan):
the `catch` of `executeQueuedRun` (`caught`) collects it as the parent's error, and
what was created and marked by then stays, so a parent may be collected with items
still pending, but not as an aggregate.

`job` is the aggregation job: `Poll` is one delivery, which throws while a child
is going and is delivered again `MaxPolls` times; `UpdateRead` and `UpdateSave`
are the `Promise.all` over `updateCoverageDisposition`; `Aggregated` begins the
evidence. `graph[a]` accepts the result, drafts and mints the gate (what the
proof bundle may make of a draft is a nondeterministic choice) and concludes.

Abstracted: run_preparing and run_started are part of `Take`, and the look and
the append of beginEvidenceCollection are one step (`RunExecution` has them
apart); an attempt is named by the version of its job, since a version starts
one when no worker outlives its lease (`OnlyStallsBreakTheFence`), as none does here; a
retry must find a version in `Attempt` to name its attempt, which bounds the
retries; a child may be executed as soon as it is created,
because its creation puts it into the outbox; the selective judge and the
retries of a judged parent are left out; the process of a graph continuation
does not die here. The browser agent's own updates of items (disposition
`binding`) are left out. The lease of a killed worker counts as expired at once.

### AgentGraph and the code

`inv[c]` is caller `c` with its invocation of the graph: `post` (the background
start of POST /v1/runs), `approve`, `grant` (the two routes), `recover`
(`recoverStalledApprovedPlanRun`) and `worker` (the resume with an execution's
result). `AnsweredWith` are the runs POST /v1/runs may answer with: one still to be
planned, or, of a confirmed execution, one the route itself has planned,
approved and granted, whose start is given both approvals (`StartInput`).
`Bootstrap` is the worker that finds a run without a graph. `Begin` is `graph.invoke`: a start begins a new pass, a resume loads the
latest checkpoint (`thread`). Then node follows node: `PassApproved`, `Suspend`,
`TakeAnswer`, `Reject` are `approvalNode` and `executionNode`, which save their
interrupt before they look at the answer; `Claim`, `Reclaim`, `Operate`,
`OperationThrows`, `Settle` are `executeAgentNodeIdempotently`, and `LeaveHook`,
`HookFails` the `makeNode` around it. `rows` is `agent_node_executions_v1`,
`shown` the graph projection's status and interrupt, `old` which records have not
been touched for their grace period. `RecordBackgroundGraphFailure` is what a
background caller does with an error: save `failed`, block the run.

Abstracted: LangGraph is external (it offers a resumed value to the node the
loaded checkpoint goes on with, saves a checkpoint after each node, and does not
serialise invocations of a thread); nodes that only read are skipped; the gate
node's look at the run and its append, and the retries of the block, are one
step; a plan is approved or decided by people in at most one route call at a
time. `WorkerStep` stands for `RunExecution`'s worker up to its result. The grace
periods (`Age`) may pass over the work of a node, which may call a model several
times and does not renew its row: the row is then taken over while somebody is
still at work on it. They are long against every other step of a live process, and
pass over one only when a stall is spent. An execution is long against the steps that
bring the graph to its interrupt, or spends one too. An answer before its interrupt is
shown, and a job before the graph has begun, spend haste.
`queueConfirmedRunAfterGraphReady` adds a second delivery of a version the outbox
delivers anyway, so it is no action here.
Not here: pause and cancellation, the dynamic browser loop, the aggregate branch
of a parent, the recovery, repair and continuation routes, and shadow mode.

### The durable services and the code

`LlmBudget`: `calls[c]` is a call of `executeLlmCallAttempt`. `Reserve` is
`reserveLlmBudget` with the row locked; `ReserveFirst` and `InsertFirst` are its
select and its upsert when there is no row to lock. `JoinTurns`, `HasTurn` and
`PassTurn` are the promise chain of `acquireProviderSlot`; a call holds its turn
until the `finally`. `Persist` and `Settle` are `persistCallAndSettleBudget`
inside the `try`, so that an answered call whose record or settlement throws goes
on to `SettleFailed`, which settles it again with no usage. `lost` and `stranded`
are history: reservations written over, and reservations nobody is left to settle.
`Allowance` is the run's totals (`Whole`) and its scopes: a call that names a scope
is measured against what that scope has used and nothing else, and is booked in the
scope and in the totals (`Books`), against which the calls without a scope are
measured. What a provider reports (`Usage`) may be more than was reserved: the
estimate leaves tools and messages out. One purpose and one token limit stand for
all; the other limits are kept alike.

`ActionReceipts`: `attempts[a]` is an execution of the action, `receipt` its row.
The target either honours the idempotency contract (a known key is answered as
before, and echoed) or does not; the code finds out by the missing echo.

`Outbox`: `ClaimBatch` is the CTE with SKIP LOCKED: the oldest rows are claimed,
and `batch[p]` is a set, because `RETURNING` gives them in no order. `Publish`,
`Mark`, `MarkFailed` are the loop over them, `pub[p]` the job in hand (`NoJob`
between two); the updates name a row by id only. The queue ignores a job id it
knows and forgets finished ones. The back-off of a
failed row is no state: a pending row may be claimed at any later time.

`Trajectory`: `waiting[p][r]` is the emitter's queue of run `r` in process `p`,
`runRoots[p]` the roots it remembers. `BeginAppend` is the transaction up to its
read of the latest `seq` under the run's advisory lock, `CommitAppend` the root's
lock, the counter and the commit. `CreationRoot` is what the creation of a
run names: the root its payload carries (a coverage child) or, without one, its
parent (a validation run). Every emission the models make is of a run that was
created first. The SQLite and memory stores, redaction and the SSE stream are
left out.

`ArtifactStore`: `mirror[a]` is the worker that captured artifact `a`
(`Upload`, `Promote`, `ReadBack`, `CleanUp`, then `PersistArtifact`, which the
code does twice: after the execution and after the judge); `rec[p]` is a
reconciliation with what it has read (`ReadRows`, `List`, `HeadObjects`,
`UpdateRows`, `DeletePlanned`). `old` is what is older than its grace period,
which passes while nothing is under way unless a long pause is spent. Objects may
be lost or spoiled; keys of different artifacts are different.

## 3. Runs

| Run | Instance | Shows |
|---|---|---|
| `store` | 2 runs, 2 clients, 2 keys, 4 events, clients symmetric, or 1 client and 1 run with 17 requests and 9 events; 1.0 million states | `TypeOK`, `LogChained`, `ReplayAgrees`, `KeyCommitsOnce`, `OneConclusion`, `WaitingRunHasNoOwner`, `QueuedRunIsDispatched`, `PassIsNeverInferred`, `ImplementsAbstractRun` |
| `store_repair_plan` | 1 run, repair plan route beside a review | violates `ReviewPassesByApproval` |
| `execution_stall` | 2 workers, 1 recoverer, 1 stall, workers symmetric; 1.2 million | `JudgedByOwner`, `LiveLeaseIsItsHolders` |
| `execution_faults` | 2 workers, 1 recoverer, 1 disturbance out of 1 crash, 1 pause or cancellation, 1 graph retry; fairness; 0.28 million | `TypeOK`, `ConclusionFromCommittedGate`, `UndisturbedRunConcludes`, `ExpiredRunConcludes` |
| `execution_fence` | 2 workers, 1 recoverer, 1 stall | violates `OldWorkerIsRefused` |
| `execution_left` | 1 worker, 1 recoverer, 1 disturbance out of 1 crash, 1 control; fairness | violates `ActiveRunMovesOn` |
| `coverage_parent` | 2 items planned in every way, 2 workers, 4 child outcomes, 2 polls, 2 faults (a killed process or a dispatch that throws), fairness; 0.96 million | `TypeOK`, `PassMeansEveryChildCompleted`, `DispositionNeverOverstates`, `AggregateMissesNoItem`, `ParentConcludes` |
| `coverage_dispositions` | 2 items, 1 worker, no failure | violates `AggregatedCoverageIsTerminal` |
| `graph_resumes` | 2 API processes and 1 background one, node work of any length, 1 disturbance out of a crash, a throwing node, an early approval, a hasty answer; fairness; 71 thousand | `TypeOK`, `GraphHasItsPlan`, `StalledApprovalIsResumed`, `UndisturbedRunIsJudged` |
| `graph_permission` | the same processes, 1 hasty answer | violates `CapabilitiesAreGranted` |
| `durable_services` | one service at a time (`part`): 3 calls, 2 of them of one scope; 3 attempts at 2 operations; 2 jobs; a root, its child and a validation of the child, 3 emissions, 1 restart; 1 artifact, 2 reconciliations; 2 processes and 2 faults each; fairness; 0.33 million | `ServicesTypeOK`, `GrantedCallsFit`, `GrantedTokensFit`, `ReservationsAreReturned`, `ActionAppliedOnce`, `ReceiptTellsTheEffect`, `OpenAppendIsNotRefused`, `RootNumbersAreDense`, `RecordedJobIsDelivered`, `ReferencedObjectIsKept`, `LostObjectStaysMarked` |
| `trajectory_tree` | the same | violates `TreeShowsItsRuns` |

**Why the bounds are enough.** Races of the store need two callers and, for a
shared key, two runs; four events hold creation of both runs and a race for the
conclusion of each. Nine events hold a life from creation to conclusion with
two more (pause and resume, a retry, an override). The variable `alone` of
`MCRunEventStore` chooses between the two at the start. In the execution, one stall
or crash gives an old and a new attempt; two workers let both act; further
failures repeat the pattern. `MaxCrashes`, `MaxStalls`, `MaxControls` and
`MaxRetries` bound the failures and interruptions, `MaxDisturbances` all of them
together, and there are as many attempt ids as those bounds allow leases to be
acquired (`AcquireLease` needs one that was not issued).

For a parent, two items give a child that is marked while another is created and
two updates that overwrite each other; two faults break the dispatch off twice, or
the dispatch and the aggregation, at any step, by a kill or an error; two polls let
a job be early and then in time, or be used up.

The graph has five callers, and each may be one invocation at a time: the start,
a second start by an early approval, the two resumes of people, the recovery and
the worker's. Node work may outlast its limit without a disturbance, so one that is
taken over alive meets a failure in the same behaviour: a throwing node whose row is
taken over, a killed approval that is recovered. (With two
disturbances all four properties hold as well; that takes twelve times as long.)
A budget of two calls has three callers, two of one scope: the scoped ones
fit their scope also when the third was granted first, while the third, measured against
the totals, is refused after them. Three attempts let
one be lost, one replay and one come too late. Two processes with the runs of one
tree meet at the run's lock, at the root's, and at both.

**Deadlock** is not checked: a store whose event bound is used up, a run that is
concluded or waits for a person, and a service with nothing left to do rightly stop.

**Fairness** (`RunExecution!Fairness`) is weak fairness of the outbox poller,
the timers (lease expiry, heartbeat), each worker, each continuation and each
recoverer. The code justifies it: promises and timers of a live Node process are
run, the poller and recoverers are `setInterval` loops, BullMQ delivers what is
queued. People (pause, cancel, resume) and failures are not fair.
`CoverageAggregation!Fairness` is the same for the parent's workers, its
aggregation job, its continuations and the lease recoverer, and takes it that a
child run ends or waits for a person. `ParentConcludes` makes an exception for a
job whose attempts are used up: `docs/code-audit-2026-09-06.md` (item 10)
records that nobody aggregates the parent then.
`AgentGraph!Fairness` is that of its invocations, the route's second look, the
recovery timer, the worker and time; `UndisturbedRunIsJudged` adds that people
answer an interrupt once it is shown. `Outbox` and `ArtifactStore` have fair
publishers, delivery, time and reconciliations, which are timers and BullMQ;
`LlmBudget` has fair calls. The receipts and the trajectory promise no progress.

### What the violated properties say

- **`ReviewPassesByApproval`**: dismissing a repair plan appends
  `decision_overridden` with status `dismissed`
  (`agent/src/server/routes/repair.routes.ts:109`); the reducer takes any
  override status but `blocked` for a pass. A run under human review gets a
  passing gate though nobody approved it.
- **`OldWorkerIsRefused`**: what a worker knows is checked by one read, and its
  events are appended with the version of a later one (`appendSystemRunEvent`). A
  worker that hangs past its lease and its job lock, between its version check and
  `run_preparing`, goes on when a second worker has got the lease: it starts the job's
  version, a recoverer that had listed the old lease sends the run back to the queue,
  and the second worker, past its own check, starts the same version again. In the
  same way a worker that hangs inside `beginEvidenceCollection` writes
  `evidence_collecting` into the run of its successor. The graph refuses the stale
  result, so nothing wrong is judged (`JudgedByOwner` holds in `execution_stall`), but
  the successor's evidence comes too late.
- **`ActiveRunMovesOn`**: a queued, preparing, running, collecting or judging run is
  not always moved on, with one killed process or one pause. The ways TLC and the
  code show:
  - an append of `run_preparing` or `run_started` that is refused, because of a pause
    or a recoverer, throws before the `try` block: lease and heartbeat stay, and no
    later job of the run can have the lease;
  - a worker killed between the lease and `run_preparing`: its job is delivered again
    while the dead lease counts, is done, and the recoverer of the expired lease looks
    at preparing, running and judging runs only;
  - a process killed between `evidence_collecting` and `run_judging`: no recoverer
    looks at collecting runs;
  - a running run that was paused and resumed is executed under an attempt its
    projection does not name: the result is refused, and the run stays running.

  `ExpiredRunConcludes` says what the recovery does give: where no graph retry, no
  person and no late recoverer interferes, a run whose lease expired while it was
  preparing, running or judging is concluded.
- **`AggregatedCoverageIsTerminal`**: the aggregation job updates its items
  concurrently, and each update saves all items as it read them. With two
  children the later save restores the other item to `executing`; the gate finds
  the coverage incomplete, and a parent all of whose children completed is
  blocked. It fails closed: `PassMeansEveryChildCompleted` holds.
- **`CapabilitiesAreGranted`**: a plan is approved while the invocation of the
  creation is still on its way to save its interrupt. The approved graph asks for
  the permission; then the older invocation saves `plan-approval` over that. When
  the person takes longer than the grace period, the scan takes the run for a lost
  approval and resumes it with an answer that passes the permission's boundary.
- **`TreeShowsItsRuns`**: a child's lifecycle events after its creation name the
  child itself as root, the emitter remembers that for the telemetry, and a
  restarted emitter knows no root: those events are not in the tree of the root.

Two more disagreements have no run of their own. An approval that arrives twice at
once is not replayed, as `docs/data-ownership.md:13` says: the second call looks its key
up before the first has committed and not again under the row's lock, meets the moved
version, and is refused with `run_version_conflict` (`LookupKey`, `LockedAppend`); one
event is committed all the same (`KeyCommitsOnce`). And planning is not quite
idempotent, as `docs/typed-subgraphs.md:92` says: when it outlasts its limit and is
completed while another invocation has already found the row too old, the take-over
(`Reclaim`), which asks for the age of the row only, sets the completed row back to
running and plans again.

The comments and documents these disagree with are quoted in `PROJECT.json`.

## 4. Proofs

`RunEventStoreProofs` proves, for any set of runs, clients and keys, any set of
typed requests and any bound on events:

| Theorem | Property | Strengthening it rests on |
|---|---|---|
| `TypeCorrect` | `TypeOK` | inductive as it is |
| `LogIsChained` | `LogChained` | with `TypeOK` |
| `ReplayRebuilds` | `ReplayAgrees` | `LogChained`, and a least counterexample (`LeastNatural`) |
| `KeysCommitOnce` | `KeyCommitsOnce` | the commit is guarded by the unique index |
| `WaitingIsUnowned` | `WaitingRunHasNoOwner` | per-state facts about the table (`ApplyMoves`) |
| `QueuedIsDispatched` | `QueuedRunIsDispatched` | every event that enters the queue dispatches |
| `ConcludedOnce` | `OneConclusion` | `ConclusionEndsRun`: after a conclusion the run stays terminal |
| `PassIsGranted` | `PassIsNeverInferred` | `GrantsPass`: the event that made the gate pass is in the log |
| `OnlyRequestsAreLogged` | none: type and payload of every logged event are some caller's request | `CallsAreAsked`: what a call carries while it reads and retries |
| `ReviewsPassByApproval`, if overrides carry a reviewer's decision (`ReviewersDecide`) | `ReviewPassesByApproval` | `LogIsAsked` |
| `CallersKeepTheContract` | none: the requests of `RunCallers` are typed; all but the repair plan route's satisfy `ReviewersDecide` | for any attempts, generations, gates and judges |
| `StoreImplementsAbstractRun` | `ImplementsAbstractRun` | `ApplyMoves`: what one application of the reducer does |

The argument has one pivot. `StepOf` says that a step of the store either leaves
log, row and outbox alone or is a commit of one legal event of one run, under an
unused key; `CommitEffect` says what such a commit does. Each invariant is then
a statement about one application of `applyEvent`, which `TransitionInTable`,
`TransitionTargets` and `ApplyMoves` derive from the transition table. The
assumptions are those declared with the constants: `None` is no attempt, the
requests are typed, the event bound is a natural number. `CallersKeepTheContract`
discharges the second for the callers the program has. Together with
`ReviewsPassByApproval` it also says what `store_repair_plan` cannot: no other
caller, and no interleaving of the others, turns a review into a pass without an
approval.

`RunExecutionProofs` proves, for any set of workers, attempts and recoverers and
any bounds on crashes, stalls, interruptions and retries:

| Theorem | Property | Strengthening it rests on |
|---|---|---|
| `TypeCorrect` | `TypeOK` | `Jobs`: a worker past delivery executes a version of the log |
| `JudgedByOwnerAlways` | `JudgedByOwner` | `Judged` |
| `ConclusionFromCommittedGateAlways` | `ConclusionFromCommittedGate` | `Judged` |
| `LiveLeaseIsHeld` | `LiveLeaseIsItsHolders` | `LeaseMoves`: the steps that touch the row |
| `OnlyStallsBreakTheFence`: as long as no stall was spent, `OldWorkerIsRefused` | `OldWorkerIsRefused`, which `execution_fence` refutes with one | `FencedUntilStall` |
| `ExecutionImplementsAbstractRun` | none: every step of `Spec` is, on `proj`, a step of `AbstractRun` or a stutter | `ApplyMoves` again |

Here the pivot is `Moves`: a step leaves the run alone or is one of the writes of
a worker, a continuation, a recoverer or a person, each an event its table allows.
The properties look back over the log, so each write is traced through it
(`LatestMoves`, `OwnersMove`).

- `Judged`: the log's own rules (`LogInv`: who owns the run is what its last start
  or retry says, a conclusion's gate was committed) do not suffice; one must know
  what a continuation or a recoverer in flight holds. While the graph of attempt
  `a` has accepted its result, the run collects for `a` or is over (`GraphHolds`),
  and a gate about to be concluded is a committed one (`SettleHolds`). A stalled
  worker cannot break this, so it holds for every bound.
- `Exclusive`: until a stall is spent a worker between acquisition and release has the
  lease (`HasLease`), because its heartbeat runs as long as it does. Two workers
  never hold it together (`OneHolder`). `FencingInv` adds what a worker saw and may
  still rely on when it appends (`Fenced`): that its version was not started, or
  that nobody else owns the run. With a stall `HasLease` is lost, and the
  fence with it. `FencedUntilStall` is the invariant of the theorem: killed workers,
  redelivered jobs, retries, pauses and recoverers that act on leases they listed long
  ago start nothing twice and collect for nobody else, for every bound; only the stall
  does.

`CoverageAggregationProofs` proves, for any items, workers, child outcomes, versions
that name attempts, polls, killed processes and errors:

| Theorem | Property | Strengthening it rests on |
|---|---|---|
| `TypeCorrect` | `TypeOK` | `Judging`: a continuation that is to conclude has a gate and a parent past its collection |
| `DispositionsAreFaithful` | `DispositionNeverOverstates` | `Coverage` |
| `AggregatesMissNothing` | `AggregateMissesNoItem` | `Coverage` |
| `PassMeansCompletion` | `PassMeansEveryChildCompleted` | `Coverage`, `Gates` |
| `ParentImplementsAbstractRun` | none: every step of `Spec` is, on `parent`, a step of `AbstractRun`, a stutter, or `Taken` | `Judging` |
| `SoleChildIsReported`, if `MaxFaults = 0` | `AggregatedCoverageIsTerminal`, while one item at most has an executor | `AggregateInv` |

The items are written by read-all, save-all, so the state of the rows is not enough:
an invariant must speak of every copy that somebody may still write back.

- `OneDispatcher`: the lease leaves one dispatcher at a time; an idle worker
  holds nothing.
- `Coverage`: every such copy is `Faithful`. It keeps the plan's executors and
  claims of an item only what its child came to, and what is said of a child that
  concluded does not become false (`AgreesStays`). Before the aggregation is
  scheduled a dispatcher's copy is the rows themselves, since no one else writes
  them (`OthersQuiet`); from then on no copy has a pending item, so an old one that
  is written back loses an outcome but never reopens an item. Losing the outcome is
  the defect `coverage_dispositions` exhibits, and it cannot turn into a pass.
- `Gates`: wherever a passing gate stands, in a continuation or in the parent,
  every child has completed (`DraftedPass`), and completion is final.
- `Taken` is the worker's `run_preparing` and `run_started`, which `Take` appends in
  one step: two versions forward, from the queue to a running attempt. Every other
  event of dispatch, aggregation, judgement and recovery is a step of its own
  (`ParentEventIsAbstract`).
- `AggregateInv` is for the other side of `coverage_dispositions`. Where no process
  dies and nothing throws no lease is ever recovered (`NothingToRecover`), so the parent is dispatched
  once and, from the scheduling of the aggregation on, only its updates write the
  items (`Uninterrupted`). Then a read row is still the row when it is saved, unless
  the update of another child came between (`Reporting`); with one executor there is
  none. Either hypothesis alone is not enough: two items without a fault are the
  run's counterexample, and with `MaxFaults = 1` TLC finds one for a single item.

`AgentGraphProofs` proves, for any processes and bounds:

| Theorem | Property | Strengthening it rests on |
|---|---|---|
| `TypeCorrect` | `TypeOK` | `AtHooks`: who is in the middle of a node's work is at such a node |
| `PlanComesFirst` | `GraphHasItsPlan` | `PlanInv` |
| `GraphImplementsAbstractRun` | none: every step of `Spec` is a step of `AbstractRun` on `proj`, or a stutter | `RunMoves`: what a step may append |
| `PermissionBoundaryHolds`, if `MaxStalls = MaxEarly = MaxHaste = 0` | `CapabilitiesAreGranted` | `GrantInv` |

`PlanInv` says that a run has its plan or is `Planless`: then no execution of planning
is completed, the thread and every caller stand before the boundary, and whoever is
about to settle the plan node's row does so in a run that planning has ended. It holds
whoever works on a row and whoever takes it over, since the plan is in the log before
an execution of planning is completed.

`PermissionBoundaryHolds` is the other side of `graph_permission`: it allows any
number of crashes and throwing nodes, and its three conditions are exactly the ways
to defeat the boundary. Raising any one of the three bounds to 1 in
`graph_permission.cfg`, the other two at 0, gives a counterexample. `GrantInv` says
why nothing else can. Callers then take turns although nothing serialises them
(`TakesTurn`): a person answers, and the recovery claims, only where the graph rests
at a question (`Awaited`), and nobody is in an invocation then. Who has the turn is
where his role allows (`InPlace`): his input is the thread's latest checkpoint, and a
resume that carries the plan's approval has not got beyond the node behind that
boundary, so the only approval to arrive at the permission boundary is the grant.
And he is entitled to it (`Entitled`, `ThreadFits`): where an input or the thread
believes the capabilities granted they are, or planning has ended the run and its
plan node leads to the end of the graph (`Ended`). That last case is a start of a
run already blocked or in review, whose input says granted (`StartInput`); without
it the invariant is not inductive.

The services are proved for any processes, callers, keys and bounds:

| Module | Theorem | Property | Inductive invariant |
|---|---|---|---|
| `LlmBudgetProofs` | `LlmTypeCorrect`, `ReservationsComeBack` | `LlmTypeOK`, `ReservationsAreReturned` | `LlmInv` |
| `LlmBudgetProofs` | `CallsAreBudgeted` | `GrantedCallsFit` (an action property) | `LlmInv` |
| `LlmBudgetProofs` | `TokensAreBudgeted` | `GrantedTokensFit` (an action property) | `LlmInv`, `TokenInv` |
| `DurableServicesProofs` | `ActionTypeCorrect`, `ActionIsAppliedOnce`, `ReceiptIsTruthful` | `ActionTypeOK`, `ActionAppliedOnce`, `ReceiptTellsTheEffect` | `ActionInv` |
| `DurableServicesProofs` | `PublishedJobsAreHanded` | `PublishedIsHanded` | `OutboxInv` |
| `DurableServicesProofs` | `ReferencedObjectsAreKept` | `ReferencedObjectIsKept` (an action property) | `ArtifactInv` |
| `TrajectoryProofs` | `TrajectoryTypeCorrect`, `OpenAppendIsSafe`, `RootSequenceIsDense` | `TrajectoryTypeOK`, `OpenAppendIsNotRefused`, `RootNumbersAreDense` | `TrajectoryInv` |
| `TrajectoryProofs` | `EventsAreFiledAtHome` | none: an event is filed under what the creation of its run named or under its own run (`FiledAtHome`), and never in another tree (`FiledInItsTree`) | `HomeInv` |
| `DurableServicesProofs` | `ServicesTypeCorrect`, `ServicesAreSafe` | `ServicesTypeOK`; all of the above but `ReferencedObjectIsKept`, together | all of the above |

- `LlmInv`: the totals of the run and the usage of each scope are accounts of one
  kind (`Allowance`). In each, the calls granted are those it counts and those it lost
  (`CountedIn`), and what is reserved is owned by an unsettled call or stranded
  (`OwnedIn`). A call may be settled twice; the totals are cut off at nothing, so the
  two counts are inequalities, and that a settling call has its ledger row rests on
  `StepTellsGrant`. A call that inserts the first row fits an empty account
  (`InsertedFits`). The grant itself is one step: there the capacity test meets the
  counts.
- `ActionInv`: only the operation that was claimed is requested and has effects;
  an answer that an attempt holds is the target's while it honours the contract
  (`HeldAnswerStands`), which is what makes a second completion harmless.
- `TrajectoryInv`: a run has one open append (`OneOpenAppend`, the run's lock) and
  its rows are numbered by their place, so the number read is still the next at
  the commit; the events of a root are finitely many and exactly as many as its
  counter says, under the root's lock.
- `OutboxInv`: a row in hand is one of the publisher's claimed rows, it is marked
  only after the queue has taken it (`ToMarkIsHanded`), and the queue gives up a job
  only to a worker (`DoneWasDelivered`). Two publishers may deal with one row, since
  the updates do not ask who claimed it; the later of them may set it back to
  pending, but neither can make it published without the job having been handed on.
  This is what the code promises, and no more: at least one delivery.
- `ArtifactInv`: a reconciliation deletes by a list that is old by then. Without a
  pause that outlasts the grace period, an object is older than it only when its
  worker is done with it (`OldIsSettled`), and then every reconciliation under way
  has read its row if it has one (`Surveyed`); so what is planned for deletion has no
  row and never will (`DoomedHasNoRow`).
- `TokenInv`: the tokens a call still holds and those it reported, taken as sets of
  pairs so that their number is a cardinality, are at most what each of its accounts
  has reserved and consumed (`TokensCounted`), as long as no call's record or
  settlement failed and no reservation was written over. Nothing is assumed of what a
  provider reports; a report above the estimate makes the account refuse more.
- Side by side (`ServicesStep`): a step of one service is a stutter of the others, so
  the composition implies the safety part of each service's specification.

**Induction over the log.** `Replay` is a recursive function on the length of a
log. The library's induction theorems take an operator, which the provers cannot
instantiate; `LeastNatural` says instead that a nonempty set of naturals has a
least member, from the well-foundedness of strict inclusion on finite sets. The
lengths at which replay and memo differ have no least member: at the least one
`LogChained` gives one application of `applyEvent` on both sides.

**Only model-checked.** Liveness under fairness and `ENABLED` are out of the
provers' reach: `UndisturbedRunConcludes`, `ExpiredRunConcludes`, `ParentConcludes`,
`StalledApprovalIsResumed`, `UndisturbedRunIsJudged`, `RecordedJobIsDelivered`,
`LostObjectStaysMarked`, and the liveness property that a run refutes
(`ActiveRunMovesOn`). Of the safety properties that runs refute, four are proved under
the condition that excludes the cause (`OldWorkerIsRefused`,
`ReviewPassesByApproval`, `CapabilitiesAreGranted`, `AggregatedCoverageIsTerminal`); for `TreeShowsItsRuns`, `EventsAreFiledAtHome` says where the events it misses are.

## 5. What is left out

**Not modelled, and why.** The SQLite stores, the file ledger and the in-process
queue (single process, no interleaving between their steps); structured coverage
plans (a child's execution by another executor); the graph's browser loop and its
recovery, repair and continuation routes, which need the content of plans and
observations; the event stream of the trajectory and its clients; LLM answers,
planning content, prompts, browser and container I/O, detection and the UI (data
without control state); proof bundles, write safety and the tool gateway (pure
decisions about one input at a time); repair workspaces (file operations of one
process under a project lock).

**Bounds.** Every bound is a constant named `Max...` and is spent in a guard;
none is a limit of the program except `MaxCalls` and `MaxTokens` (the run's
budget), `MaxTries` (transport attempts) and `MaxPolls` (BullMQ's attempts),
which the code takes from its configuration.
