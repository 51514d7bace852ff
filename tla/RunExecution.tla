---------------------------- MODULE RunExecution ----------------------------
(***************************************************************************)
(* The execution of one approved run: agent/src/runOrchestrator.ts with    *)
(* the lease of executionLease.ts, the graph that judges what a worker     *)
(* brought back, and the recoverers that look for abandoned runs.  Every   *)
(* actor reads the event store, decides, and appends; in between, others   *)
(* move the run.  The store itself is RunEventStore: here its append is    *)
(* one step (Commits, Joins, Conflicts, Refuses), and the read before it   *)
(* another.                                                                *)
(*                                                                         *)
(* The run is a scenario run (not a parent, no structured coverage plan)   *)
(* and BullMQ is external: a queue of job ids that adds an id once, hands  *)
(* a job to one worker and hands it out again when that worker dies.       *)
(***************************************************************************)
EXTENDS RunLifecycle, Sequences

CONSTANTS
  Worker,        \* worker slots, each in a process of its own
  Recoverer,     \* processes that run the recovery timers
  Gates,         \* outcomes the machine gate may come to
  Judges,        \* recommendations a judge may come to
  MaxCrashes,    \* bound: worker processes killed
  MaxStalls,     \* bound: workers paused past the lease's and the job's time
  MaxControls,   \* bound: pauses and cancellations by people
  MaxRetries,    \* bound: retries the graph decides on
  MaxDisturbances  \* bound: the four above together

\* The gate is one of the contract's; a judge may also have nothing to say.
ASSUME ExecutionConstants ==
  /\ None \notin Worker
  /\ Gates \subseteq GateStatus
  /\ {MaxCrashes, MaxStalls, MaxControls, MaxRetries, MaxDisturbances} \subseteq Nat

VARIABLES
  proj,      \* the run's projection
  log,       \* its events: [type, attempt, generation, gate]
  outbox,    \* versions whose execution rows are not published yet
  queue,     \* versions waiting in BullMQ
  added,     \* job ids BullMQ has seen
  lease,     \* the row of execution_leases
  beating,   \* attempts whose heartbeat timer runs
  worker,    \* worker[w]: where executeQueuedRun of w stands
  graph,     \* graph[a]: the graph continuation of attempt a's result
  recoverer, \* recoverer[p]: where a recovery scan of p stands
  budget     \* what is left of the bounds

store == <<proj, log, outbox>>
vars == <<proj, log, outbox, queue, added, lease, beating, worker, graph, recoverer, budget>>

Unread == 0    \* the version an appender has not read yet

Idle == [pc |-> "idle", job |-> 0, attempt |-> None, base |-> Unread, caught |-> FALSE]
NoGraph == [pc |-> "none", generation |-> 0, owner |-> None, base |-> Unread, gate |-> Absent]
Resting == [pc |-> "idle", base |-> Unread, gate |-> Absent]
NoLease == [attempt |-> None, expired |-> FALSE]

\* acquireExecutionLease draws a new attempt id, of the Attempt there are (a bound);
\* graph[a].owner tells who did.
Issued == {a \in Attempt : graph[a].owner # None}
NewAttempt == CHOOSE a \in Attempt : a \notin Issued

StoppedState == TerminalState \cup {"paused"}
ClosedState == TerminalState \cup {"awaiting-human-review"}

\* The bounds: a disturbance is spent from its own kind and from the total.
Spend(kind) ==
  /\ budget[kind] > 0 /\ budget.all > 0
  /\ budget' = [budget EXCEPT ![kind] = @ - 1, !.all = @ - 1]

(***************************************************************************)
(* appendSystemRunEvent, after it read the version `base`.                 *)
(***************************************************************************)
Entry(type, pay) ==
  [type |-> type, attempt |-> pay.attempt, generation |-> pay.generation, gate |-> pay.machineGate]

Commits(base, type) == base = proj.version /\ CanTransition(proj.state, type)
Refuses(base, type) == base = proj.version /\ ~CanTransition(proj.state, type)

\* The key names the type and the version: an equal event that took the version
\* first is returned as if it were the caller's own, if the lookup came after it.
Joins(base, type) == base < proj.version /\ log[base + 1].type = type
Conflicts(base) == base < proj.version

\* The part of a payload the reducer reads; the log also keeps, for run_judging
\* and evidence_collecting, the attempt that sent it.
Write(type, pay, sender) ==
  LET after == applyEvent(proj, type, pay)
  IN  /\ proj' = after
      /\ log' = Append(log, Entry(type, [pay EXCEPT !.attempt = sender]))
      /\ outbox' = IF Dispatches(after, type) THEN outbox \cup {after.version} ELSE outbox

(***************************************************************************)
(* Delivery: the outbox poller or enqueueRun's fast path, then BullMQ.     *)
(***************************************************************************)
Publish ==
  /\ \E v \in outbox :
       /\ outbox' = outbox \ {v}
       /\ queue' = IF v \in added THEN queue ELSE queue \cup {v}
       /\ added' = added \cup {v}
  /\ UNCHANGED <<proj, log, lease, beating, worker, graph, recoverer, budget>>

IsCurrent(v) == proj.version = v

\* processJob: a job whose version the run has left is acknowledged unread.
Deliver(w) ==
  /\ worker[w].pc = "idle"
  /\ \E v \in queue :
       /\ queue' = queue \ {v}
       /\ worker' = IF IsCurrent(v)
                      THEN [worker EXCEPT ![w] = [Idle EXCEPT !.pc = "acquire", !.job = v]]
                      ELSE worker
  /\ UNCHANGED <<store, added, lease, beating, graph, recoverer, budget>>

(***************************************************************************)
(* executeQueuedRun.                                                       *)
(***************************************************************************)
Goto(w, pc) == worker' = [worker EXCEPT ![w].pc = pc, ![w].base = Unread]

\* A job that cannot have the lease is done: nobody will deliver it again.
AcquireLease(w) ==
  /\ worker[w].pc = "acquire"
  /\ IF lease.attempt = None \/ lease.expired
       THEN LET a == NewAttempt
            IN  /\ Issued # Attempt
                /\ lease' = [attempt |-> a, expired |-> FALSE]
                /\ beating' = beating \cup {a}
                /\ graph' = [graph EXCEPT ![a].owner = w]
                /\ worker' = [worker EXCEPT ![w].pc = "recheck", ![w].attempt = a]
       ELSE /\ worker' = [worker EXCEPT ![w] = Idle]
            /\ UNCHANGED <<lease, beating, graph>>
  /\ UNCHANGED <<store, queue, added, recoverer, budget>>

\* Mutant: the lease is released by run id only.
ReleaseAnyLease(w) ==
  /\ worker' = [worker EXCEPT ![w] = Idle]
  /\ beating' = beating \ {worker[w].attempt}
  /\ lease' = NoLease

\* clearInterval and release, as `finally` and the early returns do it.
ReleaseLease(w) ==
  /\ worker' = [worker EXCEPT ![w] = Idle]
  /\ beating' = beating \ {worker[w].attempt}
  /\ lease' = IF lease.attempt = worker[w].attempt THEN NoLease ELSE lease

Recheck(w) ==
  /\ worker[w].pc = "recheck"
  /\ IF ~IsCurrent(worker[w].job) \/ proj.state \in StoppedState
       THEN ReleaseLease(w)
       ELSE /\ Goto(w, IF proj.state = "queued" THEN "prepare" ELSE "beforeStart")
            /\ UNCHANGED <<lease, beating>>
  /\ UNCHANGED <<store, queue, added, graph, recoverer, budget>>

BeforeStart(w) ==
  /\ worker[w].pc = "beforeStart"
  /\ Goto(w, IF proj.state = "preparing" THEN "start" ELSE "execute")
  /\ UNCHANGED <<store, queue, added, lease, beating, graph, recoverer, budget>>

\* runVisualGrayTest gives a result or throws; both end in beginEvidenceCollection.
Execute(w) ==
  /\ worker[w].pc = "execute"
  /\ \E caught \in BOOLEAN :
       worker' = [worker EXCEPT ![w].pc = "check", ![w].caught = caught]
  /\ UNCHANGED <<store, queue, added, lease, beating, graph, recoverer, budget>>

\* beginEvidenceCollection's own look at the run.
CheckRunning(w) ==
  /\ worker[w].pc = "check"
  /\ Goto(w, IF proj.state = "running" /\ proj.attempt = worker[w].attempt
               THEN "collect" ELSE "release")
  /\ UNCHANGED <<store, queue, added, lease, beating, graph, recoverer, budget>>

Release(w) ==
  /\ worker[w].pc = "release"
  /\ ReleaseLease(w)
  /\ UNCHANGED <<store, queue, added, graph, recoverer, budget>>

WorkerEvent == [prepare |-> "run_preparing", start |-> "run_started", collect |-> "evidence_collecting"]
WorkerNext  == [prepare |-> "beforeStart", start |-> "execute", collect |-> "release"]
Appending(w) == worker[w].pc \in DOMAIN WorkerEvent

ReadVersion(w) ==
  /\ Appending(w) /\ worker[w].base = Unread
  /\ worker' = [worker EXCEPT ![w].base = proj.version]
  /\ UNCHANGED <<store, queue, added, lease, beating, graph, recoverer, budget>>

\* Mutant: a start binds the version it read, not the version of its job.
StartBindsPresentVersion(w) ==
  IF worker[w].pc = "start"
    THEN [NoPayload EXCEPT !.attempt = worker[w].attempt, !.generation = proj.version]
    ELSE NoPayload

WorkerPayload(w) ==
  IF worker[w].pc = "start"
    THEN [NoPayload EXCEPT !.attempt = worker[w].attempt, !.generation = worker[w].job]
    ELSE NoPayload

\* The append returned: on with the job; a collected result resumes the graph,
\* which nobody awaits.
Returned(w) ==
  /\ Goto(w, WorkerNext[worker[w].pc])
  /\ graph' = IF worker[w].pc = "collect"
                THEN [graph EXCEPT ![worker[w].attempt].pc = "accept",
                                   ![worker[w].attempt].generation = worker[w].job]
                ELSE graph

\* The append threw.  Inside `try` the catch looks at the run once more, in the
\* catch it leaves through `finally`; before `try` nothing releases the lease and
\* nothing stops the heartbeat.
Threw(w) ==
  CASE worker[w].pc # "collect" -> worker' = [worker EXCEPT ![w] = Idle]
    [] worker[w].pc = "collect" /\ ~worker[w].caught ->
         worker' = [worker EXCEPT ![w].pc = "check", ![w].base = Unread, ![w].caught = TRUE]
    [] OTHER -> Goto(w, "release")

WorkerAppend(w) ==
  LET type == WorkerEvent[worker[w].pc]
      base == worker[w].base
  IN  /\ Appending(w) /\ base # Unread
      /\ \/ /\ Commits(base, type)
            /\ Write(type, WorkerPayload(w), worker[w].attempt)
            /\ Returned(w)
         \/ Joins(base, type) /\ Returned(w) /\ UNCHANGED store
         \/ /\ Conflicts(base)
            /\ worker' = [worker EXCEPT ![w].base = Unread]
            /\ UNCHANGED <<store, graph>>
         \/ Refuses(base, type) /\ Threw(w) /\ UNCHANGED <<store, graph>>
      /\ UNCHANGED <<queue, added, lease, beating, recoverer, budget>>

WorkerStep(w) ==
  \/ Deliver(w) \/ AcquireLease(w) \/ Recheck(w) \/ BeforeStart(w) \/ Execute(w)
  \/ CheckRunning(w) \/ Release(w) \/ ReadVersion(w) \/ WorkerAppend(w)

(***************************************************************************)
(* resumeGraphAndQueueIfNeeded and the graph nodes it runs, for the result *)
(* of attempt a.  An error in a node ends the continuation silently.       *)
(***************************************************************************)
GraphGoto(a, pc) == graph' = [graph EXCEPT ![a].pc = pc, ![a].base = Unread]
GraphOnly == UNCHANGED <<queue, added, lease, beating, worker, recoverer>>

\* Mutant: a result is accepted whenever the run collects.
AcceptAnyResult(a) ==
  /\ graph[a].pc = "accept"
  /\ GraphGoto(a, IF proj.state = "collecting" THEN "gate" ELSE "done")
  /\ GraphOnly /\ UNCHANGED <<store, budget>>

\* acceptsExecutionResult
AcceptResult(a) ==
  /\ graph[a].pc = "accept"
  /\ GraphGoto(a, IF /\ proj.state = "collecting"
                     /\ proj.attempt = a
                     /\ proj.generation = graph[a].generation
                    THEN "gate" ELSE "done")
  /\ GraphOnly /\ UNCHANGED <<store, budget>>

\* Mutant: the gate is handed on without being committed.
GateWithoutCommit(a) ==
  /\ graph[a].pc = "gate"
  /\ \E g \in Gates : graph' = [graph EXCEPT ![a].gate = g, ![a].pc = "route"]
  /\ GraphOnly /\ UNCHANGED <<store, budget>>

\* collect-and-gate: the gate is computed, and committed if the run collects.
CollectAndGate(a) ==
  /\ graph[a].pc = "gate"
  /\ \E g \in Gates :
       graph' = [graph EXCEPT ![a].gate = g,
                              ![a].pc = IF proj.state = "collecting" THEN "judge" ELSE "route"]
  /\ GraphOnly /\ UNCHANGED <<store, budget>>

\* A gate that does not pass may be sent back for another attempt.
RouteGate(a) ==
  /\ graph[a].pc = "route"
  /\ \/ GraphGoto(a, "finalize") /\ UNCHANGED budget
     \/ /\ graph[a].gate # "pass" /\ Spend("retries")
        /\ GraphGoto(a, IF proj.state = "judging" THEN "retry" ELSE "finalize")
  /\ GraphOnly /\ UNCHANGED store

Finalize(a) ==
  /\ graph[a].pc = "finalize"
  /\ GraphGoto(a, IF proj.state \in ClosedState THEN "done" ELSE "conclude")
  /\ GraphOnly /\ UNCHANGED <<store, budget>>

\* Mutant: the version after the present one is queued.
RequeueNext(a) ==
  /\ graph[a].pc = "requeue"
  /\ GraphGoto(a, "done")
  /\ outbox' = IF proj.state \in StoppedState THEN outbox ELSE outbox \cup {proj.version + 1}
  /\ GraphOnly /\ UNCHANGED <<proj, log, budget>>

\* The graph waits for a new result: the run is queued under its present version.
Requeue(a) ==
  /\ graph[a].pc = "requeue"
  /\ GraphGoto(a, "done")
  /\ outbox' = IF proj.state \in StoppedState THEN outbox ELSE outbox \cup {proj.version}
  /\ GraphOnly /\ UNCHANGED <<proj, log, budget>>

GraphAppending(a) == graph[a].pc \in {"judge", "retry", "conclude"}

GraphReadVersion(a) ==
  /\ GraphAppending(a) /\ graph[a].base = Unread
  /\ graph' = [graph EXCEPT ![a].base = proj.version]
  /\ GraphOnly /\ UNCHANGED <<store, budget>>

\* The conclusion a gate and a recommendation lead to.
Conclusion(gate, judge) ==
  LET final == resolveFinalStatus(gate, judge, Absent)
  IN  [ type |-> TerminalEventOf(final),
        payload |-> [NoPayload EXCEPT !.machineGate = gate, !.finalStatus = final] ]

GraphEvents(a) ==
  CASE graph[a].pc = "judge" ->
         {[type |-> "run_judging", payload |-> [NoPayload EXCEPT !.machineGate = graph[a].gate]]}
    [] graph[a].pc = "retry" -> {[type |-> "run_retrying", payload |-> NoPayload]}
    [] OTHER -> {Conclusion(graph[a].gate, j) : j \in Judges}

GraphReturned(a) ==
  GraphGoto(a, CASE graph[a].pc = "judge" -> "route"
                 [] graph[a].pc = "retry" -> "requeue"
                 [] OTHER -> "done")

GraphAppend(a) ==
  LET base == graph[a].base
  IN  /\ GraphAppending(a) /\ base # Unread
      /\ \E e \in GraphEvents(a) :
           \/ Commits(base, e.type) /\ Write(e.type, e.payload, a) /\ GraphReturned(a)
           \/ Joins(base, e.type) /\ GraphReturned(a) /\ UNCHANGED store
           \/ Conflicts(base) /\ GraphGoto(a, graph[a].pc) /\ UNCHANGED store
           \/ Refuses(base, e.type) /\ GraphGoto(a, "done") /\ UNCHANGED store
      /\ GraphOnly /\ UNCHANGED budget

GraphStep(a) ==
  \/ AcceptResult(a) \/ CollectAndGate(a) \/ RouteGate(a) \/ Finalize(a)
  \/ Requeue(a) \/ GraphReadVersion(a) \/ GraphAppend(a)

(***************************************************************************)
(* Recovery.                                                               *)
(***************************************************************************)
RecovererGoto(p, pc) == recoverer' = [recoverer EXCEPT ![p] = [Resting EXCEPT !.pc = pc]]
RecovererOnly == UNCHANGED <<queue, added, beating, worker, graph, budget>>

\* listExpiredExecutionLeaseRunIds
ListExpired(p) ==
  /\ recoverer[p].pc = "idle"
  /\ lease.expired
  /\ RecovererGoto(p, "expired")
  /\ RecovererOnly /\ UNCHANGED <<store, lease>>

\* Mutant: only a running run is taken back from an expired lease.
ReadExpiredRunning(p) ==
  /\ recoverer[p].pc = "expired"
  /\ RecovererGoto(p, CASE proj.state = "judging" -> "judging"
                        [] proj.state = "running" -> "retry"
                        [] OTHER -> "idle")
  /\ RecovererOnly /\ UNCHANGED <<store, lease>>

\* recoverExpiredExecutionLeases reads each run it listed.
ReadExpired(p) ==
  /\ recoverer[p].pc = "expired"
  /\ RecovererGoto(p, CASE proj.state = "judging" -> "judging"
                        [] proj.state \in {"preparing", "running"} -> "retry"
                        [] OTHER -> "idle")
  /\ RecovererOnly /\ UNCHANGED <<store, lease>>

\* listStalledJudgingRunIds: the grace period may pass while the graph still runs.
ListJudging(p) ==
  /\ recoverer[p].pc = "idle"
  /\ proj.state = "judging"
  /\ RecovererGoto(p, "judging")
  /\ RecovererOnly /\ UNCHANGED <<store, lease>>

\* recoverStalledJudgingRun concludes from the gate it reads here.
ReadJudging(p) ==
  /\ recoverer[p].pc = "judging"
  /\ recoverer' = [recoverer EXCEPT ![p] =
       IF proj.state = "judging"
         THEN [Resting EXCEPT !.pc = "settle", !.gate = proj.machineGate]
         ELSE Resting]
  /\ RecovererOnly /\ UNCHANGED <<store, lease>>

RecovererReadVersion(p) ==
  /\ recoverer[p].pc \in {"retry", "settle"} /\ recoverer[p].base = Unread
  /\ recoverer' = [recoverer EXCEPT ![p].base = proj.version]
  /\ RecovererOnly /\ UNCHANGED <<store, lease>>

RecovererConflicts(p) ==
  /\ Conflicts(recoverer[p].base)
  /\ recoverer' = [recoverer EXCEPT ![p].base = Unread]
  /\ UNCHANGED <<store, lease>>

\* run_retrying and enqueueRun of the version it made.
RetryExpired(p) ==
  LET base == recoverer[p].base
  IN  /\ recoverer[p].pc = "retry" /\ base # Unread
      /\ \/ /\ Commits(base, "run_retrying")
            /\ Write("run_retrying", NoPayload, None)
            /\ RecovererGoto(p, "idle") /\ UNCHANGED lease
         \/ /\ Joins(base, "run_retrying")
            /\ outbox' = outbox \cup {base + 1}
            /\ RecovererGoto(p, "idle") /\ UNCHANGED <<proj, log, lease>>
         \/ RecovererConflicts(p)
         \/ Refuses(base, "run_retrying") /\ RecovererGoto(p, "idle") /\ UNCHANGED <<store, lease>>
      /\ RecovererOnly

\* removeExpiredExecutionLease follows the conclusion.
SettleJudging(p) ==
  LET base == recoverer[p].base
  IN  /\ recoverer[p].pc = "settle" /\ base # Unread
      /\ \E j \in Judges :
           LET e == Conclusion(recoverer[p].gate, j)
               cleaned == lease' = IF lease.expired THEN NoLease ELSE lease
           IN  \/ /\ Commits(base, e.type)
                  /\ Write(e.type, e.payload, None)
                  /\ RecovererGoto(p, "idle") /\ cleaned
               \/ Joins(base, e.type) /\ RecovererGoto(p, "idle") /\ cleaned /\ UNCHANGED store
               \/ RecovererConflicts(p)
               \/ Refuses(base, e.type) /\ RecovererGoto(p, "idle") /\ UNCHANGED <<store, lease>>
      /\ RecovererOnly

RecovererStep(p) ==
  \/ ListExpired(p) \/ ReadExpired(p) \/ ListJudging(p) \/ ReadJudging(p)
  \/ RecovererReadVersion(p) \/ RetryExpired(p) \/ SettleJudging(p)

(***************************************************************************)
(* Time and failure.                                                       *)
(***************************************************************************)
\* lease_until passes when no heartbeat renews the row.  The time to live is long
\* against the steps of a live process: a worker that read the run to take its job
\* asks for the lease before (a Stall is a worker that does not).
Expire ==
  /\ lease.attempt # None /\ ~lease.expired /\ lease.attempt \notin beating
  /\ \A w \in Worker : worker[w].pc # "acquire"
  /\ lease' = [lease EXCEPT !.expired = TRUE]
  /\ UNCHANGED <<store, queue, added, beating, worker, graph, recoverer, budget>>

\* A heartbeat renews the row of its attempt, also when it has expired.
Heartbeat ==
  /\ lease.expired /\ lease.attempt \in beating
  /\ lease' = [lease EXCEPT !.expired = FALSE]
  /\ UNCHANGED <<store, queue, added, beating, worker, graph, recoverer, budget>>

\* A worker process hangs long enough for its lease and for BullMQ's lock on its
\* job; it goes on later.
Stall(w) ==
  /\ Spend("stalls")
  /\ worker[w].attempt # None /\ lease.attempt = worker[w].attempt /\ ~lease.expired
  /\ lease' = [lease EXCEPT !.expired = TRUE]
  /\ queue' = queue \cup {worker[w].job}
  /\ UNCHANGED <<store, added, beating, worker, graph, recoverer>>

\* A worker process dies with its heartbeats and its graph continuations, and is
\* started again; BullMQ hands its job out once more.
Crash(w) ==
  /\ Spend("crashes")
  /\ worker[w].pc # "idle" \/ \E a \in Attempt : graph[a].owner = w /\ graph[a].pc \notin {"none", "done"}
  /\ queue' = IF worker[w].pc # "idle" THEN queue \cup {worker[w].job} ELSE queue
  /\ worker' = [worker EXCEPT ![w] = Idle]
  /\ beating' = {a \in beating : graph[a].owner # w}
  /\ graph' = [a \in Attempt |-> IF graph[a].owner = w /\ graph[a].pc # "none"
                                   THEN [graph[a] EXCEPT !.pc = "done"] ELSE graph[a]]
  /\ UNCHANGED <<store, added, lease, recoverer>>

(***************************************************************************)
(* Pause, resume and cancel, by HTTP.  The handler retries a version       *)
(* conflict, so the command is one step at the version it lands on; it     *)
(* then aborts the execution, which may end in either way anyway.          *)
(***************************************************************************)
Control(type) ==
  /\ CanTransition(proj.state, type)
  /\ Write(type, NoPayload, None)
  /\ UNCHANGED <<queue, added, lease, beating, worker, graph, recoverer>>

Interrupt ==
  /\ Spend("controls")
  /\ \E type \in {"run_paused", "run_cancelled"} : Control(type)

Resume == Control("run_resumed") /\ UNCHANGED budget

(***************************************************************************)
(* The run has been created, planned, approved and granted permission.     *)
(***************************************************************************)
ApprovedRun ==
  [DraftRun EXCEPT !.state = "queued", !.version = 4, !.kind = "validation",
                   !.executionStatus = "running"]

ApprovedLog ==
  [ i \in 1 .. 4 |->
      Entry(<<"run_created", "plan_generated", "plan_approved", "permission_granted">>[i], NoPayload) ]

FullBudget ==
  [crashes |-> MaxCrashes, stalls |-> MaxStalls, controls |-> MaxControls,
   retries |-> MaxRetries, all |-> MaxDisturbances]

Init ==
  /\ proj = ApprovedRun
  /\ log = ApprovedLog
  /\ outbox = {4} /\ queue = {} /\ added = {}
  /\ lease = NoLease /\ beating = {}
  /\ worker = [w \in Worker |-> Idle]
  /\ graph = [a \in Attempt |-> NoGraph]
  /\ recoverer = [p \in Recoverer |-> Resting]
  /\ budget = FullBudget

Next ==
  \/ \E w \in Worker : WorkerStep(w) \/ Stall(w) \/ Crash(w)
  \/ \E a \in Attempt : GraphStep(a)
  \/ \E p \in Recoverer : RecovererStep(p)
  \/ Publish \/ Expire \/ Heartbeat \/ Interrupt \/ Resume

Spec == Init /\ [][Next]_vars

\* Processes that live go on, timers fire, and BullMQ delivers; people and
\* failures need not act.
Fairness ==
  /\ WF_vars(Publish) /\ WF_vars(Expire) /\ WF_vars(Heartbeat)
  /\ \A w \in Worker : WF_vars(WorkerStep(w))
  /\ \A a \in Attempt : WF_vars(GraphStep(a))
  /\ \A p \in Recoverer : WF_vars(RecovererStep(p))

FairSpec == Spec /\ Fairness

-----------------------------------------------------------------------------
(***************************************************************************)
(* Properties.                                                             *)
(***************************************************************************)
LogEntry ==
  [type : EventType, attempt : Attempt \cup {None}, generation : Nat, gate : GateStatus \cup {Absent}]

WorkerPc ==
  {"idle", "acquire", "recheck", "prepare", "beforeStart", "start", "execute", "check", "collect",
   "release"}

WorkerRecord ==
  [pc : WorkerPc, job : Nat, attempt : Attempt \cup {None}, base : Nat, caught : BOOLEAN]

GraphPc ==
  {"none", "accept", "gate", "judge", "route", "retry", "requeue", "finalize", "conclude", "done"}

GraphRecord ==
  [ pc : GraphPc, generation : Nat, owner : Worker \cup {None}, base : Nat,
    gate : GateStatus \cup {Absent} ]

RecovererPc == {"idle", "expired", "retry", "judging", "settle"}

RecovererRecord == [pc : RecovererPc, base : Nat, gate : GateStatus \cup {Absent}]

StoreTyped ==
  /\ proj \in Projection /\ log \in Seq(LogEntry)
  /\ proj.version = Len(log) /\ Len(log) > 0
  /\ outbox \subseteq 1 .. Len(log)

ActorsTyped ==
  /\ lease \in [attempt : Attempt \cup {None}, expired : BOOLEAN]
  /\ beating \subseteq Attempt
  /\ worker \in [Worker -> WorkerRecord]
  /\ graph \in [Attempt -> GraphRecord]
  /\ recoverer \in [Recoverer -> RecovererRecord]
  /\ budget \in [{"crashes", "stalls", "controls", "retries", "all"} -> Nat]

\* Every variable has its type; only versions the run has had are to be executed.
TypeOK == StoreTyped /\ ActorsTyped /\ queue \cup added \subseteq 1 .. Len(log)

\* The latest event before the i-th whose type is one of `types`, 0 if none.
LatestBefore(i, types) ==
  LET found == {k \in 1 .. i - 1 : log[k].type \in types}
  IN  IF found = {} THEN 0 ELSE CHOOSE k \in found : \A m \in found : m <= k

\* The attempt that owns the execution when the i-th event is written.
OwnerBefore(i) ==
  LET k == LatestBefore(i, {"run_started", "run_retrying"})
  IN  IF k = 0 THEN None ELSE IF log[k].type = "run_started" THEN log[k].attempt ELSE None

\* "The same version does not cause a second durable attempt" (fault-injection-matrix.md,
\* of repeated jobs, old workers and expired leases): however often a job is
\* delivered, and whoever outlives a lease, one attempt at most is bound for its
\* version.
VersionStartsOnce ==
  \A i, j \in DOMAIN log :
    /\ log[i].type = "run_started" /\ log[j].type = "run_started"
    /\ log[i].generation = log[j].generation
    => i = j

\* Fencing at the graph: a gate is committed only for the result of the attempt
\* that owns the run at that moment.
JudgedByOwner ==
  \A i \in DOMAIN log : log[i].type = "run_judging" => log[i].attempt = OwnerBefore(i)

ConclusionType == {"run_completed", "run_failed", "run_blocked", "human_review_requested"}

\* Whoever concludes the run, its graph or a recoverer, concludes from a gate that
\* an attempt of this run committed before: a verdict nobody recorded is never final.
ConclusionFromCommittedGate ==
  \A i \in DOMAIN log : log[i].type \in ConclusionType =>
    \E j \in 1 .. i - 1 : log[j].type = "run_judging" /\ log[j].gate = log[i].gate

\* "Never steal a renewed lease": a lease that has not expired is given up by the
\* worker that holds it and by nobody else, whoever is recovering or late.
LiveLeaseIsItsHolders ==
  [][ lease.attempt # None /\ ~lease.expired /\ lease'.attempt # lease.attempt
      => \E w \in Worker :
           /\ worker[w].attempt = lease.attempt
           /\ worker'[w].attempt = None ]_vars

\* Fencing at the worker: "Never let that stale worker write an evidence/finalization
\* transition into the newer state machine generation" (beginEvidenceCollection).
\* Evidence collection is begun by the attempt that owns the run.
EvidenceByOwner ==
  \A i \in DOMAIN log : log[i].type = "evidence_collecting" => log[i].attempt = OwnerBefore(i)

\* A worker whose attempt or generation is no longer the run's "must be refused"
\* (data-ownership.md): it binds no second attempt for a version, and begins no
\* collection for an attempt that has lost the run.
OldWorkerIsRefused == VersionStartsOnce /\ EvidenceByOwner

\* A run that meets no failure, no interruption and no second attempt is concluded
\* or waits for a human decision.
UndisturbedRunConcludes == [](budget = FullBudget) => <>(proj.state \in ClosedState)

\* No recoverer that listed a lease as expired goes on with its run once a new attempt
\* has the lease (or its holder renewed it).
RecoverersAreInTime ==
  [](\A p \in Recoverer : recoverer[p].pc \in {"expired", "retry"} => lease.expired)

\* A run whose lease expired while it was preparing, running or judging is taken back
\* or settled, queued again, handed over, executed and judged, to its conclusion (the
\* recovery timers, the outbox and the job of the new version), when nothing more
\* happens to it and the recoverers are in time.
ExpiredRunConcludes ==
  RecoverersAreInTime =>
    (lease.expired /\ proj.state \in {"preparing", "running", "judging"} /\ budget.all = 0
       ~> proj.state \in ClosedState)

ExecutingState == {"queued", "preparing", "running", "collecting", "judging"}

\* An execution is not left behind, in whatever state a killed worker or a pause met it:
\* "in the end there is one terminal outcome, nothing is left running" when a lease
\* expired (operations-runbook.md), and a run paused before it started "must return to
\* queued so the new Worker can publish run_preparing/run_started" (applyEvent).
ActiveRunMovesOn == proj.state \in ExecutingState ~> proj.state \notin ExecutingState
=============================================================================
