------------------------ MODULE CoverageAggregation -------------------------
(***************************************************************************)
(* A parent run and its coverage items: dispatch of one child run per      *)
(* executable item, the aggregation job that waits for the children, and   *)
(* the judgement of what they brought (runOrchestrator.ts,                 *)
(* coverageStore.ts, the aggregate branch of agentGraphService.ts).        *)
(*                                                                         *)
(* A child run is seen from outside: it is created, and at some time it    *)
(* stops in a terminal state; RunExecution models its inside.  So is       *)
(* beginEvidenceCollection, whose look and append are one step here.       *)
(* The coverage items are rows of which every writer reads all, changes    *)
(* one and writes all back.                                                *)
(***************************************************************************)
EXTENDS RunLifecycle, FiniteSets

CONSTANTS
  Item,        \* the parent's coverage items, numbered in their order
  Worker,      \* worker slots, each in a process of its own
  Outcome,     \* terminal states a child may come to
  MaxPolls,    \* bound: BullMQ attempts of the aggregation job
  MaxFaults    \* bound: worker processes killed, dispatches that throw

ASSUME CoverageConstants ==
  /\ Item \subseteq Nat /\ IsFiniteSet(Item) /\ Item # {}
  /\ Attempt \subseteq Nat /\ 4 \in Attempt    \* the first job is that of version 4
  /\ Outcome \subseteq TerminalState \cup {"awaiting-human-review"}
  /\ MaxPolls \in Nat \ {0} /\ MaxFaults \in Nat

VARIABLES
  parent,    \* the parent's projection
  items,     \* items[i]: disposition, whether childRunId is set, whether bound
  child,     \* child[i]: state of the child run of item i
  queue,     \* versions of the parent waiting in BullMQ to be executed
  lease,     \* attempt in the parent's row of execution_leases
  worker,    \* worker[w]: where the dispatch of w stands
  job,       \* the aggregation job
  graph,     \* graph[a]: the graph continuation of attempt a's result
  faults     \* what is left of the bound

vars == <<parent, items, child, queue, lease, worker, job, graph, faults>>

Disposition == {"pending", "executing", "executed", "failed", "blocked", "excluded"}
ItemRecord  == [disposition : Disposition, child : BOOLEAN, bound : BOOLEAN]
TerminalDisposition == {"executed", "failed", "blocked", "excluded"}

\* terminalRunStates, what the parent's code takes for the end of a run.
ClosedState == TerminalState \cup {"awaiting-human-review"}
Concluded(i) == child[i] \in ClosedState

\* An attempt is named by the version of the job that starts it: RunExecution
\* shows that a version starts one.
NoSnapshot == [i \in Item |-> [disposition |-> "pending", child |-> FALSE, bound |-> FALSE]]
Idle     == [pc |-> "idle", attempt |-> None, todo |-> {}, snapshot |-> NoSnapshot]
NoUpdate == [i \in Item |-> [pc |-> "none", snapshot |-> NoSnapshot]]
NoJob    == [pc |-> "unscheduled", generation |-> 0, polls |-> 0, update |-> NoUpdate]
NoGraph  == [pc |-> "none", aggregate |-> FALSE, gate |-> Absent]

First(S) == CHOOSE i \in S : \A j \in S : i <= j

Parent(type, pay) == parent' = applyEvent(parent, type, pay)

(***************************************************************************)
(* The parent's job: lease, run_preparing, run_started, and dispatch.      *)
(***************************************************************************)
Holder(a) == {w \in Worker : worker[w].attempt = a}
LeaseFree == lease = None \/ Holder(lease) = {}

Take(w) ==
  /\ worker[w].pc = "idle"
  /\ \E v \in queue :
       /\ queue' = queue \ {v}
       /\ IF parent.version = v /\ parent.state = "queued" /\ LeaseFree
            THEN /\ lease' = v
                 /\ parent' = applyEvent(applyEvent(parent, "run_preparing", NoPayload),
                                "run_started", [NoPayload EXCEPT !.attempt = v, !.generation = v])
                 /\ worker' = [worker EXCEPT ![w] = [Idle EXCEPT !.pc = "read", !.attempt = v]]
            ELSE UNCHANGED <<parent, lease, worker>>
  /\ UNCHANGED <<items, child, job, graph, faults>>

\* dispatchParentCoverageRun reads the items; ranking them may take its time.
ReadItems(w) ==
  /\ worker[w].pc = "read"
  /\ worker' = [worker EXCEPT ![w].pc = "classify", ![w].snapshot = items]
  /\ UNCHANGED <<parent, items, child, queue, lease, job, graph, faults>>

Pending(record) == {i \in Item : record[i].disposition = "pending"}

\* Mutant: a batch limit on what one dispatch takes.
ExecutableBatch(record) ==
  LET bound == {i \in Pending(record) : record[i].bound}
  IN  IF bound = {} THEN {} ELSE {First(bound)}

Executable(record) == {i \in Pending(record) : record[i].bound}

\* Nothing to dispatch means that the children are there already, or that there
\* are none.
\* Mutant: a dispatch with nothing left to do schedules the aggregation again.
AlwaysSchedules(record) == IF Executable(record) # {} THEN "create" ELSE "schedule"

AfterClassify(record) ==
  CASE Executable(record) # {} -> "create"
    [] Executable(record) = {} /\ \E i \in Item : record[i].child -> "aggregateNow"
    [] OTHER -> "caught"

\* Pending items without an executor are blocked, and then all are saved; the
\* rest is what to dispatch.
Classify(w) ==
  LET record == worker[w].snapshot
      undispatchable == {i \in Pending(record) : ~record[i].bound}
  IN  /\ worker[w].pc = "classify"
      /\ worker' = [worker EXCEPT ![w].todo = Executable(record), ![w].pc = AfterClassify(record),
                                  ![w].snapshot = NoSnapshot]
      /\ items' = IF undispatchable = {} THEN items
                    ELSE [i \in Item |-> IF i \in undispatchable
                                           THEN [record[i] EXCEPT !.disposition = "blocked"]
                                           ELSE record[i]]
      /\ UNCHANGED <<parent, child, queue, lease, job, graph, faults>>

\* create() finds a child that an earlier dispatch made: its id and its key are
\* derived from parent and item.  The child is taken through its plan to the
\* queue, and its graph is started.
CreateChild(w) ==
  /\ worker[w].pc = "create"
  /\ LET i == First(worker[w].todo)
     IN  child' = [child EXCEPT ![i] = IF @ = "none" THEN "queued" ELSE @]
  /\ worker' = [worker EXCEPT ![w].pc = "markRead"]
  /\ UNCHANGED <<parent, items, queue, lease, job, graph, faults>>

\* updateCoverageDisposition: all items are read ...
MarkRead(w) ==
  /\ worker[w].pc = "markRead"
  /\ worker' = [worker EXCEPT ![w].pc = "markSave", ![w].snapshot = items]
  /\ UNCHANGED <<parent, items, child, queue, lease, job, graph, faults>>

\* ... and all are written back.
MarkSave(w) ==
  LET i == First(worker[w].todo)
      rest == worker[w].todo \ {i}
  IN  /\ worker[w].pc = "markSave"
      /\ items' = [worker[w].snapshot EXCEPT ![i].disposition = "executing", ![i].child = TRUE]
      /\ worker' = [worker EXCEPT ![w].todo = rest, ![w].snapshot = NoSnapshot,
                                  ![w].pc = IF rest = {} THEN "schedule" ELSE "create"]
      /\ UNCHANGED <<parent, child, queue, lease, job, graph, faults>>

\* The outbox key of the aggregation names the parent only: it is recorded once.
Schedule(w) ==
  /\ worker[w].pc = "schedule"
  /\ job' = IF job.pc = "unscheduled"
              THEN [job EXCEPT !.pc = "waiting", !.generation = worker[w].attempt]
              ELSE job
  /\ worker' = [worker EXCEPT ![w].pc = "release"]
  /\ UNCHANGED <<parent, items, child, queue, lease, graph, faults>>

\* The dispatch throws where it stands: a read or a write of the store fails, a
\* child cannot be created, planned, started or queued, or a dynamic parent has no
\* plan for its child.  What has been created and marked stays.
Throw(w) ==
  /\ faults > 0 /\ worker[w].pc \notin {"idle", "caught"}
  /\ worker' = [worker EXCEPT ![w] = [Idle EXCEPT !.pc = "caught", !.attempt = worker[w].attempt]]
  /\ faults' = faults - 1
  /\ UNCHANGED <<parent, items, child, queue, lease, job, graph>>

\* beginEvidenceCollection of attempt a, and the graph that is resumed with it.
BeginEvidence(a, aggregate) ==
  /\ Parent("evidence_collecting", NoPayload)
  /\ graph' = [graph EXCEPT ![a] = [NoGraph EXCEPT !.pc = "collect", !.aggregate = aggregate]]

\* Nothing to dispatch and children that are there are aggregated at once; what
\* was thrown, or that there are no children, is collected as an error.
Finish(w) ==
  /\ worker[w].pc \in {"aggregateNow", "caught"}
  /\ IF parent.state = "running" /\ parent.attempt = worker[w].attempt
       THEN BeginEvidence(worker[w].attempt, worker[w].pc = "aggregateNow")
       ELSE UNCHANGED <<parent, graph>>
  /\ worker' = [worker EXCEPT ![w].pc = "release"]
  /\ UNCHANGED <<items, child, queue, lease, job, faults>>

Release(w) ==
  /\ worker[w].pc = "release"
  /\ lease' = IF lease = worker[w].attempt THEN None ELSE lease
  /\ worker' = [worker EXCEPT ![w] = Idle]
  /\ UNCHANGED <<parent, items, child, queue, job, graph, faults>>

WorkerStep(w) ==
  \/ Take(w) \/ ReadItems(w) \/ Classify(w) \/ CreateChild(w) \/ MarkRead(w) \/ MarkSave(w)
  \/ Schedule(w) \/ Finish(w) \/ Release(w)

(***************************************************************************)
(* The children, and the aggregation job.                                  *)
(***************************************************************************)
ChildConcludes(i) ==
  /\ child[i] = "queued"
  /\ \E s \in Outcome : child' = [child EXCEPT ![i] = s]
  /\ UNCHANGED <<parent, items, queue, lease, worker, job, graph, faults>>

\* Mutant: the child's state is stored as it is.
DispositionIsState(state) == state

DispositionOf(state) ==
  CASE state \in {"blocked", "cancelled"} -> "blocked"
    [] state = "failed" -> "failed"
    [] OTHER -> "executed"

WithChild == {i \in Item : items[i].child}

\* Mutant: a child that is still going does not hold up the aggregation.
NoChildPending == WithChild # {}

ChildrenConcluded == WithChild # {} /\ \A i \in WithChild : Concluded(i)

\* A job of a parent that ended or runs another generation is done; a pending
\* child makes it throw, and BullMQ tries again until its attempts are used up.
Poll ==
  /\ job.pc = "waiting"
  /\ job' =
       IF parent.state \in ClosedState \/ parent.generation # job.generation
         THEN [job EXCEPT !.pc = "done"]
       ELSE IF ChildrenConcluded
         THEN [job EXCEPT !.pc = "updating",
                          !.update = [i \in Item |-> [NoUpdate[i] EXCEPT !.pc =
                                                        IF i \in WithChild THEN "read" ELSE "none"]]]
       ELSE [job EXCEPT !.polls = @ + 1, !.pc = IF job.polls + 1 = MaxPolls THEN "failed" ELSE "waiting"]
  /\ UNCHANGED <<parent, items, child, queue, lease, worker, graph, faults>>

\* Promise.all over the children: every update reads all items ...
UpdateRead(i) ==
  /\ job.pc = "updating" /\ job.update[i].pc = "read"
  /\ job' = [job EXCEPT !.update[i] = [pc |-> "save", snapshot |-> items]]
  /\ UNCHANGED <<parent, items, child, queue, lease, worker, graph, faults>>

\* ... and writes them all back.
UpdateSave(i) ==
  /\ job.pc = "updating" /\ job.update[i].pc = "save"
  /\ items' = [job.update[i].snapshot EXCEPT ![i].disposition = DispositionOf(child[i])]
  /\ job' = [job EXCEPT !.update[i] = NoUpdate[i]]
  /\ UNCHANGED <<parent, child, queue, lease, worker, graph, faults>>

\* Evidence is begun for whatever attempt the parent runs by now.
Aggregated ==
  /\ job.pc = "updating" /\ \A i \in Item : job.update[i].pc = "none"
  /\ job' = [job EXCEPT !.pc = "done"]
  /\ IF parent.state = "running" THEN BeginEvidence(parent.attempt, TRUE)
                                 ELSE UNCHANGED <<parent, graph>>
  /\ UNCHANGED <<items, child, queue, lease, worker, faults>>

(***************************************************************************)
(* The graph: the aggregate gate, and the parent's conclusion.             *)
(***************************************************************************)
\* The gate status a child reports; one that is not there counts as a review.
ChildGate(state) ==
  CASE state = "completed" -> "pass"
    [] state = "failed"    -> "fail"
    [] state = "blocked"   -> "blocked"
    [] OTHER               -> "needs-human-review"

\* Mutant: blocked and excluded coverage and blocked children do not count.
DraftGateSkipsBlocked(evidenceComplete) ==
  LET gates == {ChildGate(child[i]) : i \in WithChild}
  IN  IF \E i \in Item : items[i].disposition \notin TerminalDisposition THEN "blocked"
      ELSE IF "fail" \in gates \/ \E i \in Item : items[i].disposition = "failed" THEN "fail"
      ELSE IF "needs-human-review" \in gates \/ ~evidenceComplete THEN "needs-human-review"
      ELSE "pass"

DraftGate(evidenceComplete) ==
  LET gates == {ChildGate(child[i]) : i \in WithChild}
      uncovered == \E i \in Item : items[i].disposition \in {"blocked", "excluded"}
  IN  IF \E i \in Item : items[i].disposition \notin TerminalDisposition THEN "blocked"
      ELSE IF "fail" \in gates \/ \E i \in Item : items[i].disposition = "failed" THEN "fail"
      ELSE IF "blocked" \in gates \/ uncovered THEN "blocked"
      ELSE IF "needs-human-review" \in gates \/ ~evidenceComplete THEN "needs-human-review"
      ELSE "pass"

\* The proof bundle may only take from a draft: a pass that is not proven is
\* blocked, another status whose reasons are not proven goes to a person, and a
\* report that cannot be published is blocked or, unproven as well, goes to one.
\* Missing model evidence blocks.
MintedGates(draft) == {draft, "blocked", "needs-human-review"}

\* acceptsExecutionResult, then collect-and-gate.  An error fails the parent or,
\* when it reads like one of the infrastructure, blocks it; a failure that is not
\* proven goes to a person.
Collect(a) ==
  /\ graph[a].pc = "collect"
  /\ IF parent.state = "collecting" /\ parent.attempt = a
       THEN \E evidenceComplete \in BOOLEAN :
            \E g \in IF graph[a].aggregate THEN MintedGates(DraftGate(evidenceComplete))
                                           ELSE {"fail", "blocked", "needs-human-review"} :
              /\ Parent("run_judging", [NoPayload EXCEPT !.machineGate = g])
              /\ graph' = [graph EXCEPT ![a].pc = "conclude", ![a].gate = g]
       ELSE graph' = [graph EXCEPT ![a].pc = "done"] /\ UNCHANGED parent
  /\ UNCHANGED <<items, child, queue, lease, worker, job, faults>>

\* An aggregate is recommended as its gate was drafted; only a drafted pass is
\* minted as one.
Recommended(gate) ==
  IF gate \in {"pass", "fail"} THEN gate ELSE "needs-human-review"

ConclusionType(aggregate, final) ==
  CASE aggregate /\ final \in {"pass", "fail"} -> "parent_aggregate_completed"
    [] aggregate /\ final \notin {"pass", "fail"} -> "parent_aggregate_blocked"
    [] OTHER -> TerminalEventOf(final)

Conclude(a) ==
  LET gate == graph[a].gate
      final == resolveFinalStatus(gate, Recommended(gate), Absent)
  IN  /\ graph[a].pc = "conclude"
      /\ IF parent.state \in ClosedState
           THEN UNCHANGED parent
           ELSE Parent(ConclusionType(graph[a].aggregate, final),
                       [NoPayload EXCEPT !.machineGate = gate, !.finalStatus = final])
      /\ graph' = [graph EXCEPT ![a].pc = "done"]
      /\ UNCHANGED <<items, child, queue, lease, worker, job, faults>>

(***************************************************************************)
(* Failure and recovery.                                                   *)
(***************************************************************************)
\* The process of a dispatching worker dies; its lease is left to expire.
Crash(w) ==
  /\ faults > 0 /\ worker[w].pc # "idle"
  /\ queue' = queue \cup {worker[w].attempt}
  /\ worker' = [worker EXCEPT ![w] = Idle]
  /\ faults' = faults - 1
  /\ UNCHANGED <<parent, items, child, lease, job, graph>>

\* The process of the aggregation job dies; BullMQ hands the job out again.
CrashAggregation ==
  /\ faults > 0 /\ job.pc = "updating"
  /\ job' = [job EXCEPT !.pc = "waiting", !.update = NoUpdate]
  /\ faults' = faults - 1
  /\ UNCHANGED <<parent, items, child, queue, lease, worker, graph>>

\* recoverExpiredExecutionLeases of a running parent; bounded by the versions that
\* name attempts.
RecoverLease ==
  /\ lease # None /\ LeaseFree
  /\ parent.state = "running" /\ parent.version + 1 \in Attempt
  /\ Parent("run_retrying", NoPayload)
  /\ queue' = queue \cup {parent'.version}
  /\ UNCHANGED <<items, child, lease, worker, job, graph, faults>>

\* recoverStalledJudgingRun concludes from the committed gate.
RecoverJudging ==
  /\ parent.state = "judging"
  /\ LET final == resolveFinalStatus(parent.machineGate, Recommended(parent.machineGate), Absent)
     IN  Parent(TerminalEventOf(final),
                [NoPayload EXCEPT !.machineGate = parent.machineGate, !.finalStatus = final])
  /\ lease' = IF LeaseFree THEN None ELSE lease
  /\ UNCHANGED <<items, child, queue, worker, job, graph, faults>>

\* What planning makes of an item: to do, with or without an executor; blocked
\* for want of a scenario; or excluded.
Planned(disposition, bound) == [disposition |-> disposition, child |-> FALSE, bound |-> bound]

(***************************************************************************)
(* The parent has been planned, approved and granted permission.           *)
(***************************************************************************)
Init ==
  /\ parent = [DraftRun EXCEPT !.state = "queued", !.version = 4, !.executionStatus = "running"]
  /\ items \in [Item -> {Planned("pending", TRUE), Planned("pending", FALSE),
                        Planned("blocked", FALSE), Planned("excluded", FALSE)}]
  /\ child = [i \in Item |-> "none"]
  /\ queue = {4} /\ lease = None
  /\ worker = [w \in Worker |-> Idle]
  /\ job = NoJob
  /\ graph = [a \in Attempt |-> NoGraph]
  /\ faults = MaxFaults

AggregationStep == Poll \/ Aggregated \/ \E i \in Item : UpdateRead(i) \/ UpdateSave(i)
GraphStep(a) == Collect(a) \/ Conclude(a)

Next ==
  \/ \E w \in Worker : WorkerStep(w) \/ Throw(w) \/ Crash(w)
  \/ \E i \in Item : ChildConcludes(i)
  \/ AggregationStep \/ CrashAggregation
  \/ \E a \in Attempt : GraphStep(a)
  \/ RecoverLease \/ RecoverJudging

Spec == Init /\ [][Next]_vars

\* Live processes go on, BullMQ delivers and retries, timers fire, and a child
\* run ends or waits for a person.
Fairness ==
  /\ \A w \in Worker : WF_vars(WorkerStep(w))
  /\ \A i \in Item : WF_vars(ChildConcludes(i))
  /\ \A a \in Attempt : WF_vars(GraphStep(a))
  /\ WF_vars(AggregationStep) /\ WF_vars(RecoverLease)

FairSpec == Spec /\ Fairness

-----------------------------------------------------------------------------
(***************************************************************************)
(* Properties.                                                             *)
(***************************************************************************)
WorkerRecord ==
  [ pc : {"idle", "read", "classify", "create", "markRead", "markSave", "schedule", "aggregateNow",
          "caught", "release"},
    attempt : Attempt \cup {None}, todo : SUBSET Item, snapshot : [Item -> ItemRecord] ]

UpdateRecord == [pc : {"none", "read", "save"}, snapshot : [Item -> ItemRecord]]

JobRecord ==
  [ pc : {"unscheduled", "waiting", "updating", "done", "failed"}, generation : Attempt \cup {0},
    polls : 0 .. MaxPolls, update : [Item -> UpdateRecord] ]

GraphRecord ==
  [ pc : {"none", "collect", "conclude", "done"}, aggregate : BOOLEAN,
    gate : GateStatus \cup {Absent} ]

\* Every variable has its type.
TypeOK ==
  /\ parent \in Projection
  /\ items \in [Item -> ItemRecord]
  /\ child \in [Item -> {"none", "queued"} \cup Outcome]
  /\ queue \subseteq Attempt
  /\ lease \in Attempt \cup {None}
  /\ worker \in [Worker -> WorkerRecord]
  /\ job \in JobRecord
  /\ graph \in [Attempt -> GraphRecord]
  /\ faults \in 0 .. MaxFaults

\* A parent passes only when every coverage item was executed by a child that
\* completed, whatever dispatch, aggregation and crashes did to the items'
\* dispositions on the way (collect-and-gate fails closed).
PassMeansEveryChildCompleted ==
  parent.gateStatus = "pass" => \A i \in Item : items[i].bound /\ child[i] = "completed"

\* A disposition never claims more than there is: an item with an executor is
\* executed or failed only when its child ended that way.
DispositionNeverOverstates ==
  \A i \in Item : items[i].disposition \in {"executed", "failed"} =>
    Concluded(i) /\ items[i].disposition = DispositionOf(child[i])

\* "There is deliberately no batch-size limit": an aggregate is drafted only when
\* no item waits to be dispatched, also when earlier dispatches were killed in
\* mid-loop and the children of an item are there, marked or not.  A dispatch that
\* throws gives its parent an error and no aggregate (dispatchParentCoverageRun,
\* the catch of executeQueuedRun).
AggregateMissesNoItem ==
  \A a \in Attempt : graph[a].aggregate => Pending(items) = {}

\* A parent is concluded, across crashes and errors of its dispatcher and crashes
\* of its aggregation, unless BullMQ has given the aggregation job up.
ParentConcludes == <>(parent.state \in ClosedState \/ job.pc = "failed")

\* "Every required coverage item has a terminal child run": once the aggregation
\* job has handed the parent to its graph, the coverage says of each item what
\* its child came to.
AggregatedCoverageIsTerminal ==
  job.pc = "done" /\ parent.state \in {"collecting", "judging"} =>
    \A i \in Item : items[i].child => items[i].disposition = DispositionOf(child[i])
=============================================================================
