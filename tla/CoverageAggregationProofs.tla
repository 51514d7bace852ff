---------------------- MODULE CoverageAggregationProofs ----------------------
(***************************************************************************)
(* What CoverageAggregation guarantees for any items, workers, outcomes,   *)
(* polls, killed processes and dispatches that throw.                      *)
(*                                                                         *)
(* The coverage items are written by read-all, save-all, so the invariants *)
(* speak of every record of them that somebody may still write back: it is *)
(* Faithful, and from the scheduling of the aggregation on it has nothing  *)
(* pending.  One dispatcher at a time is what makes the rest of it work.   *)
(***************************************************************************)
EXTENDS CoverageAggregation, RunLifecycleProofs, WellFoundedInduction

(***************************************************************************)
(* The invariant.                                                          *)
(***************************************************************************)
\* The lease keeps dispatchers apart.
OneDispatcher ==
  /\ \A w \in Worker :
       /\ worker[w].pc = "idle" => worker[w] = Idle
       /\ worker[w].pc # "idle" => lease # None /\ worker[w].attempt = lease
  /\ \A v, w \in Worker : worker[v].pc # "idle" /\ worker[w].pc # "idle" => v = w

\* What a record of the items says may be believed: the plan it started from, and
\* of an item with an executor only what its child came to.
Agrees(record, rows, runs) ==
  \A i \in Item :
    /\ record[i].bound = rows[i].bound
    /\ ~record[i].bound =>
         ~record[i].child /\ record[i].disposition \in {"pending", "blocked", "excluded"}
    /\ record[i].bound /\ record[i].disposition # "pending" => record[i].child
    /\ record[i].disposition \in {"executed", "failed"} =>
         runs[i] \in ClosedState /\ record[i].disposition = DispositionOf(runs[i])

Faithful(record) == Agrees(record, items, child)

Scheduled == job.pc # "unscheduled"

\* What a dispatcher read and has still to dispatch.
DispatchKnows(w) ==
  /\ worker[w].pc \in {"classify", "markSave"} =>
       /\ Faithful(worker[w].snapshot)
       /\ IF Scheduled THEN Pending(worker[w].snapshot) = {} ELSE worker[w].snapshot = items
  /\ worker[w].pc \in {"create", "markRead", "markSave"} =>
       /\ ~Scheduled /\ worker[w].todo # {}
       /\ worker[w].todo = Pending(items)
       /\ \A i \in worker[w].todo : items[i].bound
  /\ worker[w].pc \in {"schedule", "aggregateNow"} => Pending(items) = {}

\* An update is under way for a child that has concluded, and knows of all of them.
UpdateKnows(i) ==
  job.update[i].pc # "none" =>
    /\ job.pc = "updating" /\ items[i].bound /\ Concluded(i)
    /\ job.update[i].pc = "save" =>
         Faithful(job.update[i].snapshot) /\ Pending(job.update[i].snapshot) = {}

Coverage ==
  /\ Faithful(items)
  /\ Scheduled => Pending(items) = {}
  /\ \A w \in Worker : DispatchKnows(w)
  /\ \A i \in Item : UpdateKnows(i)
  /\ AggregateMissesNoItem

AllCompleted == \A i \in Item : items[i].bound /\ child[i] = "completed"

\* Wherever a passing gate stands, every child has completed.
Gates ==
  /\ \A a \in Attempt : graph[a].gate = "pass" => AllCompleted
  /\ parent.machineGate = "pass" => AllCompleted
  /\ parent.gateStatus = "pass" => AllCompleted

\* A continuation that is about to conclude has a gate and finds the parent judging,
\* or concluded.  A job that was scheduled may still be polled, until it gives up.
Judging ==
  /\ \A a \in Attempt : graph[a].pc = "conclude" =>
       graph[a].gate \in GateStatus /\ parent.state \in {"judging"} \cup ClosedState
  /\ parent.state = "judging" => parent.machineGate \in GateStatus
  /\ job.pc \in {"waiting", "updating"} => job.polls < MaxPolls
  /\ job.pc = "unscheduled" => job.polls = 0

Typed == TypeOK /\ Judging
Inv == Typed /\ OneDispatcher /\ Coverage /\ Gates

(***************************************************************************)
(* The reducer and the helpers.                                            *)
(***************************************************************************)
LEMMA FirstIn ==
  ASSUME NEW S \in SUBSET Item, S # {}
  PROVE  First(S) \in S
PROOF
  <1>1. S \subseteq Nat
    BY CoverageConstants
  <1> DEFINE below == {ss \in Nat \X Nat : ss[1] < ss[2]}
  <1>2. IsWellFoundedOn(below, Nat)
    BY NatLessThanWellFounded, Zenon DEF OpToRel
  <1>3. PICK i \in S : \A j \in S : <<j, i>> \notin below
    BY <1>1, <1>2, WFMin
  <1>4. ASSUME NEW j \in S PROVE i <= j
    <2>1. j < i => <<j, i>> \in below
      BY <1>1
    <2> QED
      BY <1>1, <1>3, <2>1
  <1> QED
    BY <1>4 DEF First

\* What one event does to the parent, where the table allows it.
LEMMA ParentMoves ==
  ASSUME TypeOK, NEW type \in EventType \ {"run_resumed"}, NEW pay \in Payload, NEW to,
         <<parent.state, type, to>> \in transitions, Parent(type, pay)
  PROVE  /\ parent' \in Projection /\ parent'.version = parent.version + 1
         /\ <<parent.state, type, parent'.state>> \in transitions
         /\ parent'.gateStatus = NextGateStatus(parent, type, pay)
         /\ parent'.machineGate = NextMachineGate(parent, pay)
         /\ type \notin {"run_started", "run_retrying"} => parent'.attempt = parent.attempt
PROOF
  <1>1. to \in RunState
    BY DEF transitions, openTransitions, closedTransitions, RunState
  <1>2. CanTransition(parent.state, type)
    BY <1>1 DEF CanTransition
  <1>3. parent \in Projection /\ parent' = applyEvent(parent, type, pay)
    BY DEF TypeOK, Parent
  <1> QED
    BY <1>2, <1>3, ApplyTyped, ApplyMoves

LEMMA NoPayloadTyped == NoPayload \in Payload
  BY DEF NoPayload, Payload

\* A payload that only carries a gate and a final status.
LEMMA GatePayloadTyped ==
  ASSUME NEW g \in GateStatus \cup {Absent}, NEW f \in GateStatus \cup {Absent}
  PROVE  /\ [NoPayload EXCEPT !.machineGate = g, !.finalStatus = f] \in Payload
         /\ [NoPayload EXCEPT !.machineGate = g] \in Payload
  BY DEF NoPayload, Payload

\* run_preparing and run_started of a queued parent.
LEMMA TakeMoves ==
  ASSUME TypeOK, parent.state = "queued", NEW v \in Attempt,
         parent' = applyEvent(applyEvent(parent, "run_preparing", NoPayload),
                     "run_started", [NoPayload EXCEPT !.attempt = v, !.generation = v])
  PROVE  /\ parent' \in Projection /\ parent'.state = "running"
         /\ parent'.version = parent.version + 2
         /\ parent'.gateStatus = parent.gateStatus /\ parent'.machineGate = parent.machineGate
PROOF
  <1> DEFINE p == applyEvent(parent, "run_preparing", NoPayload)
             pay == [NoPayload EXCEPT !.attempt = v, !.generation = v]
  <1>1. /\ <<"queued", "run_preparing", "preparing">> \in transitions
        /\ <<"preparing", "run_started", "running">> \in transitions
        /\ \A t : <<"queued", "run_preparing", t>> \in transitions => t = "preparing"
        /\ \A t : <<"preparing", "run_started", t>> \in transitions => t = "running"
    BY DEF transitions, openTransitions, closedTransitions
  <1>2. CanTransition("queued", "run_preparing") /\ CanTransition("preparing", "run_started")
    BY <1>1 DEF CanTransition, RunState
  <1>3. parent \in Projection /\ "run_preparing" \in EventType /\ "run_started" \in EventType
    BY DEF TypeOK, EventType
  <1>4. pay \in Payload
    BY CoverageConstants DEF NoPayload, Payload
  <1>5. /\ p \in Projection /\ p.state = "preparing"
        /\ p.gateStatus = parent.gateStatus /\ p.machineGate = parent.machineGate
    <2>1. p \in Projection
      BY <1>2, <1>3, NoPayloadTyped, ApplyTyped
    <2>2. <<"queued", "run_preparing", transitionRunState("queued", "run_preparing")>> \in transitions
      BY <1>2, <1>3, NoPayloadTyped, ApplyMoves
    <2>3. p.state = transitionRunState("queued", "run_preparing")
      BY <1>2, <1>3, NoPayloadTyped, ApplyMoves, ZenonT(60)
    <2>4. p.gateStatus = NextGateStatus(parent, "run_preparing", NoPayload)
          /\ p.machineGate = NextMachineGate(parent, NoPayload)
      BY <1>2, <1>3, NoPayloadTyped, ApplyMoves
    <2>5. p.gateStatus = parent.gateStatus /\ p.machineGate = parent.machineGate
      BY <2>4 DEF NextGateStatus, NextMachineGate, NoPayload
    <2> QED
      BY <1>1, <2>1, <2>2, <2>3, <2>5
  <1>6. parent' = applyEvent(p, "run_started", pay)
    OBVIOUS
  <1> HIDE DEF p, pay
  <1>7. parent' \in Projection /\ parent'.state = "running"
    <2>1. parent' \in Projection
      BY <1>2, <1>3, <1>4, <1>5, <1>6, ApplyTyped
    <2>2. <<"preparing", "run_started", transitionRunState("preparing", "run_started")>> \in transitions
      BY <1>2, <1>3, <1>4, <1>5, ApplyMoves
    <2>3. parent'.state = transitionRunState("preparing", "run_started")
      BY <1>2, <1>3, <1>4, <1>5, <1>6, ApplyMoves, ZenonT(60)
    <2> QED
      BY <1>1, <2>1, <2>2, <2>3
  <1>8. parent'.gateStatus = p.gateStatus /\ parent'.machineGate = NextMachineGate(p, pay)
    <2>1. /\ parent'.gateStatus = NextGateStatus(p, "run_started", pay)
          /\ parent'.machineGate = NextMachineGate(p, pay)
      BY <1>2, <1>3, <1>4, <1>5, <1>6, ApplyMoves, ZenonT(60)
    <2> QED
      BY <2>1 DEF NextGateStatus
  <1>9. pay.machineGate = Absent
    BY DEF pay, NoPayload
  <1>10. parent'.version = parent.version + 2
    <2>1. p.version = parent.version + 1
      BY <1>2, <1>3, NoPayloadTyped, ApplyMoves DEF p
    <2>2. parent'.version = p.version + 1
      BY <1>2, <1>3, <1>4, <1>5, <1>6, ApplyMoves, ZenonT(60)
    <2>3. parent.version \in Nat
      BY <1>3 DEF Projection
    <2> QED
      BY <2>1, <2>2, <2>3
  <1> QED
    BY <1>5, <1>7, <1>8, <1>9, <1>10 DEF NextMachineGate

\* An event that takes a judged run to its end, or to a person.
ConcludesBy(type) ==
  /\ type # "run_resumed"
  /\ \E to \in ClosedState : <<"judging", type, to>> \in transitions
  /\ \A to : <<"judging", type, to>> \in transitions => to \in ClosedState

\* The final status of an aggregate, and the event that makes it durable.
LEMMA FinalTyped ==
  ASSUME NEW gate \in GateStatus
  PROVE  LET final == resolveFinalStatus(gate, Recommended(gate), Absent)
         IN  /\ final \in GateStatus
             /\ final = "pass" => gate = "pass"
             /\ TerminalEventOf(final) \in EventType
             /\ ConcludesBy(TerminalEventOf(final))
             /\ \A aggregate \in BOOLEAN :
                  /\ ConclusionType(aggregate, final) \in EventType
                  /\ ConcludesBy(ConclusionType(aggregate, final))
PROOF
  <1> DEFINE final == resolveFinalStatus(gate, Recommended(gate), Absent)
  <1>1. final \in GateStatus /\ (final = "pass" => gate = "pass")
    BY DEF resolveFinalStatus, GateStatus, Recommended, Absent
  <1> HIDE DEF final
  <1>2. /\ TerminalEventOf(final) \in EventType
        /\ ConcludesBy(TerminalEventOf(final))
    BY <1>1 DEF TerminalEventOf, GateStatus, EventType, ConcludesBy, transitions, openTransitions,
                closedTransitions, ClosedState, TerminalState
  <1>3. ASSUME NEW aggregate \in BOOLEAN
        PROVE  /\ ConclusionType(aggregate, final) \in EventType
               /\ ConcludesBy(ConclusionType(aggregate, final))
    BY <1>1, <1>2 DEF ConclusionType, EventType, ConcludesBy, transitions, openTransitions,
                      closedTransitions, ClosedState, TerminalState
  <1> QED
    BY <1>1, <1>2, <1>3 DEF final

(***************************************************************************)
(* Types.                                                                  *)
(***************************************************************************)
LEMMA SnapshotsTyped ==
  ASSUME TypeOK
  PROVE  /\ Idle \in WorkerRecord /\ NoUpdate \in [Item -> UpdateRecord]
         /\ \A w \in Worker : worker[w] \in WorkerRecord
         /\ \A i \in Item : job.update[i] \in UpdateRecord
         /\ \A a \in Attempt : graph[a] \in GraphRecord
  BY DEF TypeOK, Idle, NoSnapshot, NoUpdate, WorkerRecord, UpdateRecord, JobRecord, ItemRecord,
         Disposition

\* The beginning of evidence collection.
LEMMA EvidenceTyped ==
  ASSUME TypeOK, Judging, parent.state = "running", NEW a, NEW aggregate \in BOOLEAN,
         BeginEvidence(a, aggregate)
  PROVE  /\ parent' \in Projection /\ parent'.state = "collecting"
         /\ parent'.gateStatus = parent.gateStatus /\ parent'.machineGate = parent.machineGate
         /\ graph' \in [Attempt -> GraphRecord]
         /\ \A b \in Attempt : graph'[b].pc # "conclude" /\ graph'[b].gate \in {graph[b].gate, Absent}
PROOF
  <1>1. /\ <<"running", "evidence_collecting", "collecting">> \in transitions
        /\ \A to : <<"running", "evidence_collecting", to>> \in transitions => to = "collecting"
    BY DEF transitions, openTransitions, closedTransitions
  <1>2. Parent("evidence_collecting", NoPayload)
    BY DEF BeginEvidence
  <1>3. "evidence_collecting" \in EventType \ {"run_resumed"}
    BY DEF EventType
  <1>4. /\ parent' \in Projection /\ <<"running", "evidence_collecting", parent'.state>> \in transitions
        /\ parent'.gateStatus = NextGateStatus(parent, "evidence_collecting", NoPayload)
        /\ parent'.machineGate = NextMachineGate(parent, NoPayload)
    BY <1>1, <1>2, <1>3, NoPayloadTyped, ParentMoves
  <1>5. parent'.gateStatus = parent.gateStatus /\ parent'.machineGate = parent.machineGate
    BY <1>4 DEF NextGateStatus, NextMachineGate, NoPayload
  <1> DEFINE fresh == [NoGraph EXCEPT !.pc = "collect", !.aggregate = aggregate]
  <1>6. fresh \in GraphRecord /\ fresh.pc = "collect" /\ fresh.gate = Absent
    BY DEF NoGraph, GraphRecord
  <1>7. graph \in [Attempt -> GraphRecord]
    BY DEF TypeOK
  <1>8. graph' = [graph EXCEPT ![a] = fresh]
    BY DEF BeginEvidence
  <1> HIDE DEF fresh
  <1>9. graph' \in [Attempt -> GraphRecord]
    BY <1>6, <1>7, <1>8
  <1>10. \A b \in Attempt : graph[b].pc # "conclude"
    BY DEF Judging, ClosedState, TerminalState
  <1>11. \A b \in Attempt : graph'[b].pc # "conclude" /\ graph'[b].gate \in {graph[b].gate, Absent}
    BY <1>6, <1>7, <1>8, <1>10
  <1> QED
    BY <1>1, <1>4, <1>5, <1>9, <1>11

LEMMA WorkerTyped ==
  ASSUME Typed, OneDispatcher, NEW w \in Worker, WorkerStep(w) \/ Throw(w) \/ Crash(w)
  PROVE  Typed'
PROOF
  <1> USE DEF Typed
  <1>0. /\ worker \in [Worker -> WorkerRecord] /\ worker[w] \in WorkerRecord /\ Idle \in WorkerRecord
        /\ items \in [Item -> ItemRecord] /\ TypeOK
    BY SnapshotsTyped DEF TypeOK
  <1>1. CASE Take(w)
    <2>1. PICK v \in queue :
            /\ queue' = queue \ {v}
            /\ \/ /\ parent.state = "queued" /\ lease' = v
                  /\ parent' = applyEvent(applyEvent(parent, "run_preparing", NoPayload),
                                 "run_started", [NoPayload EXCEPT !.attempt = v, !.generation = v])
                  /\ worker' = [worker EXCEPT ![w] = [Idle EXCEPT !.pc = "read", !.attempt = v]]
               \/ UNCHANGED <<parent, lease, worker>>
      BY <1>1 DEF Take
    <2>2. v \in Attempt /\ queue' \subseteq Attempt
      BY <2>1 DEF TypeOK
    <2>3. UNCHANGED <<items, child, job, graph, faults>>
      BY <1>1 DEF Take
    <2>4. CASE UNCHANGED <<parent, lease, worker>>
      BY <2>2, <2>3, <2>4 DEF TypeOK, Judging
    <2>5. CASE ~UNCHANGED <<parent, lease, worker>>
      <3>1. parent' \in Projection /\ parent'.state = "running" /\ parent.state = "queued"
        BY <2>1, <2>2, <2>5, TakeMoves
      <3>2. [Idle EXCEPT !.pc = "read", !.attempt = v] \in WorkerRecord
        BY <1>0, <2>2 DEF WorkerRecord
      <3>3. worker' \in [Worker -> WorkerRecord] /\ lease' \in Attempt
        BY <1>0, <2>1, <2>2, <2>5, <3>2
      <3>4. Judging'
        BY <2>3, <3>1 DEF Judging, ClosedState, TerminalState
      <3> QED
        BY <2>2, <2>3, <3>1, <3>3, <3>4 DEF TypeOK
    <2> QED
      BY <2>4, <2>5, SMTT(40)
  <1>2. CASE ReadItems(w) \/ MarkRead(w)
    <2>1. worker' \in [Worker -> WorkerRecord]
      <3>1. CASE ReadItems(w)
        BY <1>0, <3>1 DEF ReadItems, WorkerRecord
      <3>2. CASE MarkRead(w)
        BY <1>0, <3>2 DEF MarkRead, WorkerRecord
      <3> QED
        BY <1>2, <3>1, <3>2
    <2> QED
      BY <1>2, <2>1 DEF ReadItems, MarkRead, TypeOK, Judging
  <1>3. CASE Classify(w)
    <2>1. /\ NoSnapshot \in [Item -> ItemRecord] /\ Executable(worker[w].snapshot) \in SUBSET Item
          /\ AfterClassify(worker[w].snapshot) \in {"create", "aggregateNow", "caught"}
      BY DEF NoSnapshot, ItemRecord, Disposition, Executable, Pending, AfterClassify
    <2>2. worker' \in [Worker -> WorkerRecord]
      BY <1>0, <1>3, <2>1 DEF Classify, WorkerRecord
    <2>3. \A i \in Item : worker[w].snapshot[i] \in ItemRecord
      BY <1>0 DEF WorkerRecord
    <2>4. items' \in [Item -> ItemRecord]
      BY <1>0, <1>3, <2>3 DEF Classify, ItemRecord, Disposition
    <2> QED
      BY <1>3, <2>2, <2>4 DEF Classify, TypeOK, Judging
  <1>4. CASE CreateChild(w)
    <2>1. worker' \in [Worker -> WorkerRecord]
      BY <1>0, <1>4 DEF CreateChild, WorkerRecord
    <2>2. child' \in [Item -> {"none", "queued"} \cup Outcome]
      BY <1>4 DEF CreateChild, TypeOK
    <2> QED
      BY <1>4, <2>1, <2>2 DEF CreateChild, TypeOK, Judging
  <1>5. CASE MarkSave(w)
    <2>1. NoSnapshot \in [Item -> ItemRecord]
      BY DEF NoSnapshot, ItemRecord, Disposition
    <2>2. worker' \in [Worker -> WorkerRecord]
      BY <1>0, <1>5, <2>1 DEF MarkSave, WorkerRecord
    <2>3. items' \in [Item -> ItemRecord]
      BY <1>0, <1>5 DEF MarkSave, WorkerRecord, ItemRecord, Disposition
    <2> QED
      BY <1>5, <2>2, <2>3 DEF MarkSave, TypeOK, Judging
  <1>6. CASE Schedule(w)
    <2>1. worker' \in [Worker -> WorkerRecord]
      BY <1>0, <1>6 DEF Schedule, WorkerRecord
    <2>2. job' \in JobRecord
      <3>1. job \in JobRecord /\ worker[w].attempt \in Attempt
        BY <1>0, <1>6 DEF TypeOK, WorkerRecord, Schedule, OneDispatcher
      <3> QED
        BY <1>6, <3>1 DEF Schedule, JobRecord
    <2>3. Judging'
      BY <1>6, CoverageConstants DEF Schedule, Judging, TypeOK, JobRecord
    <2> QED
      BY <1>6, <2>1, <2>2, <2>3 DEF Schedule, TypeOK
  <1>7. CASE Finish(w)
    <2>1. worker' \in [Worker -> WorkerRecord]
      BY <1>0, <1>7 DEF Finish, WorkerRecord
    <2>2. CASE UNCHANGED <<parent, graph>>
      BY <1>7, <2>1, <2>2 DEF Finish, TypeOK, Judging
    <2>3. CASE /\ parent.state = "running"
               /\ BeginEvidence(worker[w].attempt, worker[w].pc = "aggregateNow")
      BY <1>7, <2>1, <2>3, EvidenceTyped DEF Finish, TypeOK, Judging
    <2> QED
      BY <1>7, <2>2, <2>3 DEF Finish
  <1>8. CASE Release(w)
    <2>1. worker' \in [Worker -> WorkerRecord] /\ lease' \in Attempt \cup {None}
      BY <1>0, <1>8 DEF Release, TypeOK
    <2> QED
      BY <1>8, <2>1 DEF Release, TypeOK, Judging
  <1>9. CASE Crash(w)
    <2>1. worker[w].attempt \in Attempt
      BY <1>0, <1>9 DEF Crash, OneDispatcher, WorkerRecord, TypeOK
    <2>2. worker' \in [Worker -> WorkerRecord] /\ queue' \subseteq Attempt
      BY <1>0, <1>9, <2>1 DEF Crash, TypeOK
    <2>3. faults' \in 0 .. MaxFaults
      BY <1>9, CoverageConstants DEF Crash, TypeOK
    <2> QED
      BY <1>9, <2>2, <2>3 DEF Crash, TypeOK, Judging
  <1>10. CASE Throw(w)
    <2>1. worker' \in [Worker -> WorkerRecord]
      BY <1>0, <1>10 DEF Throw, WorkerRecord
    <2>2. faults' \in 0 .. MaxFaults
      BY <1>10, CoverageConstants DEF Throw, TypeOK
    <2> QED
      BY <1>10, <2>1, <2>2 DEF Throw, TypeOK, Judging
  <1> QED
    BY <1>1, <1>2, <1>3, <1>4, <1>5, <1>6, <1>7, <1>8, <1>9, <1>10 DEF WorkerStep

LEMMA JobTyped ==
  ASSUME Typed, AggregationStep \/ CrashAggregation
  PROVE  Typed'
PROOF
  <1> USE DEF Typed
  <1>0. /\ job \in JobRecord /\ job.update \in [Item -> UpdateRecord]
        /\ NoUpdate \in [Item -> UpdateRecord] /\ items \in [Item -> ItemRecord]
        /\ MaxPolls \in Nat \ {0}
    BY SnapshotsTyped, CoverageConstants DEF TypeOK, JobRecord
  <1>1. CASE Poll
    <2>1. \A i \in Item : [NoUpdate[i] EXCEPT !.pc = "read"] \in UpdateRecord
                       /\ [NoUpdate[i] EXCEPT !.pc = "none"] \in UpdateRecord
      BY <1>0 DEF UpdateRecord
    <2>2. job' \in JobRecord
      <3>1. CASE job' = [job EXCEPT !.pc = "done"]
        BY <1>0, <3>1 DEF JobRecord
      <3>2. CASE job' = [job EXCEPT !.pc = "updating",
                            !.update = [i \in Item |-> [NoUpdate[i] EXCEPT !.pc =
                                                          IF i \in WithChild THEN "read" ELSE "none"]]]
        BY <1>0, <2>1, <3>2 DEF JobRecord
      <3>3. CASE job' = [job EXCEPT !.polls = @ + 1,
                            !.pc = IF job.polls + 1 = MaxPolls THEN "failed" ELSE "waiting"]
        <4>1. job.polls \in 0 .. MaxPolls /\ job.polls < MaxPolls
          BY <1>0, <1>1 DEF Poll, Judging, JobRecord
        <4>2. job.polls + 1 \in 0 .. MaxPolls
          BY <1>0, <4>1
        <4>3. (IF job.polls + 1 = MaxPolls THEN "failed" ELSE "waiting") \in {"failed", "waiting"}
          OBVIOUS
        <4> QED
          BY <1>0, <3>3, <4>2, <4>3 DEF JobRecord
      <3> QED
        BY <1>1, <3>1, <3>2, <3>3 DEF Poll
    <2>3. /\ job'.pc \in {"waiting", "updating"} => job'.polls < MaxPolls
          /\ job'.pc # "unscheduled"
      BY <1>0, <1>1 DEF Poll, Judging, JobRecord
    <2> QED
      BY <1>1, <2>2, <2>3 DEF Poll, TypeOK, Judging
  <1>2. ASSUME NEW i \in Item, UpdateRead(i)
        PROVE  Typed'
    <2>1. job' \in JobRecord /\ job'.pc = job.pc /\ job'.polls = job.polls
      BY <1>0, <1>2 DEF UpdateRead, JobRecord, UpdateRecord
    <2> QED
      BY <1>2, <2>1 DEF UpdateRead, TypeOK, Judging
  <1>3. ASSUME NEW i \in Item, UpdateSave(i)
        PROVE  Typed'
    <2>1. job' \in JobRecord /\ job'.pc = job.pc /\ job'.polls = job.polls
      BY <1>0, <1>3 DEF UpdateSave, JobRecord
    <2>2. job.update[i].snapshot \in [Item -> ItemRecord]
      BY <1>0 DEF UpdateRecord
    <2>3. DispositionOf(child[i]) \in Disposition
      BY DEF DispositionOf, Disposition
    <2>4. items' \in [Item -> ItemRecord]
      BY <1>3, <2>2, <2>3 DEF UpdateSave, ItemRecord
    <2> QED
      BY <1>3, <2>1, <2>4 DEF UpdateSave, TypeOK, Judging
  <1>4. CASE Aggregated
    <2>1. job' \in JobRecord /\ job'.pc = "done"
      BY <1>0, <1>4 DEF Aggregated, JobRecord
    <2>2. CASE UNCHANGED <<parent, graph>>
      BY <1>4, <2>1, <2>2 DEF Aggregated, TypeOK, Judging
    <2>3. CASE parent.state = "running" /\ BeginEvidence(parent.attempt, TRUE)
      BY <1>4, <2>1, <2>3, EvidenceTyped DEF Aggregated, TypeOK, Judging
    <2> QED
      BY <1>4, <2>2, <2>3 DEF Aggregated
  <1>5. CASE CrashAggregation
    <2>1. job' \in JobRecord /\ job'.pc = "waiting" /\ job'.polls = job.polls
      BY <1>0, <1>5 DEF CrashAggregation, JobRecord
    <2>2. faults' \in 0 .. MaxFaults
      BY <1>5, CoverageConstants DEF CrashAggregation, TypeOK
    <2> QED
      BY <1>5, <2>1, <2>2 DEF CrashAggregation, TypeOK, Judging
  <1> QED
    BY <1>1, <1>2, <1>3, <1>4, <1>5 DEF AggregationStep

\* What the two steps of a continuation do to the parent.
LEMMA CollectMoves ==
  ASSUME Typed, NEW a \in Attempt, Collect(a),
         ~(graph' = [graph EXCEPT ![a].pc = "done"] /\ UNCHANGED parent)
  PROVE  \E g \in GateStatus, complete \in BOOLEAN :
           /\ g = "pass" => graph[a].aggregate /\ DraftGate(complete) = "pass"
           /\ parent.state = "collecting" /\ parent' \in Projection /\ parent'.state = "judging"
           /\ parent'.gateStatus = parent.gateStatus /\ parent'.machineGate = g
           /\ graph' = [graph EXCEPT ![a].pc = "conclude", ![a].gate = g]
PROOF
  <1>0. PICK complete \in BOOLEAN :
          \E g \in IF graph[a].aggregate THEN MintedGates(DraftGate(complete))
                                         ELSE {"fail", "blocked", "needs-human-review"} :
            /\ parent.state = "collecting"
            /\ Parent("run_judging", [NoPayload EXCEPT !.machineGate = g])
            /\ graph' = [graph EXCEPT ![a].pc = "conclude", ![a].gate = g]
    BY DEF Collect
  <1>1. PICK g \in IF graph[a].aggregate THEN MintedGates(DraftGate(complete))
                                         ELSE {"fail", "blocked", "needs-human-review"} :
          /\ parent.state = "collecting"
          /\ Parent("run_judging", [NoPayload EXCEPT !.machineGate = g])
          /\ graph' = [graph EXCEPT ![a].pc = "conclude", ![a].gate = g]
    BY <1>0
  <1>2. DraftGate(complete) \in GateStatus
    BY DEF DraftGate, GateStatus
  <1>3. g \in GateStatus /\ (g = "pass" => graph[a].aggregate /\ DraftGate(complete) = "pass")
    BY <1>1, <1>2 DEF MintedGates, GateStatus
  <1> DEFINE pay == [NoPayload EXCEPT !.machineGate = g]
  <1>4. pay \in Payload /\ pay.machineGate = g /\ g # Absent
    BY <1>3, GatePayloadTyped DEF NoPayload, GateStatus, Absent
  <1> HIDE DEF pay
  <1>5. /\ <<"collecting", "run_judging", "judging">> \in transitions
        /\ \A to : <<"collecting", "run_judging", to>> \in transitions => to = "judging"
        /\ "run_judging" \in EventType \ {"run_resumed"}
    BY DEF transitions, openTransitions, closedTransitions, EventType
  <1>6. Parent("run_judging", pay)
    BY <1>1 DEF pay
  <1>7. /\ parent' \in Projection /\ <<"collecting", "run_judging", parent'.state>> \in transitions
        /\ parent'.gateStatus = NextGateStatus(parent, "run_judging", pay)
        /\ parent'.machineGate = NextMachineGate(parent, pay)
    BY <1>1, <1>4, <1>5, <1>6, ParentMoves DEF Typed
  <1>8. parent'.gateStatus = parent.gateStatus /\ parent'.machineGate = g
    BY <1>4, <1>7 DEF NextGateStatus, NextMachineGate
  <1> QED
    BY <1>1, <1>3, <1>5, <1>7, <1>8

\* A conclusion from a gate, by the continuation or by the recoverer.
LEMMA ConclusionMoves ==
  ASSUME Typed, parent.state = "judging", NEW gate \in GateStatus, NEW type,
         LET final == resolveFinalStatus(gate, Recommended(gate), Absent)
         IN  /\ \/ type = TerminalEventOf(final)
                \/ \E aggregate \in BOOLEAN : type = ConclusionType(aggregate, final)
             /\ Parent(type, [NoPayload EXCEPT !.machineGate = gate, !.finalStatus = final])
  PROVE  /\ parent' \in Projection /\ parent'.state \in ClosedState
         /\ parent'.machineGate = gate
         /\ parent'.gateStatus = "pass" => gate = "pass" \/ parent.gateStatus = "pass"
PROOF
  <1> DEFINE final == resolveFinalStatus(gate, Recommended(gate), Absent)
             pay == [NoPayload EXCEPT !.machineGate = gate, !.finalStatus = final]
  <1>1. final \in GateStatus /\ (final = "pass" => gate = "pass")
    BY FinalTyped
  <1>2. type \in EventType /\ ConcludesBy(type)
    BY FinalTyped
  <1>3. Parent(type, pay)
    OBVIOUS
  <1> HIDE DEF final
  <1>4. /\ pay \in Payload /\ pay.machineGate = gate /\ pay.finalStatus = final
        /\ gate # Absent /\ final # Absent
    BY <1>1, GatePayloadTyped DEF NoPayload, GateStatus, Absent
  <1> HIDE DEF pay
  <1>5. PICK to \in ClosedState : <<"judging", type, to>> \in transitions
    BY <1>2 DEF ConcludesBy
  <1>6. type \in EventType \ {"run_resumed"}
    BY <1>2 DEF ConcludesBy
  <1>7. /\ parent' \in Projection /\ <<"judging", type, parent'.state>> \in transitions
        /\ parent'.gateStatus = NextGateStatus(parent, type, pay)
        /\ parent'.machineGate = NextMachineGate(parent, pay)
    BY <1>3, <1>4, <1>5, <1>6, ParentMoves DEF Typed
  <1>8. parent'.state \in ClosedState
    BY <1>2, <1>7 DEF ConcludesBy
  <1>9. parent'.machineGate = gate
    BY <1>4, <1>7 DEF NextMachineGate
  <1>10. type # "decision_overridden"
    BY <1>5 DEF transitions, openTransitions, closedTransitions
  <1>11. parent'.gateStatus \in {final, "fail", "blocked", "needs-human-review", parent.gateStatus}
    BY <1>4, <1>7, <1>10 DEF NextGateStatus
  <1> QED
    BY <1>1, <1>7, <1>8, <1>9, <1>11

LEMMA GraphTyped ==
  ASSUME Typed, NEW a \in Attempt, GraphStep(a)
  PROVE  Typed'
PROOF
  <1>0. graph \in [Attempt -> GraphRecord] /\ graph[a] \in GraphRecord /\ TypeOK /\ Judging
    BY DEF Typed, TypeOK
  <1>1. ASSUME graph' = [graph EXCEPT ![a].pc = "done"], UNCHANGED parent,
               UNCHANGED <<items, child, queue, lease, worker, job, faults>>
        PROVE  Typed'
    <2>1. graph' \in [Attempt -> GraphRecord]
      BY <1>0, <1>1 DEF GraphRecord
    <2> QED
      BY <1>0, <1>1, <2>1 DEF Typed, TypeOK, Judging
  <1>2. CASE Collect(a)
    <2>0. UNCHANGED <<items, child, queue, lease, worker, job, faults>>
      BY <1>2 DEF Collect
    <2>1. CASE ~(graph' = [graph EXCEPT ![a].pc = "done"] /\ UNCHANGED parent)
      <3>1. PICK g \in GateStatus :
              /\ parent' \in Projection /\ parent'.state = "judging" /\ parent'.machineGate = g
              /\ graph' = [graph EXCEPT ![a].pc = "conclude", ![a].gate = g]
              /\ parent.state = "collecting"
        BY <1>2, <2>1, CollectMoves
      <3>2. graph' \in [Attempt -> GraphRecord]
        BY <1>0, <3>1 DEF GraphRecord
      <3>3. \A b \in Attempt : graph'[b].pc = "conclude" => graph'[b].gate \in GateStatus
        BY <1>0, <3>1 DEF Judging
      <3> QED
        BY <1>0, <2>0, <3>1, <3>2, <3>3 DEF Typed, TypeOK, Judging
    <2> QED
      BY <1>1, <2>0, <2>1
  <1>3. CASE Conclude(a)
    <2>0. UNCHANGED <<items, child, queue, lease, worker, job, faults>> /\ graph[a].pc = "conclude"
          /\ graph' = [graph EXCEPT ![a].pc = "done"]
      BY <1>3 DEF Conclude
    <2>1. CASE parent.state \in ClosedState
      BY <1>1, <1>3, <2>0, <2>1 DEF Conclude
    <2>2. CASE parent.state \notin ClosedState
      <3>1. parent.state = "judging" /\ graph[a].gate \in GateStatus
        BY <1>0, <2>0, <2>2 DEF Judging
      <3>2. graph[a].aggregate \in BOOLEAN
        BY <1>0 DEF GraphRecord
      <3>3. parent' \in Projection /\ parent'.state \in ClosedState
        BY <1>3, <2>2, <3>1, <3>2, ConclusionMoves DEF Conclude
      <3>4. graph' \in [Attempt -> GraphRecord]
        BY <1>0, <2>0 DEF GraphRecord
      <3>5. \A b \in Attempt : graph'[b].pc = "conclude" => graph'[b].gate \in GateStatus
        BY <1>0, <2>0 DEF Judging
      <3>6. parent'.state # "judging"
        BY <3>3 DEF ClosedState, TerminalState
      <3> QED
        BY <1>0, <2>0, <3>3, <3>4, <3>5, <3>6 DEF Typed, TypeOK, Judging
    <2> QED
      BY <2>1, <2>2
  <1> QED
    BY <1>2, <1>3 DEF GraphStep

\* A retry of the recoverer.
LEMMA RetryMoves ==
  ASSUME Typed, RecoverLease
  PROVE  /\ parent' \in Projection /\ parent'.state = "queued"
         /\ parent'.version = parent.version + 1
         /\ parent'.gateStatus = parent.gateStatus /\ parent'.machineGate = parent.machineGate
PROOF
  <1>1. /\ <<"running", "run_retrying", "queued">> \in transitions
        /\ \A to : <<"running", "run_retrying", to>> \in transitions => to = "queued"
        /\ "run_retrying" \in EventType \ {"run_resumed"}
    BY DEF transitions, openTransitions, closedTransitions, EventType
  <1>2. Parent("run_retrying", NoPayload) /\ parent.state = "running"
    BY DEF RecoverLease
  <1>3. /\ parent' \in Projection /\ <<"running", "run_retrying", parent'.state>> \in transitions
        /\ parent'.version = parent.version + 1
        /\ parent'.gateStatus = NextGateStatus(parent, "run_retrying", NoPayload)
        /\ parent'.machineGate = NextMachineGate(parent, NoPayload)
    BY <1>1, <1>2, NoPayloadTyped, ParentMoves DEF Typed
  <1>4. parent'.gateStatus = parent.gateStatus /\ parent'.machineGate = parent.machineGate
    BY <1>3 DEF NextGateStatus, NextMachineGate, NoPayload
  <1> QED
    BY <1>1, <1>3, <1>4

LEMMA OthersTyped ==
  ASSUME Typed, RecoverLease \/ RecoverJudging \/ \E i \in Item : ChildConcludes(i)
  PROVE  Typed'
PROOF
  <1>0. TypeOK /\ Judging
    BY DEF Typed
  <1>1. CASE RecoverLease
    <2>1. /\ parent' \in Projection /\ parent'.state = "queued" /\ parent'.version \in Attempt
          /\ parent.state = "running"
      BY <1>1, RetryMoves DEF RecoverLease
    <2>2. Judging'
      BY <1>0, <1>1, <2>1 DEF RecoverLease, Judging, ClosedState, TerminalState
    <2> QED
      BY <1>0, <1>1, <2>1, <2>2 DEF RecoverLease, Typed, TypeOK
  <1>2. CASE RecoverJudging
    <2>1. parent' \in Projection /\ parent'.state \in ClosedState
      BY <1>0, <1>2, ConclusionMoves DEF RecoverJudging, Judging
    <2>2. parent'.state # "judging"
      BY <2>1 DEF ClosedState, TerminalState
    <2> QED
      BY <1>0, <1>2, <2>1, <2>2 DEF RecoverJudging, Typed, TypeOK, Judging
  <1>3. ASSUME NEW i \in Item, ChildConcludes(i)
        PROVE  Typed'
    <2>1. child' \in [Item -> {"none", "queued"} \cup Outcome]
      BY <1>0, <1>3 DEF ChildConcludes, TypeOK
    <2> QED
      BY <1>0, <1>3, <2>1 DEF ChildConcludes, Typed, TypeOK, Judging
  <1> QED
    BY <1>1, <1>2, <1>3

LEMMA TypedKept ==
  ASSUME Typed, OneDispatcher, [Next]_vars
  PROVE  Typed'
PROOF
  <1>1. CASE UNCHANGED vars
    BY <1>1 DEF vars, Typed, TypeOK, Judging
  <1> QED
    BY <1>1, WorkerTyped, JobTyped, GraphTyped, OthersTyped DEF Next

(***************************************************************************)
(* One dispatcher.                                                         *)
(***************************************************************************)
\* A worker's step is its own, and a dispatcher keeps its attempt until it is idle.
LEMMA WorkerMoves ==
  ASSUME TypeOK, NEW w \in Worker, WorkerStep(w) \/ Throw(w) \/ Crash(w)
  PROVE  /\ \A v \in Worker : v # w => worker'[v] = worker[v]
         /\ ~Take(w) =>
              /\ worker[w].pc # "idle"
              /\ \/ worker'[w] = Idle
                 \/ worker'[w].pc # "idle" /\ worker'[w].attempt = worker[w].attempt
              /\ lease' = lease \/ (worker'[w] = Idle /\ lease = worker[w].attempt)
PROOF
  <1>0. worker \in [Worker -> WorkerRecord] /\ worker[w] \in WorkerRecord
    BY DEF TypeOK
  <1>1. CASE Take(w)
    BY <1>0, <1>1 DEF Take
  <1>2. CASE ReadItems(w)
    BY <1>0, <1>2 DEF ReadItems, Take, WorkerRecord
  <1>3. CASE Classify(w)
    <2>1. AfterClassify(worker[w].snapshot) # "idle"
      BY DEF AfterClassify
    <2> QED
      BY <1>0, <1>3, <2>1 DEF Classify, Take, WorkerRecord
  <1>4. CASE CreateChild(w) \/ MarkRead(w)
    <2>1. CASE CreateChild(w)
      BY <1>0, <2>1 DEF CreateChild, Take, WorkerRecord
    <2>2. CASE MarkRead(w)
      BY <1>0, <2>2 DEF MarkRead, Take, WorkerRecord
    <2> QED
      BY <1>4, <2>1, <2>2
  <1>5. CASE MarkSave(w)
    BY <1>0, <1>5 DEF MarkSave, Take, WorkerRecord
  <1>6. CASE Schedule(w) \/ Finish(w)
    <2>1. CASE Schedule(w)
      BY <1>0, <2>1 DEF Schedule, Take, WorkerRecord
    <2>2. CASE Finish(w)
      BY <1>0, <2>2 DEF Finish, Take, WorkerRecord
    <2> QED
      BY <1>6, <2>1, <2>2
  <1>7. CASE Release(w)
    BY <1>0, <1>7 DEF Release, Take, WorkerRecord
  <1>8. CASE Crash(w)
    BY <1>0, <1>8 DEF Crash, Take, WorkerRecord
  <1>9. CASE Throw(w)
    <2>1. /\ \A v \in Worker : v # w => worker'[v] = worker[v]
          /\ worker'[w] = [Idle EXCEPT !.pc = "caught", !.attempt = worker[w].attempt]
          /\ worker[w].pc # "idle" /\ lease' = lease
      BY <1>0, <1>9 DEF Throw
    <2>2. worker'[w].pc = "caught" /\ worker'[w].attempt = worker[w].attempt
      BY <2>1 DEF Idle
    <2> QED
      BY <2>1, <2>2
  <1> QED
    BY <1>1, <1>2, <1>3, <1>4, <1>5, <1>6, <1>7, <1>8, <1>9 DEF WorkerStep

\* Nobody dispatches while the lease is free.
LEMMA FreeMeansIdle ==
  ASSUME OneDispatcher, LeaseFree, NEW w \in Worker
  PROVE  worker[w].pc = "idle"
  BY DEF OneDispatcher, LeaseFree, Holder

LEMMA OneDispatcherKept ==
  ASSUME Typed, OneDispatcher, [Next]_vars
  PROVE  OneDispatcher'
PROOF
  <1>0. worker \in [Worker -> WorkerRecord] /\ TypeOK
    BY DEF Typed, TypeOK
  <1>1. ASSUME UNCHANGED <<worker, lease>> PROVE OneDispatcher'
    BY <1>1 DEF OneDispatcher
  <1>2. ASSUME NEW w \in Worker, Take(w)
        PROVE  OneDispatcher'
    <2>1. CASE UNCHANGED <<lease, worker>>
      BY <1>1, <2>1
    <2>2. CASE ~UNCHANGED <<lease, worker>>
      <3>1. PICK a \in queue :
              /\ LeaseFree /\ lease' = a
              /\ worker' = [worker EXCEPT ![w] = [Idle EXCEPT !.pc = "read", !.attempt = a]]
        BY <1>2, <2>2 DEF Take
      <3>2. a \in Attempt /\ a # None
        BY <1>0, <3>1, NoneIsNoAttempt DEF TypeOK
      <3>3. worker'[w].pc = "read" /\ worker'[w].attempt = a
        BY <1>0, <3>1 DEF Idle
      <3>4. \A v \in Worker : v # w => worker'[v] = worker[v] /\ worker'[v].pc = "idle"
        BY <1>0, <3>1, FreeMeansIdle
      <3> QED
        BY <3>1, <3>2, <3>3, <3>4 DEF OneDispatcher
    <2> QED
      BY <2>1, <2>2
  <1>3. ASSUME NEW w \in Worker, WorkerStep(w) \/ Throw(w) \/ Crash(w), ~Take(w)
        PROVE  OneDispatcher'
    <2>1. /\ \A v \in Worker : v # w => worker'[v] = worker[v]
          /\ worker[w].pc # "idle"
          /\ \/ worker'[w] = Idle
             \/ worker'[w].pc # "idle" /\ worker'[w].attempt = worker[w].attempt /\ lease' = lease
          /\ lease' = lease \/ worker'[w] = Idle
      BY <1>0, <1>3, WorkerMoves
    <2>2. \A v \in Worker : v # w => worker'[v] = worker[v] /\ worker[v].pc = "idle"
      BY <2>1 DEF OneDispatcher
    <2>3. Idle.pc = "idle"
      BY DEF Idle
    <2> QED
      BY <2>1, <2>2, <2>3 DEF OneDispatcher
  <1>4. CASE RecoverJudging
    <2>1. UNCHANGED worker /\ (lease' = lease \/ LeaseFree)
      BY <1>4 DEF RecoverJudging
    <2> QED
      BY <2>1, FreeMeansIdle DEF OneDispatcher
  <1>5. CASE \/ AggregationStep \/ CrashAggregation \/ RecoverLease \/ UNCHANGED vars
             \/ (\E i \in Item : ChildConcludes(i)) \/ (\E a \in Attempt : GraphStep(a))
    BY <1>1, <1>5
    DEF AggregationStep, Poll, UpdateRead, UpdateSave, Aggregated, CrashAggregation, RecoverLease,
        ChildConcludes, GraphStep, Collect, Conclude, vars
  <1> QED
    BY <1>2, <1>3, <1>4, <1>5 DEF Next

(***************************************************************************)
(* The coverage items.                                                     *)
(***************************************************************************)
\* What is concluded stays as it is, and so does the plan.
ChildrenStay == \A i \in Item : Concluded(i) => child'[i] = child[i]

LEMMA AgreesStays ==
  ASSUME ChildrenStay, Agrees(items', items, child), NEW record, Agrees(record, items, child)
  PROVE  Agrees(record, items', child')
  BY DEF Agrees, ChildrenStay, Concluded

\* Whoever writes the items writes a faithful record and makes nothing pending.
ItemsMove ==
  /\ Agrees(items', items, child) /\ ChildrenStay
  /\ Pending(items) = {} => Pending(items)' = {}

LEMMA ClassifyMoves ==
  ASSUME Typed, Coverage, NEW w \in Worker, Classify(w)
  PROVE  ItemsMove
PROOF
  <1> DEFINE record == worker[w].snapshot
  <1>1. /\ Agrees(record, items, child) /\ Agrees(items, items, child)
        /\ IF Scheduled THEN Pending(record) = {} ELSE record = items
        /\ record \in [Item -> ItemRecord] /\ items \in [Item -> ItemRecord] /\ child' = child
    BY DEF Coverage, DispatchKnows, Classify, Faithful, Typed, TypeOK, WorkerRecord
  <1>2. ChildrenStay
    BY <1>1 DEF ChildrenStay
  <1>3. CASE items' = items
    BY <1>1, <1>2, <1>3 DEF ItemsMove, Pending
  <1>4. CASE items' = [i \in Item |-> IF i \in {k \in Pending(record) : ~record[k].bound}
                                        THEN [record[i] EXCEPT !.disposition = "blocked"]
                                        ELSE record[i]]
    <2>1. \A i \in Item : record[i] \in ItemRecord
      BY <1>1
    <2>2. \A i \in Item :
            /\ items'[i].bound = record[i].bound /\ items'[i].child = record[i].child
            /\ IF i \in Pending(record) /\ ~record[i].bound
                 THEN items'[i].disposition = "blocked"
                 ELSE items'[i].disposition = record[i].disposition
      BY <1>4, <2>1 DEF ItemRecord
    <2> HIDE DEF record
    <2>3. Agrees(items', items, child)
      BY <1>1, <2>2 DEF Agrees
    <2>4. Pending(items) = {} => Pending(record) = {}
      BY <1>1
    <2>5. Pending(record) = {} => Pending(items)' = {}
      BY <2>2 DEF Pending
    <2> QED
      BY <1>2, <2>3, <2>4, <2>5 DEF ItemsMove
  <1> QED
    BY <1>3, <1>4 DEF Classify

LEMMA MarkSaveMoves ==
  ASSUME Typed, Coverage, NEW w \in Worker, MarkSave(w)
  PROVE  /\ ItemsMove
         /\ Pending(items)' = worker[w].todo \ {First(worker[w].todo)}
PROOF
  <1> DEFINE i == First(worker[w].todo)
  <1>1. /\ worker[w].snapshot = items /\ Agrees(items, items, child)
        /\ worker[w].todo = Pending(items) /\ worker[w].todo # {}
        /\ \A j \in worker[w].todo : items[j].bound
        /\ worker[w].todo \in SUBSET Item
        /\ items \in [Item -> ItemRecord] /\ child' = child
        /\ items' = [worker[w].snapshot EXCEPT ![i].disposition = "executing", ![i].child = TRUE]
    BY DEF Coverage, DispatchKnows, MarkSave, Faithful, Typed, TypeOK, WorkerRecord
  <1>2. i \in Pending(items) /\ items[i].bound /\ i \in Item
    BY <1>1, FirstIn
  <1> HIDE DEF i
  <1>3. /\ items'[i].bound = items[i].bound /\ items'[i].child = TRUE
        /\ items'[i].disposition = "executing"
        /\ \A j \in Item : j # i => items'[j] = items[j]
    BY <1>1, <1>2 DEF ItemRecord
  <1>4. Agrees(items', items, child)
    BY <1>1, <1>2, <1>3 DEF Agrees
  <1>5. Pending(items)' = Pending(items) \ {i}
    BY <1>2, <1>3 DEF Pending
  <1>6. ChildrenStay
    BY <1>1 DEF ChildrenStay
  <1> QED
    BY <1>1, <1>4, <1>5, <1>6 DEF ItemsMove, i

LEMMA UpdateSaveMoves ==
  ASSUME Typed, Coverage, NEW i \in Item, UpdateSave(i)
  PROVE  ItemsMove
PROOF
  <1> DEFINE record == job.update[i].snapshot
  <1>1. /\ Agrees(record, items, child) /\ Pending(record) = {}
        /\ items[i].bound /\ child[i] \in ClosedState /\ child' = child
        /\ items' = [record EXCEPT ![i].disposition = DispositionOf(child[i])]
    BY DEF Coverage, UpdateKnows, UpdateSave, Faithful, Concluded
  <1>2. record \in [Item -> ItemRecord]
    BY SnapshotsTyped DEF Typed, UpdateRecord
  <1> HIDE DEF record
  <1>3. /\ items'[i].bound = record[i].bound /\ items'[i].child = record[i].child
        /\ items'[i].disposition = DispositionOf(child[i])
        /\ \A j \in Item : j # i => items'[j] = record[j]
    BY <1>1, <1>2 DEF ItemRecord
  <1>4. DispositionOf(child[i]) \in {"blocked", "failed", "executed"}
    BY DEF DispositionOf
  <1>5. record[i].disposition # "pending"
    BY <1>1 DEF Pending
  <1>6. Agrees(items', items, child)
    BY <1>1, <1>3, <1>4, <1>5 DEF Agrees
  <1>7. Pending(items)' = {}
    BY <1>1, <1>3, <1>4 DEF Pending
  <1>8. ChildrenStay
    BY <1>1 DEF ChildrenStay
  <1> QED
    BY <1>6, <1>7, <1>8 DEF ItemsMove

\* The other steps leave the items alone, and conclude children that have not.
LEMMA ItemsMoveAlways ==
  ASSUME Typed, Coverage, [Next]_vars
  PROVE  ItemsMove
PROOF
  <1>0. Agrees(items, items, child) /\ child \in [Item -> {"none", "queued"} \cup Outcome]
    BY DEF Coverage, Faithful, Typed, TypeOK
  <1>1. ASSUME UNCHANGED items, ChildrenStay PROVE ItemsMove
    BY <1>0, <1>1 DEF ItemsMove, Pending
  <1>2. UNCHANGED child => ChildrenStay
    BY DEF ChildrenStay
  <1>3. ASSUME NEW w \in Worker, WorkerStep(w) \/ Throw(w) \/ Crash(w)
        PROVE  ItemsMove
    <2>1. CASE CreateChild(w)
      <3>1. ChildrenStay
        BY <1>0, <2>1 DEF CreateChild, ChildrenStay, Concluded, ClosedState, TerminalState
      <3> QED
        BY <1>1, <2>1, <3>1 DEF CreateChild
    <2>2. CASE Classify(w) \/ MarkSave(w)
      BY <2>2, ClassifyMoves, MarkSaveMoves
    <2> QED
      BY <1>1, <1>2, <1>3, <2>1, <2>2
      DEF WorkerStep, Take, ReadItems, MarkRead, Schedule, Finish, Release, Throw, Crash
  <1>4. ASSUME NEW i \in Item, ChildConcludes(i)
        PROVE  ItemsMove
    <2>1. ChildrenStay
      BY <1>0, <1>4 DEF ChildConcludes, ChildrenStay, Concluded, ClosedState, TerminalState
    <2> QED
      BY <1>1, <1>4, <2>1 DEF ChildConcludes
  <1>5. CASE AggregationStep
    <2>1. ASSUME NEW i \in Item, UpdateSave(i) PROVE ItemsMove
      BY <2>1, UpdateSaveMoves
    <2> QED
      BY <1>1, <1>2, <1>5, <2>1 DEF AggregationStep, Poll, UpdateRead, Aggregated
  <1>6. CASE \/ CrashAggregation \/ RecoverLease \/ RecoverJudging \/ UNCHANGED vars
             \/ \E a \in Attempt : GraphStep(a)
    BY <1>1, <1>2, <1>6
    DEF CrashAggregation, RecoverLease, RecoverJudging, GraphStep, Collect, Conclude, vars
  <1> QED
    BY <1>3, <1>4, <1>5, <1>6 DEF Next

\* Before the aggregation is scheduled, a dispatcher that does not move sees the items
\* unmoved as well.
LEMMA OthersQuiet ==
  ASSUME Typed, OneDispatcher, Coverage, [Next]_vars,
         NEW w \in Worker, worker[w].pc # "idle", worker'[w] = worker[w], ~Scheduled
  PROVE  UNCHANGED items /\ ~Scheduled'
PROOF
  <1>0. TypeOK /\ worker \in [Worker -> WorkerRecord]
    BY DEF Typed, TypeOK
  <1>1. ~AggregationStep /\ ~CrashAggregation
    BY DEF Scheduled, AggregationStep, UpdateSave, Aggregated, CrashAggregation, Poll, UpdateRead
  <1>2. ASSUME NEW v \in Worker, Classify(v) \/ MarkSave(v) \/ Schedule(v)
        PROVE  FALSE
    <2>1. v = w
      BY <1>2 DEF Classify, MarkSave, Schedule, OneDispatcher
    <2>2. worker'[v].pc # worker[v].pc
      <3>1. AfterClassify(worker[v].snapshot) # "classify"
        BY DEF AfterClassify
      <3>2. worker[v] \in WorkerRecord
        BY <1>0
      <3>3. CASE Classify(v)
        BY <1>0, <3>1, <3>2, <3>3 DEF Classify, WorkerRecord
      <3>4. CASE MarkSave(v)
        BY <1>0, <3>2, <3>4 DEF MarkSave, WorkerRecord
      <3>5. CASE Schedule(v)
        BY <1>0, <3>2, <3>5 DEF Schedule, WorkerRecord
      <3> QED
        BY <1>2, <3>3, <3>4, <3>5
    <2> QED
      BY <2>1, <2>2
  <1>3. ASSUME NEW v \in Worker, WorkerStep(v) \/ Throw(v) \/ Crash(v)
        PROVE  UNCHANGED <<items, job>>
    BY <1>2, <1>3, ZenonT(60)
    DEF WorkerStep, Take, ReadItems, CreateChild, MarkRead, Finish, Release, Throw, Crash
  <1>4. ASSUME \/ RecoverLease \/ RecoverJudging \/ UNCHANGED vars
               \/ (\E a \in Attempt : GraphStep(a)) \/ (\E i \in Item : ChildConcludes(i))
        PROVE  UNCHANGED <<items, job>>
    BY <1>4 DEF RecoverLease, RecoverJudging, GraphStep, Collect, Conclude, ChildConcludes, vars
  <1>5. UNCHANGED <<items, job>>
    BY <1>1, <1>3, <1>4 DEF Next
  <1> QED
    BY <1>5 DEF Scheduled

LEMMA UnmovedKnows ==
  ASSUME Typed, OneDispatcher, Coverage, ItemsMove, [Next]_vars, NEW w \in Worker,
         worker'[w] = worker[w], Scheduled => Scheduled'
  PROVE  DispatchKnows(w)'
PROOF
  <1>1. DispatchKnows(w)
    BY DEF Coverage
  <1>2. CASE worker[w].pc \in {"idle", "read"}
    BY <1>2 DEF DispatchKnows
  <1>3. ASSUME worker[w].pc \in {"classify", "markSave"}
        PROVE  Faithful(worker[w].snapshot)'
    <2>1. Agrees(worker[w].snapshot, items, child)
      BY <1>1, <1>3 DEF DispatchKnows, Faithful
    <2>2. Agrees(worker[w].snapshot, items', child')
      BY <2>1, AgreesStays DEF ItemsMove
    <2> QED
      BY <2>2 DEF Faithful
  <1>4. CASE worker[w].pc \notin {"idle", "read"} /\ Scheduled
    BY <1>1, <1>3, <1>4 DEF DispatchKnows, ItemsMove, Pending
  <1>5. CASE worker[w].pc \notin {"idle", "read"} /\ ~Scheduled
    <2>1. UNCHANGED items /\ ~Scheduled'
      BY <1>5, OthersQuiet
    <2> QED
      BY <1>1, <1>3, <1>5, <2>1 DEF DispatchKnows, Pending
  <1> QED
    BY <1>2, <1>4, <1>5

LEMMA MovedKnows ==
  ASSUME Typed, OneDispatcher, Coverage, ItemsMove, NEW w \in Worker, WorkerStep(w) \/ Throw(w) \/ Crash(w)
  PROVE  DispatchKnows(w)'
PROOF
  <1>0. /\ worker \in [Worker -> WorkerRecord] /\ worker[w] \in WorkerRecord
        /\ DispatchKnows(w) /\ Agrees(items, items, child)
        /\ Scheduled => Pending(items) = {}
    BY DEF Typed, TypeOK, Coverage, Faithful
  <1>1. ASSUME worker'[w].pc \in {"idle", "read"} PROVE DispatchKnows(w)'
    BY <1>1 DEF DispatchKnows
  <1>2. CASE Take(w)
    <2>1. CASE UNCHANGED worker
      BY <1>1, <1>2, <2>1 DEF Take
    <2>2. CASE ~UNCHANGED worker
      <3>1. PICK a \in queue :
              worker' = [worker EXCEPT ![w] = [Idle EXCEPT !.pc = "read", !.attempt = a]]
        BY <1>2, <2>2 DEF Take
      <3>2. worker'[w].pc = "read"
        BY <1>0, <3>1 DEF Idle
      <3> QED
        BY <1>1, <3>2
    <2> QED
      BY <2>1, <2>2
  <1>3. CASE Release(w) \/ Crash(w)
    <2>1. worker'[w].pc = "idle"
      BY <1>0, <1>3 DEF Release, Crash, Idle
    <2> QED
      BY <1>1, <2>1
  <1>4. CASE ReadItems(w)
    <2>1. worker'[w].pc = "classify" /\ worker'[w].snapshot = items
          /\ UNCHANGED <<items, child, job>>
      BY <1>0, <1>4 DEF ReadItems, WorkerRecord
    <2> QED
      BY <1>0, <2>1 DEF DispatchKnows, Faithful, Pending, Scheduled
  <1>5. CASE MarkRead(w)
    <2>1. /\ worker'[w].pc = "markSave" /\ worker'[w].snapshot = items
          /\ worker'[w].todo = worker[w].todo /\ worker[w].pc = "markRead"
          /\ UNCHANGED <<items, child, job>>
      BY <1>0, <1>5 DEF MarkRead, WorkerRecord
    <2> QED
      BY <1>0, <2>1 DEF DispatchKnows, Faithful, Pending, Scheduled
  <1>6. CASE CreateChild(w)
    <2>1. /\ worker'[w].pc = "markRead" /\ worker'[w].todo = worker[w].todo
          /\ worker[w].pc = "create" /\ UNCHANGED <<items, job>>
      BY <1>0, <1>6 DEF CreateChild, WorkerRecord
    <2> QED
      BY <1>0, <2>1 DEF DispatchKnows, Pending, Scheduled
  <1>7. CASE MarkSave(w)
    <2> DEFINE i == First(worker[w].todo)
               rest == worker[w].todo \ {i}
    <2>1. /\ worker'[w].pc = IF rest = {} THEN "schedule" ELSE "create"
          /\ worker'[w].todo = rest /\ worker[w].pc = "markSave" /\ UNCHANGED job
      BY <1>0, <1>7 DEF MarkSave, WorkerRecord
    <2>2. Pending(items)' = rest
      BY <1>7, MarkSaveMoves
    <2>3. \A j \in rest : items[j].bound
      BY <1>0, <2>1 DEF DispatchKnows
    <2>4. \A j \in rest : items'[j].bound
      BY <1>0, <2>3 DEF ItemsMove, Agrees, WorkerRecord
    <2> HIDE DEF i, rest
    <2>5. ~Scheduled'
      BY <1>0, <2>1 DEF DispatchKnows, Scheduled
    <2> QED
      BY <2>1, <2>2, <2>4, <2>5 DEF DispatchKnows
  <1>8. CASE Schedule(w) \/ Finish(w) \/ Throw(w)
    <2>1. worker'[w].pc \in {"release", "caught"}
      <3>1. CASE Schedule(w)
        BY <1>0, <3>1 DEF Schedule, WorkerRecord
      <3>2. CASE Finish(w)
        BY <1>0, <3>2 DEF Finish, WorkerRecord
      <3>3. CASE Throw(w)
        BY <1>0, <3>3 DEF Throw, Idle
      <3> QED
        BY <1>8, <3>1, <3>2, <3>3
    <2> QED
      BY <2>1 DEF DispatchKnows
  <1>9. CASE Classify(w)
    <2> DEFINE record == worker[w].snapshot
    <2>1. /\ worker'[w].pc = AfterClassify(record) /\ worker'[w].todo = Executable(record)
          /\ worker[w].pc = "classify" /\ UNCHANGED <<child, job>>
      BY <1>0, <1>9 DEF Classify, WorkerRecord
    <2>2. /\ Agrees(record, items, child) /\ record \in [Item -> ItemRecord]
          /\ IF Scheduled THEN Pending(record) = {} ELSE record = items
      BY <1>0, <2>1 DEF DispatchKnows, Faithful, WorkerRecord
    <2>3. Executable(record) = {i \in Pending(record) : record[i].bound}
      BY DEF Executable
    <2>4. Pending(items)' = Executable(record)
      <3>1. CASE /\ {i \in Pending(record) : ~record[i].bound} = {}
                 /\ UNCHANGED items
        <4>1. Pending(items)' = Pending(items)
          BY <3>1 DEF Pending
        <4>2. Executable(record) = Pending(record)
          BY <2>3, <3>1
        <4>3. Pending(items) = Pending(record)
          BY <1>0, <2>2
        <4> QED
          BY <4>1, <4>2, <4>3
      <3>2. CASE items' = [i \in Item |-> IF i \in {k \in Pending(record) : ~record[k].bound}
                                            THEN [record[i] EXCEPT !.disposition = "blocked"]
                                            ELSE record[i]]
        <4>1. \A i \in Item : record[i] \in ItemRecord
          BY <2>2
        <4>2. \A i \in Item : items'[i].disposition =
                IF i \in Pending(record) /\ ~record[i].bound THEN "blocked" ELSE record[i].disposition
          BY <3>2, <4>1 DEF ItemRecord
        <4> HIDE DEF record
        <4> QED
          BY <2>3, <4>2 DEF Pending
      <3> QED
        BY <1>9, <3>1, <3>2 DEF Classify
    <2>5. CASE Executable(record) = {}
      <3>1. worker'[w].pc \in {"aggregateNow", "caught"}
        BY <2>1, <2>5 DEF AfterClassify
      <3> QED
        BY <2>4, <2>5, <3>1 DEF DispatchKnows
    <2>6. CASE Executable(record) # {}
      <3>1. worker'[w].pc = "create"
        BY <2>1, <2>6 DEF AfterClassify
      <3>2. ~Scheduled /\ ~Scheduled'
        BY <2>1, <2>2, <2>3, <2>6 DEF Scheduled
      <3>3. \A i \in Executable(record) : i \in Item /\ record[i].bound
        BY <2>3 DEF Pending
      <3>4. \A i \in Executable(record) : items'[i].bound
        BY <2>2, <3>2, <3>3 DEF ItemsMove, Agrees
      <3> QED
        BY <2>1, <2>4, <2>6, <3>1, <3>2, <3>4 DEF DispatchKnows
    <2> QED
      BY <2>5, <2>6
  <1> QED
    BY <1>2, <1>3, <1>4, <1>5, <1>6, <1>7, <1>8, <1>9 DEF WorkerStep

LEMMA UpdatesKnow ==
  ASSUME Typed, OneDispatcher, Coverage, ItemsMove, [Next]_vars, NEW i \in Item
  PROVE  UpdateKnows(i)'
PROOF
  <1>0. /\ UpdateKnows(i) /\ job \in JobRecord /\ job.update \in [Item -> UpdateRecord]
        /\ job.update[i] \in UpdateRecord /\ Agrees(items, items, child)
        /\ Scheduled => Pending(items) = {}
    BY SnapshotsTyped DEF Coverage, Typed, TypeOK, JobRecord, Faithful
  \* What holds of an update goes on to hold, however the items move.
  <1>1. ASSUME job'.update[i] = job.update[i],
               job.update[i].pc = "none" \/ job'.pc = job.pc
        PROVE  UpdateKnows(i)'
    <2>1. CASE job.update[i].pc = "none"
      BY <1>1, <2>1 DEF UpdateKnows
    <2>2. CASE job.update[i].pc # "none"
      <3>1. job'.pc = "updating" /\ items[i].bound /\ Concluded(i)
        BY <1>0, <1>1, <2>2 DEF UpdateKnows
      <3>2. items'[i].bound /\ Concluded(i)'
        BY <3>1 DEF ItemsMove, Agrees, ChildrenStay, Concluded
      <3>3. ASSUME job.update[i].pc = "save"
            PROVE  Faithful(job.update[i].snapshot)' /\ Pending(job.update[i].snapshot)' = {}
        <4>1. Agrees(job.update[i].snapshot, items, child) /\ Pending(job.update[i].snapshot) = {}
          BY <1>0, <3>3 DEF UpdateKnows, Faithful
        <4>2. Agrees(job.update[i].snapshot, items', child')
          BY <4>1, AgreesStays DEF ItemsMove
        <4> QED
          BY <1>1, <4>1, <4>2 DEF Faithful, Pending
      <3> QED
        BY <1>1, <2>2, <3>1, <3>2, <3>3 DEF UpdateKnows
    <2> QED
      BY <2>1, <2>2
  <1>2. ASSUME job'.update[i].pc = "none" PROVE UpdateKnows(i)'
    BY <1>2 DEF UpdateKnows
  <1>3. NoUpdate[i].pc = "none"
    BY DEF NoUpdate
  <1>4. ASSUME NEW w \in Worker, Schedule(w) PROVE UpdateKnows(i)'
    <2>1. CASE job.pc = "unscheduled"
      <3>1. job.update[i].pc = "none"
        BY <1>0, <2>1 DEF UpdateKnows
      <3>2. job'.update[i] = job.update[i]
        BY <1>0, <1>4 DEF Schedule, JobRecord
      <3> QED
        BY <1>1, <3>1, <3>2
    <2>2. CASE job.pc # "unscheduled"
      BY <1>1, <1>4, <2>2 DEF Schedule
    <2> QED
      BY <2>1, <2>2
  <1>5. CASE Poll
    <2>1. job.pc = "waiting" /\ UNCHANGED <<items, child>>
      BY <1>5 DEF Poll
    <2>2. job.update[i].pc = "none"
      BY <1>0, <2>1 DEF UpdateKnows
    <2>3. CASE job' = [job EXCEPT !.pc = "updating",
                          !.update = [k \in Item |-> [NoUpdate[k] EXCEPT !.pc =
                                                        IF k \in WithChild THEN "read" ELSE "none"]]]
               /\ ChildrenConcluded
      <3>1. NoUpdate \in [Item -> UpdateRecord] /\ NoUpdate[i] \in UpdateRecord
        BY SnapshotsTyped DEF Typed
      <3>2. /\ job'.pc = "updating"
            /\ job'.update[i].pc = IF i \in WithChild THEN "read" ELSE "none"
        BY <1>0, <2>3, <3>1 DEF JobRecord, UpdateRecord
      <3>3. i \in WithChild => items[i].bound /\ Concluded(i)
        BY <1>0, <2>3 DEF WithChild, ChildrenConcluded, Agrees
      <3> QED
        BY <2>1, <3>2, <3>3 DEF UpdateKnows, Concluded
    <2>4. CASE job' = [job EXCEPT !.pc = "done"]
      BY <1>0, <1>1, <2>2, <2>4 DEF JobRecord
    <2>5. CASE job' = [job EXCEPT !.polls = @ + 1,
                          !.pc = IF job.polls + 1 = MaxPolls THEN "failed" ELSE "waiting"]
      BY <1>0, <1>1, <2>2, <2>5 DEF JobRecord
    <2> QED
      BY <1>5, <2>3, <2>4, <2>5 DEF Poll
  <1>6. ASSUME NEW k \in Item, UpdateRead(k) PROVE UpdateKnows(i)'
    <2>1. /\ job' = [job EXCEPT !.update[k] = [pc |-> "save", snapshot |-> items]]
          /\ UNCHANGED <<items, child>> /\ job.pc = "updating" /\ job.update[k].pc = "read"
      BY <1>6 DEF UpdateRead
    <2>2. job'.pc = "updating"
      BY <1>0, <2>1 DEF JobRecord
    <2>3. CASE k # i
      <3>1. job'.update[i] = job.update[i]
        BY <1>0, <2>1, <2>3 DEF JobRecord
      <3> QED
        BY <1>1, <2>1, <2>2, <3>1
    <2>4. CASE k = i
      <3>1. job'.update[i] = [pc |-> "save", snapshot |-> items]
        BY <1>0, <2>1, <2>4 DEF JobRecord
      <3>2. job'.update[i].snapshot = items /\ items' = items /\ child' = child
        BY <2>1, <3>1
      <3>3. Agrees(items, items, child) /\ Pending(items) = {}
        BY <1>0, <2>1 DEF Scheduled
      <3>4. Faithful(job.update[i].snapshot)' /\ Pending(job.update[i].snapshot)' = {}
        BY <3>2, <3>3 DEF Faithful, Pending
      <3>5. items'[i].bound /\ Concluded(i)'
        BY <1>0, <2>1, <2>4 DEF UpdateKnows, Concluded
      <3> QED
        BY <2>2, <3>4, <3>5 DEF UpdateKnows
    <2> QED
      BY <2>3, <2>4
  <1>7. ASSUME NEW k \in Item, UpdateSave(k) PROVE UpdateKnows(i)'
    <2>1. job' = [job EXCEPT !.update[k] = NoUpdate[k]] /\ job.pc = "updating"
      BY <1>7 DEF UpdateSave
    <2>2. job'.pc = job.pc
      BY <1>0, <2>1 DEF JobRecord
    <2>3. CASE k = i
      <3>1. job'.update[i] = NoUpdate[i]
        BY <1>0, <2>1, <2>3 DEF JobRecord
      <3> QED
        BY <1>2, <1>3, <3>1
    <2>4. CASE k # i
      <3>1. job'.update[i] = job.update[i]
        BY <1>0, <2>1, <2>4 DEF JobRecord
      <3> QED
        BY <1>1, <2>2, <3>1
    <2> QED
      BY <2>3, <2>4
  <1>8. CASE Aggregated
    <2>1. job.update[i].pc = "none" /\ job' = [job EXCEPT !.pc = "done"]
      BY <1>8 DEF Aggregated
    <2>2. job'.update[i] = job.update[i]
      BY <1>0, <2>1 DEF JobRecord
    <2> QED
      BY <1>1, <2>1, <2>2
  <1>9. CASE CrashAggregation
    <2>1. job'.update = NoUpdate
      BY <1>0, <1>9 DEF CrashAggregation, JobRecord
    <2> QED
      BY <1>2, <1>3, <2>1
  <1>10. CASE UNCHANGED job
    BY <1>1, <1>10
  <1>11. ASSUME NEW w \in Worker, WorkerStep(w) \/ Throw(w) \/ Crash(w) PROVE UpdateKnows(i)'
    BY <1>4, <1>10, <1>11
    DEF WorkerStep, Take, ReadItems, Classify, CreateChild, MarkRead, MarkSave, Finish, Release, Throw, Crash
  <1>12. CASE \/ RecoverLease \/ RecoverJudging \/ UNCHANGED vars
              \/ (\E a \in Attempt : GraphStep(a)) \/ (\E k \in Item : ChildConcludes(k))
    BY <1>10, <1>12 DEF RecoverLease, RecoverJudging, GraphStep, Collect, Conclude, ChildConcludes, vars
  <1> QED
    BY <1>5, <1>6, <1>7, <1>8, <1>9, <1>11, <1>12 DEF Next, AggregationStep

\* The aggregation is scheduled by a dispatcher that has nothing left.
LEMMA ScheduleMoves ==
  ASSUME Typed, [Next]_vars
  PROVE  /\ Scheduled => Scheduled'
         /\ ~Scheduled /\ Scheduled' => \E w \in Worker : Schedule(w)
PROOF
  <1>0. job \in JobRecord
    BY DEF Typed, TypeOK
  <1>1. ASSUME NEW w \in Worker, WorkerStep(w) \/ Throw(w) \/ Crash(w), ~Schedule(w)
        PROVE  UNCHANGED job
    BY <1>1
    DEF WorkerStep, Take, ReadItems, Classify, CreateChild, MarkRead, MarkSave, Finish, Release, Throw, Crash
  <1>2. ASSUME NEW w \in Worker, Schedule(w)
        PROVE  Scheduled'
    BY <1>0, <1>2 DEF Schedule, Scheduled, JobRecord
  <1>3. CASE AggregationStep \/ CrashAggregation
    BY <1>0, <1>3
    DEF AggregationStep, Poll, UpdateRead, UpdateSave, Aggregated, CrashAggregation, Scheduled, JobRecord
  <1>4. CASE UNCHANGED job
    BY <1>4 DEF Scheduled
  <1>5. CASE \/ RecoverLease \/ RecoverJudging \/ UNCHANGED vars
             \/ (\E a \in Attempt : GraphStep(a)) \/ (\E i \in Item : ChildConcludes(i))
    BY <1>4, <1>5 DEF RecoverLease, RecoverJudging, GraphStep, Collect, Conclude, ChildConcludes, vars
  <1> QED
    BY <1>1, <1>2, <1>3, <1>4, <1>5 DEF Next

\* An aggregate is begun when nothing is pending: by a dispatcher that found nothing
\* to dispatch, or by the aggregation job.
LEMMA AggregateMoves ==
  ASSUME Typed, Coverage, [Next]_vars, NEW a \in Attempt, graph'[a].aggregate, ~graph[a].aggregate
  PROVE  Pending(items) = {}
PROOF
  <1>0. /\ graph \in [Attempt -> GraphRecord] /\ job \in JobRecord
        /\ \A w \in Worker : DispatchKnows(w)
    BY DEF Typed, TypeOK, Coverage
  <1>1. ~UNCHANGED graph
    OBVIOUS
  <1>2. ASSUME NEW b, BeginEvidence(b, FALSE) PROVE FALSE
    <2>1. [NoGraph EXCEPT !.pc = "collect", !.aggregate = FALSE].aggregate = FALSE
      BY DEF NoGraph
    <2>2. graph'[a] \in {graph[a], [NoGraph EXCEPT !.pc = "collect", !.aggregate = FALSE]}
      BY <1>0, <1>2 DEF BeginEvidence
    <2> QED
      BY <2>1, <2>2
  <1>3. ASSUME NEW w \in Worker, Finish(w) PROVE Pending(items) = {}
    <2>1. BeginEvidence(worker[w].attempt, worker[w].pc = "aggregateNow")
      BY <1>1, <1>3 DEF Finish
    <2>2. CASE worker[w].pc = "aggregateNow"
      BY <1>0, <2>2 DEF DispatchKnows
    <2>3. CASE worker[w].pc # "aggregateNow"
      <3>1. (worker[w].pc = "aggregateNow") = FALSE
        BY <2>3
      <3> QED
        BY <1>2, <2>1, <3>1
    <2> QED
      BY <2>2, <2>3
  <1>4. ASSUME NEW w \in Worker, WorkerStep(w) \/ Throw(w) \/ Crash(w), ~Finish(w) PROVE FALSE
    BY <1>1, <1>4
    DEF WorkerStep, Take, ReadItems, Classify, CreateChild, MarkRead, MarkSave, Schedule, Release,
        Throw, Crash
  <1>5. ASSUME AggregationStep \/ CrashAggregation PROVE Pending(items) = {}
    <2>1. Aggregated
      BY <1>1, <1>5 DEF AggregationStep, Poll, UpdateRead, UpdateSave, CrashAggregation
    <2> QED
      BY <2>1 DEF Aggregated, Coverage, Scheduled
  <1>6. ASSUME NEW b \in Attempt, GraphStep(b) PROVE FALSE
    <2>1. \E g : \/ graph' = [graph EXCEPT ![b].pc = "done"]
                \/ graph' = [graph EXCEPT ![b].pc = "conclude", ![b].gate = g]
      BY <1>6 DEF GraphStep, Collect, Conclude
    <2> QED
      BY <1>0, <2>1 DEF GraphRecord
  <1>7. ~RecoverLease /\ ~RecoverJudging /\ ~(UNCHANGED vars) /\ \A i \in Item : ~ChildConcludes(i)
    BY <1>1 DEF RecoverLease, RecoverJudging, ChildConcludes, vars
  <1> QED
    BY <1>3, <1>4, <1>5, <1>6, <1>7 DEF Next

LEMMA CoverageKept ==
  ASSUME Typed, OneDispatcher, Coverage, [Next]_vars
  PROVE  Coverage'
PROOF
  <1>1. ItemsMove /\ (Scheduled => Scheduled')
    BY ItemsMoveAlways, ScheduleMoves
  <1>2. Faithful(items)'
    <2>1. Agrees(items', items, child)
      BY <1>1 DEF ItemsMove
    <2>2. Agrees(items', items', child')
      BY <1>1, <2>1, AgreesStays DEF ItemsMove
    <2> QED
      BY <2>2 DEF Faithful
  <1>3. Scheduled' => Pending(items)' = {}
    <2>1. CASE Scheduled
      BY <1>1, <2>1 DEF Coverage, ItemsMove
    <2>2. ASSUME NEW w \in Worker, Schedule(w) PROVE Pending(items)' = {}
      BY <1>1, <2>2 DEF Schedule, Coverage, DispatchKnows, ItemsMove
    <2> QED
      BY <2>1, <2>2, ScheduleMoves
  <1>4. ASSUME NEW w \in Worker PROVE DispatchKnows(w)'
    <2>1. CASE worker'[w] = worker[w]
      BY <1>1, <2>1, UnmovedKnows
    <2>2. CASE worker'[w] # worker[w]
      <3>1. WorkerStep(w) \/ Throw(w) \/ Crash(w)
        <4>1. ASSUME NEW v \in Worker, WorkerStep(v) \/ Throw(v) \/ Crash(v) PROVE v = w
          BY <2>2, <4>1, WorkerMoves DEF Typed
        <4>2. \E v \in Worker : WorkerStep(v) \/ Throw(v) \/ Crash(v)
          BY <2>2
          DEF Next, AggregationStep, Poll, UpdateRead, UpdateSave, Aggregated, CrashAggregation,
              RecoverLease, RecoverJudging, GraphStep, Collect, Conclude, ChildConcludes, vars
        <4> QED
          BY <4>1, <4>2
      <3> QED
        BY <1>1, <3>1, MovedKnows
    <2> QED
      BY <2>1, <2>2
  <1>5. ASSUME NEW i \in Item PROVE UpdateKnows(i)'
    BY <1>1, UpdatesKnow
  <1>6. AggregateMissesNoItem'
    <2> SUFFICES ASSUME NEW a \in Attempt, graph'[a].aggregate PROVE Pending(items)' = {}
      BY DEF AggregateMissesNoItem
    <2>1. CASE graph[a].aggregate
      BY <1>1, <2>1 DEF Coverage, AggregateMissesNoItem, ItemsMove
    <2>2. CASE ~graph[a].aggregate
      BY <1>1, <2>2, AggregateMoves DEF ItemsMove
    <2> QED
      BY <2>1, <2>2
  <1> QED
    BY <1>2, <1>3, <1>4, <1>5, <1>6 DEF Coverage

(***************************************************************************)
(* Gates.                                                                  *)
(***************************************************************************)
\* What the items say is to be believed, so a drafted pass has every child completed.
LEMMA DraftedPass ==
  ASSUME Typed, Coverage, NEW complete \in BOOLEAN, DraftGate(complete) = "pass"
  PROVE  AllCompleted
PROOF
  <1>1. ASSUME NEW i \in Item
        PROVE  items[i].bound /\ child[i] = "completed"
    <2>1. items[i].disposition \in TerminalDisposition \ {"failed", "blocked", "excluded"}
      BY DEF DraftGate
    <2>2. items[i].disposition = "executed"
      BY <2>1 DEF TerminalDisposition
    <2>3. items[i].bound /\ items[i].child
      BY <2>2 DEF Coverage, Faithful, Agrees, Typed, TypeOK, ItemRecord
    <2>4. ChildGate(child[i]) \in {ChildGate(child[j]) : j \in WithChild}
      BY <2>3 DEF WithChild
    <2>5. ChildGate(child[i]) \notin {"fail", "blocked", "needs-human-review"}
      BY <2>4 DEF DraftGate
    <2>6. child[i] = "completed"
      BY <2>5 DEF ChildGate
    <2> QED
      BY <2>3, <2>6
  <1> QED
    BY <1>1 DEF AllCompleted

LEMMA CompletedStays ==
  ASSUME ItemsMove, AllCompleted
  PROVE  AllCompleted'
  BY DEF AllCompleted, ItemsMove, Agrees, ChildrenStay, Concluded, ClosedState, TerminalState

\* What a step may do to the gates.
GatesMove ==
  /\ \A a \in Attempt : graph'[a].gate = "pass" => graph[a].gate = "pass" \/ AllCompleted
  /\ parent'.machineGate = "pass" => parent.machineGate = "pass" \/ AllCompleted
  /\ parent'.gateStatus = "pass" => parent.gateStatus = "pass" \/ AllCompleted

LEMMA GraphGates ==
  ASSUME Typed, Coverage, Gates, NEW a \in Attempt, GraphStep(a)
  PROVE  GatesMove
PROOF
  <1>0. graph \in [Attempt -> GraphRecord]
    BY DEF Typed, TypeOK
  <1>1. CASE graph' = [graph EXCEPT ![a].pc = "done"] /\ UNCHANGED parent
    BY <1>0, <1>1 DEF GatesMove, GraphRecord
  <1>2. CASE Collect(a) /\ ~(graph' = [graph EXCEPT ![a].pc = "done"] /\ UNCHANGED parent)
    <2>1. PICK g \in GateStatus, complete \in BOOLEAN :
            /\ g = "pass" => graph[a].aggregate /\ DraftGate(complete) = "pass"
            /\ parent'.gateStatus = parent.gateStatus /\ parent'.machineGate = g
            /\ graph' = [graph EXCEPT ![a].pc = "conclude", ![a].gate = g]
      BY <1>2, CollectMoves
    <2>2. g = "pass" => AllCompleted
      BY <2>1, DraftedPass
    <2>3. \A b \in Attempt : graph'[b].gate \in {graph[b].gate, g}
      BY <1>0, <2>1 DEF GraphRecord
    <2> QED
      BY <2>1, <2>2, <2>3 DEF GatesMove
  <1>3. CASE Conclude(a)
    <2>1. /\ graph[a].gate \in GateStatus /\ parent.state \in {"judging"} \cup ClosedState
          /\ graph' = [graph EXCEPT ![a].pc = "done"]
      BY <1>3 DEF Conclude, Typed, Judging
    <2>2. \A b \in Attempt : graph'[b].gate = graph[b].gate
      BY <1>0, <2>1 DEF GraphRecord
    <2>3. CASE UNCHANGED parent
      BY <2>2, <2>3 DEF GatesMove
    <2>4. CASE ~UNCHANGED parent
      <3> DEFINE final == resolveFinalStatus(graph[a].gate, Recommended(graph[a].gate), Absent)
      <3>1. /\ parent.state = "judging"
            /\ Parent(ConclusionType(graph[a].aggregate, final),
                      [NoPayload EXCEPT !.machineGate = graph[a].gate, !.finalStatus = final])
        BY <1>3, <2>1, <2>4 DEF Conclude
      <3>2. graph[a].aggregate \in BOOLEAN
        BY <1>0 DEF GraphRecord
      <3>3. /\ parent'.machineGate = graph[a].gate
            /\ parent'.gateStatus = "pass" => graph[a].gate = "pass" \/ parent.gateStatus = "pass"
        BY <2>1, <3>1, <3>2, ConclusionMoves
      <3> QED
        BY <2>2, <3>3 DEF GatesMove, Gates
    <2> QED
      BY <2>3, <2>4
  <1> QED
    BY <1>1, <1>2, <1>3 DEF GraphStep

LEMMA GatesMoveAlways ==
  ASSUME Typed, Coverage, Gates, [Next]_vars
  PROVE  GatesMove
PROOF
  <1>0. TypeOK /\ Judging
    BY DEF Typed
  <1>1. CASE UNCHANGED <<parent, graph>>
    BY <1>1 DEF GatesMove
  <1>2. ASSUME UNCHANGED graph, parent'.gateStatus = parent.gateStatus,
               parent'.machineGate = parent.machineGate
        PROVE  GatesMove
    BY <1>2 DEF GatesMove
  <1>3. ASSUME parent.state = "running", NEW a, NEW aggregate \in BOOLEAN, BeginEvidence(a, aggregate)
        PROVE  GatesMove
    <2>1. /\ parent'.gateStatus = parent.gateStatus /\ parent'.machineGate = parent.machineGate
          /\ \A b \in Attempt : graph'[b].gate \in {graph[b].gate, Absent}
      BY <1>0, <1>3, EvidenceTyped
    <2>2. Absent # "pass"
      BY DEF Absent
    <2> QED
      BY <2>1, <2>2 DEF GatesMove
  <1>4. ASSUME NEW w \in Worker, WorkerStep(w) \/ Throw(w) \/ Crash(w)
        PROVE  GatesMove
    <2>1. CASE Take(w)
      <3>1. CASE UNCHANGED parent
        BY <1>2, <2>1, <3>1 DEF Take
      <3>2. CASE ~UNCHANGED parent
        <4>1. PICK v \in queue :
                /\ parent.state = "queued"
                /\ parent' = applyEvent(applyEvent(parent, "run_preparing", NoPayload),
                               "run_started", [NoPayload EXCEPT !.attempt = v, !.generation = v])
          BY <2>1, <3>2 DEF Take
        <4>2. v \in Attempt
          BY <1>0 DEF TypeOK
        <4>3. parent'.gateStatus = parent.gateStatus /\ parent'.machineGate = parent.machineGate
          BY <1>0, <4>1, <4>2, TakeMoves
        <4> QED
          BY <1>2, <2>1, <4>3 DEF Take
      <3> QED
        BY <3>1, <3>2
    <2>2. CASE Finish(w)
      BY <1>2, <1>3, <2>2 DEF Finish
    <2> QED
      BY <1>2, <1>4, <2>1, <2>2
      DEF WorkerStep, ReadItems, Classify, CreateChild, MarkRead, MarkSave, Schedule, Release, Throw, Crash
  <1>5. CASE AggregationStep \/ CrashAggregation
    <2>1. CASE Aggregated
      BY <1>2, <1>3, <2>1 DEF Aggregated
    <2> QED
      BY <1>2, <1>5, <2>1 DEF AggregationStep, Poll, UpdateRead, UpdateSave, CrashAggregation
  <1>6. CASE RecoverLease
    BY <1>2, <1>6, RetryMoves DEF RecoverLease
  <1>7. CASE RecoverJudging
    <2> DEFINE gate == parent.machineGate
               final == resolveFinalStatus(gate, Recommended(gate), Absent)
    <2>1. /\ parent.state = "judging" /\ gate \in GateStatus /\ UNCHANGED graph
          /\ Parent(TerminalEventOf(final), [NoPayload EXCEPT !.machineGate = gate, !.finalStatus = final])
      BY <1>0, <1>7 DEF RecoverJudging, Judging
    <2>2. /\ parent'.machineGate = gate
          /\ parent'.gateStatus = "pass" => gate = "pass" \/ parent.gateStatus = "pass"
      BY <2>1, ConclusionMoves
    <2> QED
      BY <2>1, <2>2 DEF GatesMove, Gates
  <1>8. CASE (\E i \in Item : ChildConcludes(i)) \/ UNCHANGED vars
    BY <1>2, <1>8 DEF ChildConcludes, vars
  <1> QED
    BY <1>4, <1>5, <1>6, <1>7, <1>8, GraphGates DEF Next

LEMMA GatesKept ==
  ASSUME Typed, Coverage, Gates, [Next]_vars
  PROVE  Gates'
PROOF
  <1>1. AllCompleted => AllCompleted'
    BY ItemsMoveAlways, CompletedStays
  <1> QED
    BY <1>1, GatesMoveAlways DEF Gates, GatesMove

(***************************************************************************)
(* The theorems.                                                           *)
(***************************************************************************)
LEMMA InitInv == Init => Inv
PROOF
  <1> SUFFICES ASSUME Init PROVE Inv
    OBVIOUS
  <1> USE DEF Init
  <1>1. /\ parent \in Projection /\ parent.state = "queued"
        /\ parent.machineGate = Absent /\ parent.gateStatus = Absent
    BY DEF DraftRun, Projection, RunState, RunKind, ExecutionStatus, GateStatus
  <1>2. items \in [Item -> ItemRecord]
    <2>1. ASSUME NEW d \in {"pending", "blocked", "excluded"}, NEW bound \in BOOLEAN
          PROVE  Planned(d, bound) \in ItemRecord
      BY DEF Planned, ItemRecord, Disposition
    <2>2. {Planned("pending", TRUE), Planned("pending", FALSE), Planned("blocked", FALSE),
           Planned("excluded", FALSE)} \subseteq ItemRecord
      BY <2>1
    <2> QED
      BY <2>2
  <1>3. /\ child \in [Item -> {"none", "queued"} \cup Outcome]
        /\ worker \in [Worker -> WorkerRecord] /\ job \in JobRecord
        /\ graph \in [Attempt -> GraphRecord] /\ queue \subseteq Attempt
        /\ lease \in Attempt \cup {None} /\ faults \in 0 .. MaxFaults
    BY CoverageConstants
    DEF WorkerRecord, Idle, NoSnapshot, ItemRecord, Disposition, JobRecord, NoJob, NoUpdate,
        UpdateRecord, GraphRecord, NoGraph, GateStatus, Absent
  <1>4. Typed
    BY <1>1, <1>2, <1>3, CoverageConstants
    DEF Typed, TypeOK, Judging, NoGraph, NoJob
  <1>5. OneDispatcher
    BY DEF OneDispatcher, Idle
  <1>6. Coverage
    <2>1. Faithful(items)
      BY DEF Faithful, Agrees, Planned
    <2>2. ~Scheduled /\ \A i \in Item : UpdateKnows(i)
      BY DEF Scheduled, NoJob, NoUpdate, UpdateKnows
    <2>3. \A w \in Worker : DispatchKnows(w)
      BY DEF DispatchKnows, Idle
    <2> QED
      BY <2>1, <2>2, <2>3 DEF Coverage, AggregateMissesNoItem, NoGraph
  <1>7. Gates
    BY <1>1 DEF Gates, NoGraph, Absent
  <1> QED
    BY <1>4, <1>5, <1>6, <1>7 DEF Inv

\* Inv holds whatever workers, jobs, children and recoveries do.
THEOREM InvAlways == Spec => []Inv
PROOF
  <1>1. Inv /\ [Next]_vars => Inv'
    BY TypedKept, OneDispatcherKept, CoverageKept, GatesKept DEF Inv
  <1> QED
    BY InitInv, <1>1, PTL DEF Spec

\* Every variable has its type.
THEOREM TypeCorrect == Spec => []TypeOK
PROOF
  <1>1. Inv => TypeOK
    BY DEF Inv, Typed
  <1> QED
    BY <1>1, InvAlways, PTL

\* A parent that passes has had every item executed by a child that completed,
\* however often its dispatch and its aggregation were broken off and repeated
\* (dispatchParentCoverageRun, aggregateParentCoverageRun, collect-and-gate).
THEOREM PassMeansCompletion == Spec => []PassMeansEveryChildCompleted
PROOF
  <1>1. Inv => PassMeansEveryChildCompleted
    BY DEF Inv, Gates, AllCompleted, PassMeansEveryChildCompleted
  <1> QED
    BY <1>1, InvAlways, PTL

\* The read-all, save-all updates of the coverage items never leave an item executed
\* or failed that is not (updateCoverageDisposition).
THEOREM DispositionsAreFaithful == Spec => []DispositionNeverOverstates
PROOF
  <1>1. Inv => DispositionNeverOverstates
    BY DEF Inv, Coverage, Faithful, Agrees, DispositionNeverOverstates, Concluded
  <1> QED
    BY <1>1, InvAlways, PTL

\* An aggregate is drafted only of coverage that has nothing left to dispatch, however
\* many dispatches were killed or threw on the way (dispatchParentCoverageRun,
\* aggregateParentCoverageRun).
THEOREM AggregatesMissNothing == Spec => []AggregateMissesNoItem
PROOF
  <1>1. Inv => AggregateMissesNoItem
    BY DEF Inv, Coverage
  <1> QED
    BY <1>1, InvAlways, PTL

(***************************************************************************)
(* The parent is an abstract run, but for the worker that takes it: what   *)
(* it appends, run_preparing and run_started, is one step of Take.         *)
(***************************************************************************)
Abstract == INSTANCE AbstractRun WITH run <- parent

\* The events that dispatch, aggregation, judgement and recovery append.
ParentEvent ==
  { "evidence_collecting", "run_judging", "run_retrying", "human_review_requested",
    "parent_aggregate_completed", "parent_aggregate_blocked", "run_completed", "run_failed",
    "run_blocked" }

\* Two events, of which the second binds the attempt.
Taken ==
  /\ parent.state = "queued" /\ parent'.state = "running"
  /\ parent'.version = parent.version + 2
  /\ parent'.gateStatus = parent.gateStatus

LEMMA ParentEventIsAbstract ==
  ASSUME TypeOK, NEW type \in ParentEvent, NEW pay \in Payload, NEW to,
         <<parent.state, type, to>> \in transitions, Parent(type, pay)
  PROVE  Abstract!Next
PROOF
  <1> DEFINE p == parent
             q == applyEvent(p, type, pay)
             next == transitionRunState(p.state, type)
  <1>1. p \in Projection /\ parent' = q /\ type \in EventType
    BY DEF TypeOK, Parent, ParentEvent, EventType
  <1>2. CanTransition(p.state, type)
    BY DEF CanTransition, transitions, openTransitions, closedTransitions, RunState
  <1>3. /\ <<p.state, type, next>> \in transitions
        /\ q.version = p.version + 1
        /\ type # "run_resumed" => q.state = next
        /\ type \notin {"run_started", "run_retrying"} =>
             q.attempt = p.attempt /\ q.generation = p.generation
        /\ type = "run_retrying" => q.attempt = None /\ q.generation = 0
        /\ q.gateStatus = NextGateStatus(p, type, pay)
    BY <1>1, <1>2, ApplyMoves
  <1> HIDE DEF p, q, next
  <1> USE DEF p, Abstract!Next, Abstract!Move, Abstract!KeepOwner, Abstract!KeepGate,
              transitions, openTransitions, closedTransitions, NextGateStatus
  <1>4. CASE type \in {"evidence_collecting", "run_judging"}
    <2>1. Abstract!Judge
      BY <1>1, <1>3, <1>4 DEF Abstract!Judge
    <2> QED
      BY <2>1
  <1>5. CASE type = "run_retrying"
    <2>1. Abstract!Retry
      BY <1>1, <1>3, <1>5 DEF Abstract!Retry
    <2> QED
      BY <2>1
  <1>6. CASE type = "human_review_requested"
    <2>1. Abstract!Review
      BY <1>1, <1>3, <1>6 DEF Abstract!Review
    <2> QED
      BY <2>1
  <1>7. CASE type \in { "parent_aggregate_completed", "parent_aggregate_blocked", "run_completed",
                        "run_failed", "run_blocked" }
    <2>1. Abstract!Conclude
      BY <1>1, <1>3, <1>7
      DEF Abstract!Conclude, Abstract!RunState, Abstract!TerminalState, Abstract!Absent, Absent, Payload
    <2> QED
      BY <2>1
  <1> QED
    BY <1>4, <1>5, <1>6, <1>7 DEF ParentEvent

LEMMA EvidenceIsAbstract ==
  ASSUME TypeOK, parent.state = "running", NEW a, NEW aggregate, BeginEvidence(a, aggregate)
  PROVE  Abstract!Next
PROOF
  <1>1. /\ <<"running", "evidence_collecting", "collecting">> \in transitions
        /\ "evidence_collecting" \in ParentEvent
    BY DEF transitions, openTransitions, closedTransitions, ParentEvent
  <1>2. Parent("evidence_collecting", NoPayload)
    BY DEF BeginEvidence
  <1> QED
    BY <1>1, <1>2, NoPayloadTyped, ParentEventIsAbstract

\* The conclusion from a gate, by the continuation or by the recoverer.
LEMMA ConclusionIsAbstract ==
  ASSUME TypeOK, parent.state = "judging", NEW gate \in GateStatus, NEW type,
         LET final == resolveFinalStatus(gate, Recommended(gate), Absent)
         IN  /\ \/ type = TerminalEventOf(final)
                \/ \E aggregate \in BOOLEAN : type = ConclusionType(aggregate, final)
             /\ Parent(type, [NoPayload EXCEPT !.machineGate = gate, !.finalStatus = final])
  PROVE  Abstract!Next
PROOF
  <1> DEFINE final == resolveFinalStatus(gate, Recommended(gate), Absent)
             pay == [NoPayload EXCEPT !.machineGate = gate, !.finalStatus = final]
  <1>1. final \in GateStatus /\ ConcludesBy(type)
    BY FinalTyped
  <1>2. type \in ParentEvent
    BY DEF TerminalEventOf, ConclusionType, ParentEvent
  <1>3. pay \in Payload
    BY <1>1, GatePayloadTyped
  <1>4. PICK to : <<parent.state, type, to>> \in transitions
    BY <1>1 DEF ConcludesBy
  <1>5. Parent(type, pay)
    OBVIOUS
  <1> HIDE DEF pay, final
  <1> QED
    BY <1>2, <1>3, <1>4, <1>5, ParentEventIsAbstract

LEMMA GraphIsAbstract ==
  ASSUME Typed, NEW a \in Attempt, GraphStep(a)
  PROVE  Abstract!Next \/ UNCHANGED parent
PROOF
  <1>0. TypeOK /\ Judging /\ graph[a] \in GraphRecord
    BY DEF Typed, TypeOK
  <1>1. CASE Collect(a)
    <2>1. CASE UNCHANGED parent
      BY <2>1
    <2>2. CASE ~UNCHANGED parent
      <3>1. PICK complete \in BOOLEAN :
              \E g \in IF graph[a].aggregate THEN MintedGates(DraftGate(complete))
                                             ELSE {"fail", "blocked", "needs-human-review"} :
                /\ parent.state = "collecting"
                /\ Parent("run_judging", [NoPayload EXCEPT !.machineGate = g])
        BY <1>1, <2>2 DEF Collect
      <3>2. DraftGate(complete) \in GateStatus
        BY DEF DraftGate, GateStatus
      <3>3. PICK g \in GateStatus :
              /\ parent.state = "collecting"
              /\ Parent("run_judging", [NoPayload EXCEPT !.machineGate = g])
        BY <3>1, <3>2 DEF MintedGates, GateStatus
      <3>4. /\ <<"collecting", "run_judging", "judging">> \in transitions
            /\ "run_judging" \in ParentEvent
        BY DEF transitions, openTransitions, closedTransitions, ParentEvent
      <3>5. [NoPayload EXCEPT !.machineGate = g] \in Payload
        BY GatePayloadTyped
      <3> QED
        BY <1>0, <3>3, <3>4, <3>5, ParentEventIsAbstract
    <2> QED
      BY <2>1, <2>2
  <1>2. CASE Conclude(a)
    <2>1. CASE parent.state \in ClosedState
      BY <1>2, <2>1 DEF Conclude
    <2>2. CASE parent.state \notin ClosedState
      <3>1. parent.state = "judging" /\ graph[a].gate \in GateStatus
        BY <1>0, <1>2, <2>2 DEF Judging, Conclude
      <3>2. graph[a].aggregate \in BOOLEAN
        BY <1>0 DEF GraphRecord
      <3> DEFINE gate == graph[a].gate
                 final == resolveFinalStatus(gate, Recommended(gate), Absent)
                 type == ConclusionType(graph[a].aggregate, final)
      <3>3. Parent(type, [NoPayload EXCEPT !.machineGate = gate, !.finalStatus = final])
        BY <1>2, <2>2 DEF Conclude
      <3>4. \E aggregate \in BOOLEAN : type = ConclusionType(aggregate, final)
        BY <3>2
      <3> HIDE DEF type
      <3> QED
        BY <1>0, <3>1, <3>3, <3>4, ConclusionIsAbstract
    <2> QED
      BY <2>1, <2>2
  <1> QED
    BY <1>1, <1>2 DEF GraphStep

\* Whatever dispatch, aggregation, continuations, faults and recoveries do, the parent
\* takes only steps of the abstract run, and those two at a time where a worker takes it.
THEOREM ParentImplementsAbstractRun == Spec => [][Abstract!Next \/ Taken]_parent
PROOF
  <1>1. Typed /\ [Next]_vars => [Abstract!Next \/ Taken]_parent
    <2> SUFFICES ASSUME Typed, [Next]_vars PROVE [Abstract!Next \/ Taken]_parent
      OBVIOUS
    <2>0. TypeOK /\ Judging
      BY DEF Typed
    <2>1. ASSUME NEW w \in Worker, Take(w)
          PROVE  Taken \/ UNCHANGED parent
      <3>1. PICK v \in queue :
              \/ UNCHANGED parent
              \/ /\ parent.state = "queued"
                 /\ parent' = applyEvent(applyEvent(parent, "run_preparing", NoPayload),
                                "run_started", [NoPayload EXCEPT !.attempt = v, !.generation = v])
        BY <2>1 DEF Take
      <3>2. v \in Attempt
        BY <2>0 DEF TypeOK
      <3> QED
        BY <2>0, <3>1, <3>2, TakeMoves DEF Taken
    <2>2. ASSUME NEW w \in Worker, Finish(w)
          PROVE  Abstract!Next \/ UNCHANGED parent
      BY <2>0, <2>2, EvidenceIsAbstract DEF Finish
    <2>3. ASSUME NEW w \in Worker, WorkerStep(w) \/ Throw(w) \/ Crash(w), ~Take(w), ~Finish(w)
          PROVE  UNCHANGED parent
      BY <2>3 DEF WorkerStep, Throw, Crash, ReadItems, Classify, CreateChild, MarkRead, MarkSave, Schedule,
                  Release
    <2>4. ASSUME NEW i \in Item, ChildConcludes(i) \/ UpdateRead(i) \/ UpdateSave(i)
          PROVE  UNCHANGED parent
      BY <2>4 DEF ChildConcludes, UpdateRead, UpdateSave
    <2>5. CASE Poll \/ CrashAggregation
      BY <2>5 DEF Poll, CrashAggregation
    <2>6. CASE Aggregated
      BY <2>0, <2>6, EvidenceIsAbstract DEF Aggregated
    <2>7. CASE RecoverLease
      <3>1. /\ <<"running", "run_retrying", "queued">> \in transitions
            /\ "run_retrying" \in ParentEvent
        BY DEF transitions, openTransitions, closedTransitions, ParentEvent
      <3> QED
        BY <2>0, <2>7, <3>1, NoPayloadTyped, ParentEventIsAbstract DEF RecoverLease
    <2>8. CASE RecoverJudging
      <3> DEFINE gate == parent.machineGate
                 final == resolveFinalStatus(gate, Recommended(gate), Absent)
                 type == TerminalEventOf(final)
      <3>1. parent.state = "judging" /\ gate \in GateStatus
        BY <2>0, <2>8 DEF RecoverJudging, Judging
      <3>2. Parent(type, [NoPayload EXCEPT !.machineGate = gate, !.finalStatus = final])
        BY <2>8 DEF RecoverJudging
      <3>3. type = TerminalEventOf(final)
        OBVIOUS
      <3> HIDE DEF type, gate
      <3> QED
        BY <2>0, <3>1, <3>2, <3>3, ConclusionIsAbstract
    <2>9. CASE UNCHANGED vars
      BY <2>9 DEF vars
    <2>10. ASSUME NEW a \in Attempt, GraphStep(a)
           PROVE  Abstract!Next \/ UNCHANGED parent
      BY <2>10, GraphIsAbstract
    <2> QED
      BY <2>1, <2>2, <2>3, <2>4, <2>5, <2>6, <2>7, <2>8, <2>9, <2>10
      DEF Next, AggregationStep
  <1>2. Inv => Typed
    BY DEF Inv
  <1> QED
    BY <1>1, <1>2, InvAlways, PTL DEF Spec

(***************************************************************************)
(* What the coverage says once it is aggregated.  Where no process dies    *)
(* and no dispatch throws, the parent is dispatched once and aggregated    *)
(* once; where besides one item at most has an executor, nothing writes    *)
(* the items between the read and the save of its update.                  *)
(***************************************************************************)
OneExecutor == \A i, j \in Item : items[i].bound /\ items[j].bound => i = j

Uninterrupted ==
  /\ faults = 0
  /\ lease # None => \E w \in Worker : worker[w].pc # "idle"
  /\ \A w \in Worker :
       worker[w].pc \notin {"idle", "release"} => parent.state = "running" /\ ~Scheduled
  /\ Scheduled => parent.state # "queued"
  /\ job.pc \in {"waiting", "updating", "failed"} => parent.state = "running"

Reported(i) == items[i].child => items[i].disposition = DispositionOf(child[i])

Reporting ==
  /\ job.pc = "updating" => \A i \in Item :
       /\ job.update[i].pc # "none" \/ Reported(i)
       /\ job.update[i].pc = "save" => job.update[i].snapshot = items
  /\ job.pc = "done" => parent.state = "running" \/ \A i \in Item : Reported(i)

AggregateInv == Uninterrupted /\ (OneExecutor => Reporting)

\* A lease that somebody holds is not recovered.
LEMMA NothingToRecover ==
  ASSUME OneDispatcher, Uninterrupted
  PROVE  ~RecoverLease
  BY DEF OneDispatcher, Uninterrupted, RecoverLease, LeaseFree, Holder

\* How the parent moves on, where no lease is recovered.
LEMMA ParentTurns ==
  ASSUME Typed, [Next]_vars, ~RecoverLease
  PROVE  \/ UNCHANGED parent
         \/ /\ \E w \in Worker : Take(w)
            /\ parent.state = "queued" /\ parent'.state = "running"
         \/ /\ Aggregated \/ \E w \in Worker : Finish(w)
            /\ parent.state = "running" /\ parent'.state = "collecting"
         \/ /\ parent.state \in {"collecting", "judging"}
            /\ parent'.state \in {"judging"} \cup ClosedState
            /\ UNCHANGED <<items, child, worker, job>>
PROOF
  <1>0. TypeOK /\ Judging
    BY DEF Typed
  <1>1. ASSUME NEW w \in Worker, Take(w), ~UNCHANGED parent
        PROVE  parent.state = "queued" /\ parent'.state = "running"
    <2>1. PICK v \in queue :
            /\ parent.state = "queued"
            /\ parent' = applyEvent(applyEvent(parent, "run_preparing", NoPayload),
                           "run_started", [NoPayload EXCEPT !.attempt = v, !.generation = v])
      BY <1>1 DEF Take
    <2> QED
      BY <1>0, <2>1, TakeMoves DEF TypeOK
  <1>2. ASSUME NEW w \in Worker, Finish(w), ~UNCHANGED parent
        PROVE  parent.state = "running" /\ parent'.state = "collecting"
    <2>1. /\ parent.state = "running"
          /\ BeginEvidence(worker[w].attempt, worker[w].pc = "aggregateNow")
          /\ (worker[w].pc = "aggregateNow") \in BOOLEAN
      BY <1>2 DEF Finish
    <2> QED
      BY <1>0, <2>1, EvidenceTyped
  <1>3. ASSUME Aggregated, ~UNCHANGED parent
        PROVE  parent.state = "running" /\ parent'.state = "collecting"
    BY <1>0, <1>3, EvidenceTyped DEF Aggregated
  <1>4. ASSUME NEW a \in Attempt, GraphStep(a), ~UNCHANGED parent
        PROVE  /\ parent.state \in {"collecting", "judging"}
               /\ parent'.state \in {"judging"} \cup ClosedState
               /\ UNCHANGED <<items, child, worker, job>>
    <2>1. CASE Collect(a)
      BY <1>4, <2>1, CollectMoves DEF Collect
    <2>2. CASE Conclude(a)
      <3>1. graph[a].pc = "conclude" /\ parent.state \notin ClosedState
        BY <1>4, <2>2 DEF Conclude
      <3>2. parent.state = "judging" /\ graph[a].gate \in GateStatus /\ graph[a].aggregate \in BOOLEAN
        BY <1>0, <3>1 DEF Judging, TypeOK, GraphRecord
      <3>3. parent'.state \in ClosedState
        BY <2>2, <3>1, <3>2, ConclusionMoves DEF Conclude
      <3> QED
        BY <2>2, <3>2, <3>3 DEF Conclude
    <2> QED
      BY <1>4, <2>1, <2>2 DEF GraphStep
  <1>5. ASSUME RecoverJudging
        PROVE  /\ parent.state = "judging" /\ parent'.state \in ClosedState
               /\ UNCHANGED <<items, child, worker, job>>
    BY <1>0, <1>5, ConclusionMoves DEF RecoverJudging, Judging
  <1>6. ASSUME NEW w \in Worker, WorkerStep(w) \/ Throw(w) \/ Crash(w), ~Take(w), ~Finish(w)
        PROVE  UNCHANGED parent
    BY <1>6
    DEF WorkerStep, Throw, Crash, ReadItems, Classify, CreateChild, MarkRead, MarkSave, Schedule, Release
  <1>7. CASE \/ Poll \/ CrashAggregation \/ UNCHANGED vars
             \/ \E i \in Item : ChildConcludes(i) \/ UpdateRead(i) \/ UpdateSave(i)
    BY <1>7 DEF Poll, CrashAggregation, ChildConcludes, UpdateRead, UpdateSave, vars
  <1> QED
    BY <1>1, <1>2, <1>3, <1>4, <1>5, <1>6, <1>7 DEF Next, AggregationStep

\* A dispatcher's step, seen by its own program counter.
LEMMA DispatcherTurns ==
  ASSUME TypeOK, NEW w \in Worker, WorkerStep(w), ~Take(w)
  PROVE  \/ /\ worker[w].pc \notin {"idle", "release"} /\ worker'[w].pc \notin {"idle", "release"}
            /\ UNCHANGED <<parent, lease, job>>
         \/ /\ worker[w].pc \notin {"idle", "release"} /\ worker'[w].pc = "release"
            /\ UNCHANGED <<items, lease>> /\ (Schedule(w) \/ Finish(w))
         \/ /\ worker[w].pc = "release" /\ worker'[w].pc = "idle"
            /\ lease' = (IF lease = worker[w].attempt THEN None ELSE lease)
            /\ UNCHANGED <<parent, items, job>>
PROOF
  <1>0. worker \in [Worker -> WorkerRecord] /\ worker[w] \in WorkerRecord
    BY DEF TypeOK
  <1>1. CASE ReadItems(w)
    BY <1>0, <1>1 DEF ReadItems, WorkerRecord
  <1>2. CASE Classify(w)
    <2>1. AfterClassify(worker[w].snapshot) \notin {"idle", "release"}
      BY DEF AfterClassify
    <2> QED
      BY <1>0, <1>2, <2>1 DEF Classify, WorkerRecord
  <1>3. CASE CreateChild(w)
    BY <1>0, <1>3 DEF CreateChild, WorkerRecord
  <1>4. CASE MarkRead(w)
    BY <1>0, <1>4 DEF MarkRead, WorkerRecord
  <1>5. CASE MarkSave(w)
    BY <1>0, <1>5 DEF MarkSave, WorkerRecord
  <1>6. CASE Schedule(w)
    BY <1>0, <1>6 DEF Schedule, WorkerRecord
  <1>7. CASE Finish(w)
    BY <1>0, <1>7 DEF Finish, WorkerRecord
  <1>8. CASE Release(w)
    BY <1>0, <1>8 DEF Release, WorkerRecord, Idle
  <1> QED
    BY <1>1, <1>2, <1>3, <1>4, <1>5, <1>6, <1>7, <1>8 DEF WorkerStep

LEMMA UninterruptedInitially == Init /\ MaxFaults = 0 => Uninterrupted
  BY DEF Init, Uninterrupted, Idle, Scheduled, NoJob

LEMMA UninterruptedKept ==
  ASSUME Typed, OneDispatcher, Coverage, Uninterrupted, [Next]_vars
  PROVE  Uninterrupted'
PROOF
  <1>0. TypeOK /\ worker \in [Worker -> WorkerRecord] /\ job \in JobRecord
    BY DEF Typed, TypeOK
  <1>1. ~RecoverLease
    BY NothingToRecover
  <1>2. faults = 0 /\ (\A w \in Worker : ~Crash(w) /\ ~Throw(w)) /\ ~CrashAggregation
    BY DEF Uninterrupted, Crash, Throw, CrashAggregation
  <1>3. faults' = 0
    BY <1>1, <1>2, ZenonT(60)
    DEF Next, WorkerStep, Take, ReadItems, Classify, CreateChild, MarkRead, MarkSave, Schedule, Finish,
        Release, ChildConcludes, AggregationStep, Poll, UpdateRead, UpdateSave, Aggregated, GraphStep,
        Collect, Conclude, RecoverJudging, vars
  <1>4. (\E w \in Worker : WorkerStep(w)) \/ (UNCHANGED worker /\ (lease' = lease \/ lease' = None))
    BY <1>1, <1>2
    DEF Next, ChildConcludes, AggregationStep, Poll, UpdateRead, UpdateSave, Aggregated, GraphStep,
        Collect, Conclude, RecoverJudging, vars
  <1>5. (\E w \in Worker : Schedule(w)) \/ AggregationStep \/ UNCHANGED job
    BY <1>1, <1>2
    DEF Next, WorkerStep, Take, ReadItems, Classify, CreateChild, MarkRead, MarkSave, Finish, Release,
        ChildConcludes, GraphStep, Collect, Conclude, RecoverJudging, vars
  <1>6. ASSUME NEW w \in Worker, Take(w)
        PROVE  \/ UNCHANGED <<worker, lease, parent, job>>
               \/ /\ worker'[w].pc = "read" /\ UNCHANGED job
                  /\ parent.state = "queued" /\ parent'.state = "running"
    <2>1. PICK v \in queue :
            \/ UNCHANGED <<worker, lease, parent>>
            \/ /\ parent.state = "queued"
               /\ worker' = [worker EXCEPT ![w] = [Idle EXCEPT !.pc = "read", !.attempt = v]]
               /\ parent' = applyEvent(applyEvent(parent, "run_preparing", NoPayload),
                              "run_started", [NoPayload EXCEPT !.attempt = v, !.generation = v])
      BY <1>6 DEF Take
    <2>2. UNCHANGED job
      BY <1>6 DEF Take
    <2>3. CASE UNCHANGED <<worker, lease, parent>>
      BY <2>2, <2>3
    <2>4. CASE ~UNCHANGED <<worker, lease, parent>>
      <3>1. worker'[w].pc = "read"
        BY <1>0, <2>1, <2>4 DEF Idle
      <3>2. parent.state = "queued" /\ parent'.state = "running"
        BY <1>0, <2>1, <2>4, TakeMoves DEF TypeOK
      <3> QED
        BY <2>2, <3>1, <3>2
    <2> QED
      BY <2>3, <2>4
  <1>7. lease' # None => \E w \in Worker : worker'[w].pc # "idle"
    <2>1. CASE UNCHANGED worker /\ (lease' = lease \/ lease' = None)
      BY <2>1 DEF Uninterrupted
    <2>2. ASSUME NEW w \in Worker, Take(w)
          PROVE  lease' # None => \E v \in Worker : worker'[v].pc # "idle"
      BY <1>6, <2>1, <2>2
    <2>3. ASSUME NEW w \in Worker, WorkerStep(w), ~Take(w)
          PROVE  lease' # None => worker'[w].pc # "idle"
      <3>1. worker[w].pc = "release" => lease = worker[w].attempt
        BY DEF OneDispatcher
      <3> QED
        BY <1>0, <2>3, <3>1, DispatcherTurns
    <2> QED
      BY <1>4, <2>1, <2>2, <2>3
  <1>8. ASSUME NEW v \in Worker, worker'[v].pc \notin {"idle", "release"}
        PROVE  parent'.state = "running" /\ ~Scheduled'
    <2>1. CASE worker'[v] = worker[v]
      <3>1. parent.state = "running" /\ ~Scheduled
        BY <1>8, <2>1 DEF Uninterrupted
      <3>2. ~Scheduled'
        BY <1>8, <2>1, <3>1, OthersQuiet
      <3>3. ASSUME NEW w \in Worker, Finish(w) PROVE FALSE
        <4>1. worker[w].pc # "idle"
          BY <3>3 DEF Finish
        <4>2. w = v
          BY <1>8, <2>1, <4>1 DEF OneDispatcher
        <4>3. worker'[w].pc = "release"
          BY <1>0, <3>3 DEF Finish, WorkerRecord
        <4> QED
          BY <1>8, <4>2, <4>3
      <3>4. ~Aggregated
        BY <3>1 DEF Aggregated, Scheduled
      <3> QED
        BY <1>1, <3>1, <3>2, <3>3, <3>4, ParentTurns
    <2>2. CASE worker'[v] # worker[v]
      <3>1. PICK w \in Worker : WorkerStep(w)
        BY <1>4, <2>2
      <3>2. w = v
        BY <1>0, <2>2, <3>1, WorkerMoves
      <3>3. CASE Take(v)
        <4>1. UNCHANGED job /\ parent.state = "queued" /\ parent'.state = "running"
          BY <1>6, <2>2, <3>3
        <4> QED
          BY <4>1 DEF Uninterrupted, Scheduled
      <3>4. CASE ~Take(v)
        <4>1. worker[v].pc \notin {"idle", "release"} /\ UNCHANGED <<parent, job>>
          BY <1>0, <1>8, <3>1, <3>2, <3>4, DispatcherTurns
        <4> QED
          BY <4>1 DEF Uninterrupted, Scheduled
      <3> QED
        BY <3>3, <3>4
    <2> QED
      BY <2>1, <2>2
  <1>9. ASSUME NEW w \in Worker, Schedule(w)
        PROVE  parent.state = "running" /\ UNCHANGED parent
    BY <1>9 DEF Schedule, Uninterrupted
  <1>10. Scheduled' => parent'.state # "queued"
    <2>1. CASE Scheduled
      <3>1. "queued" \notin {"judging"} \cup ClosedState
        BY DEF ClosedState, TerminalState
      <3> QED
        BY <1>1, <2>1, <3>1, ParentTurns DEF Uninterrupted
    <2>2. CASE ~Scheduled
      BY <1>9, <2>2, ScheduleMoves
    <2> QED
      BY <2>1, <2>2
  <1>11. job'.pc \in {"waiting", "updating", "failed"} => parent'.state = "running"
    <2> SUFFICES ASSUME job'.pc \in {"waiting", "updating", "failed"}
                 PROVE  parent'.state = "running"
      OBVIOUS
    <2>1. ASSUME NEW w \in Worker, Schedule(w) PROVE parent'.state = "running"
      BY <1>9, <2>1
    <2>2. CASE AggregationStep
      <3>1. job.pc \in {"waiting", "updating"}
        BY <2>2 DEF AggregationStep, Poll, UpdateRead, UpdateSave, Aggregated
      <3>2. ~Aggregated
        BY <1>0 DEF Aggregated, JobRecord
      <3>3. UNCHANGED parent
        BY <2>2, <3>2 DEF AggregationStep, Poll, UpdateRead, UpdateSave
      <3> QED
        BY <3>1, <3>3 DEF Uninterrupted
    <2>3. CASE UNCHANGED job
      <3>1. parent.state = "running" /\ Scheduled
        BY <2>3 DEF Uninterrupted, Scheduled
      <3>2. \A w \in Worker : ~Finish(w)
        BY <3>1 DEF Uninterrupted, Finish
      <3>3. ~Aggregated
        BY <1>0, <2>3 DEF Aggregated, JobRecord
      <3> QED
        BY <1>1, <3>1, <3>2, <3>3, ParentTurns
    <2> QED
      BY <1>5, <2>1, <2>2, <2>3
  <1> QED
    BY <1>3, <1>7, <1>8, <1>10, <1>11 DEF Uninterrupted

\* What an item reports of its child goes on to be so while the item stays.
LEMMA ReportedStays ==
  ASSUME Typed, Coverage, ItemsMove, NEW i \in Item, Reported(i), items'[i] = items[i]
  PROVE  Reported(i)'
PROOF
  <1>1. CASE Concluded(i)
    BY <1>1 DEF Reported, ItemsMove, ChildrenStay
  <1>2. CASE ~Concluded(i)
    <2>1. DispositionOf(child[i]) = "executed"
      BY <1>2 DEF Concluded, ClosedState, TerminalState, DispositionOf
    <2>2. items[i].disposition # "executed"
      BY <1>2 DEF Coverage, Faithful, Agrees, Concluded
    <2> QED
      BY <2>1, <2>2 DEF Reported
  <1> QED
    BY <1>1, <1>2

LEMMA ReportingKept ==
  ASSUME Typed, OneDispatcher, Coverage, Uninterrupted, OneExecutor, Reporting, [Next]_vars
  PROVE  Reporting'
PROOF
  <1>0. /\ job \in JobRecord /\ job.update \in [Item -> UpdateRecord]
        /\ items \in [Item -> ItemRecord] /\ ItemsMove /\ ~RecoverLease
        /\ NoUpdate \in [Item -> UpdateRecord] /\ \A i \in Item : NoUpdate[i].pc = "none"
    BY ItemsMoveAlways, NothingToRecover, SnapshotsTyped DEF Typed, TypeOK, JobRecord, NoUpdate
  <1>1. ASSUME job' = job, Scheduled
        PROVE  UNCHANGED items /\ (parent.state = "running" => UNCHANGED parent)
    <2>1. \A w \in Worker : worker[w].pc \in {"idle", "release"}
      BY <1>1 DEF Uninterrupted
    <2>2. ~Aggregated
      BY <1>0, <1>1 DEF Aggregated, JobRecord
    <2>3. ASSUME NEW i \in Item, UpdateSave(i) PROVE FALSE
      <3>1. job'.update[i] = NoUpdate[i] /\ job.update[i].pc = "save"
        BY <1>0, <2>3 DEF UpdateSave, JobRecord
      <3> QED
        BY <1>0, <1>1, <3>1
    <2>4. \A w \in Worker : ~Classify(w) /\ ~MarkSave(w) /\ ~Finish(w)
      BY <2>1 DEF Classify, MarkSave, Finish
    <2>5. UNCHANGED items
      BY <1>0, <2>2, <2>3, <2>4, ZenonT(60)
      DEF Next, WorkerStep, Take, ReadItems, CreateChild, MarkRead, Schedule, Release, Throw, Crash,
          ChildConcludes, AggregationStep, Poll, UpdateRead, CrashAggregation, GraphStep,
          Collect, Conclude, RecoverJudging, vars
    <2>6. parent.state = "running" => UNCHANGED parent
      BY <1>0, <2>2, <2>4, ParentTurns
    <2> QED
      BY <2>5, <2>6
  <1>2. CASE UNCHANGED job
    <2>1. CASE job.pc = "updating"
      BY <1>0, <1>1, <1>2, <2>1, ReportedStays DEF Reporting, Scheduled
    <2>2. CASE job.pc = "done"
      BY <1>0, <1>1, <1>2, <2>2, ReportedStays DEF Reporting, Scheduled
    <2> QED
      BY <1>2, <2>1, <2>2 DEF Reporting
  <1>3. ASSUME NEW w \in Worker, Schedule(w), ~UNCHANGED job
        PROVE  Reporting'
    <2>1. job'.pc = "waiting"
      BY <1>0, <1>3 DEF Schedule, JobRecord
    <2> QED
      BY <2>1 DEF Reporting
  <1>4. CASE Poll
    <2>1. UNCHANGED <<parent, items, child>> /\ job.pc = "waiting"
      BY <1>4 DEF Poll
    <2>2. parent.state = "running"
      BY <2>1 DEF Uninterrupted
    <2>3. CASE job' = [job EXCEPT !.pc = "updating",
                          !.update = [i \in Item |-> [NoUpdate[i] EXCEPT !.pc =
                                                        IF i \in WithChild THEN "read" ELSE "none"]]]
      <3>1. job'.pc = "updating"
        BY <1>0, <2>3 DEF JobRecord
      <3>2. ASSUME NEW i \in Item
            PROVE  job'.update[i].pc = IF items[i].child THEN "read" ELSE "none"
        <4>1. NoUpdate[i] \in UpdateRecord
          BY <1>0
        <4> QED
          BY <1>0, <2>3, <4>1 DEF JobRecord, UpdateRecord, WithChild
      <3> QED
        BY <2>1, <3>1, <3>2 DEF Reporting, Reported
    <2>4. CASE job' = [job EXCEPT !.pc = "done"]
      <3>1. job'.pc = "done"
        BY <1>0, <2>4 DEF JobRecord
      <3> QED
        BY <2>1, <2>2, <3>1 DEF Reporting
    <2>5. CASE job' = [job EXCEPT !.polls = @ + 1,
                          !.pc = IF job.polls + 1 = MaxPolls THEN "failed" ELSE "waiting"]
      <3>1. job'.pc \in {"failed", "waiting"}
        BY <1>0, <2>5 DEF JobRecord
      <3> QED
        BY <3>1 DEF Reporting
    <2> QED
      BY <1>4, <2>3, <2>4, <2>5 DEF Poll
  <1>5. ASSUME NEW k \in Item, UpdateRead(k)
        PROVE  Reporting'
    <2>1. /\ job.pc = "updating" /\ job.update[k].pc = "read" /\ UNCHANGED <<items, child>>
          /\ job' = [job EXCEPT !.update[k] = [pc |-> "save", snapshot |-> items]]
      BY <1>5 DEF UpdateRead
    <2>2. /\ job'.pc = "updating"
          /\ job'.update[k].pc = "save" /\ job'.update[k].snapshot = items
          /\ \A i \in Item : i # k => job'.update[i] = job.update[i]
      BY <1>0, <2>1 DEF JobRecord
    <2> QED
      BY <2>1, <2>2 DEF Reporting, Reported
  <1>6. ASSUME NEW k \in Item, UpdateSave(k)
        PROVE  Reporting'
    <2>1. /\ job.pc = "updating" /\ job.update[k].pc = "save" /\ UNCHANGED child
          /\ items' = [job.update[k].snapshot EXCEPT ![k].disposition = DispositionOf(child[k])]
          /\ job' = [job EXCEPT !.update[k] = NoUpdate[k]]
      BY <1>6 DEF UpdateSave
    <2>2. /\ job'.pc = "updating" /\ job'.update[k].pc = "none"
          /\ \A i \in Item : i # k => job'.update[i] = job.update[i]
      BY <1>0, <2>1 DEF JobRecord
    <2>3. job.update[k].snapshot = items
      BY <2>1 DEF Reporting
    <2>4. /\ items'[k].disposition = DispositionOf(child[k])
          /\ \A i \in Item : i # k => items'[i] = items[i]
      BY <1>0, <2>1, <2>3 DEF ItemRecord
    <2>5. Reported(k)'
      BY <2>1, <2>4 DEF Reported
    <2>6. ASSUME NEW i \in Item, i # k
          PROVE  job.update[i].pc # "save" /\ (job.update[i].pc = "none" => Reported(i)')
      <3>1. job.update[i].pc = "none"
        BY <2>1, <2>6 DEF Coverage, UpdateKnows, OneExecutor
      <3>2. Reported(i)
        BY <2>1, <3>1 DEF Reporting
      <3> QED
        BY <1>0, <2>4, <2>6, <3>1, <3>2, ReportedStays
    <2> QED
      BY <2>2, <2>5, <2>6 DEF Reporting
  <1>7. CASE Aggregated
    <2>1. job.pc = "updating" /\ (\A i \in Item : job.update[i].pc = "none") /\ UNCHANGED <<items, child>>
          /\ job' = [job EXCEPT !.pc = "done"]
      BY <1>7 DEF Aggregated
    <2>2. job'.pc = "done"
      BY <1>0, <2>1 DEF JobRecord
    <2>3. \A i \in Item : Reported(i)'
      BY <2>1 DEF Reporting, Reported
    <2> QED
      BY <2>2, <2>3 DEF Reporting
  <1>8. ~CrashAggregation
    BY DEF Uninterrupted, CrashAggregation
  <1>9. (\E w \in Worker : Schedule(w)) \/ AggregationStep \/ UNCHANGED job
    BY <1>0, <1>8
    DEF Next, WorkerStep, Take, ReadItems, Classify, CreateChild, MarkRead, MarkSave, Finish, Release,
        Throw, Crash, ChildConcludes, GraphStep, Collect, Conclude, RecoverJudging, vars
  <1> QED
    BY <1>2, <1>3, <1>4, <1>5, <1>6, <1>7, <1>9 DEF AggregationStep

\* The coverage of a parent says what its child came to, where no process dies, no
\* dispatch throws and one item at most has an executor: what coverage_dispositions
\* shows takes two updates at once, or a process that dies between a read and its save
\* (aggregateParentCoverageRun).
THEOREM SoleChildIsReported ==
  ASSUME MaxFaults = 0
  PROVE  Spec => [](OneExecutor => AggregatedCoverageIsTerminal)
PROOF
  <1>1. Init => AggregateInv
    <2>1. Init => Reporting
      BY DEF Init, Reporting, NoJob
    <2> QED
      BY <2>1, UninterruptedInitially DEF AggregateInv
  <1>2. Inv /\ AggregateInv /\ [Next]_vars => AggregateInv'
    <2> SUFFICES ASSUME Inv, AggregateInv, [Next]_vars PROVE AggregateInv'
      OBVIOUS
    <2>1. Typed /\ OneDispatcher /\ Coverage /\ Uninterrupted
      BY DEF Inv, AggregateInv
    <2>2. Uninterrupted'
      BY <2>1, UninterruptedKept
    <2>3. ItemsMove
      BY <2>1, ItemsMoveAlways
    <2>4. OneExecutor' => OneExecutor
      BY <2>3 DEF OneExecutor, ItemsMove, Agrees
    <2>5. OneExecutor' => Reporting'
      BY <2>1, <2>4, ReportingKept DEF AggregateInv
    <2> QED
      BY <2>2, <2>5 DEF AggregateInv
  <1>3. AggregateInv => (OneExecutor => AggregatedCoverageIsTerminal)
    BY DEF AggregateInv, Reporting, Reported, AggregatedCoverageIsTerminal
  <1> QED
    BY <1>1, <1>2, <1>3, InvAlways, PTL DEF Spec
=============================================================================
