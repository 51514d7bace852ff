------------------------- MODULE RunExecutionProofs -------------------------
(***************************************************************************)
(* What RunExecution guarantees for every number of workers, attempts and  *)
(* recoverers, and for every bound on failures.                            *)
(*                                                                         *)
(* The run moves only by Write, an event its table allows (Written).  That *)
(* a result is judged by its owner, and a conclusion has a committed gate, *)
(* rests on Judged: while a graph continuation holds a result, the run     *)
(* collects for its attempt or is over.  Fencing at the worker rests on    *)
(* Exclusive: until a worker stalls, one past acquisition has the lease.   *)
(***************************************************************************)
EXTENDS RunExecution, RunLifecycleProofs, SequenceTheorems

(***************************************************************************)
(* Writes.                                                                 *)
(***************************************************************************)
Stays == UNCHANGED store

Written(type, pay, sender) ==
  /\ type \in EventType /\ pay \in Payload /\ sender \in Attempt \cup {None}
  /\ CanTransition(proj.state, type)
  /\ Write(type, pay, sender)

LEMMA NoPayloadTyped == NoPayload \in Payload
  BY DEF NoPayload, Payload

\* What a write does to the log, the projection and the outbox.
LEMMA WriteEffect ==
  ASSUME TypeOK, NEW type, NEW pay, NEW sender, Written(type, pay, sender)
  PROVE  LET n == Len(log) + 1
         IN  /\ proj' = applyEvent(proj, type, pay)
             /\ proj' \in Projection /\ proj'.version = n
             /\ log' \in Seq(LogEntry) /\ Len(log') = n
             /\ \A i \in 1 .. Len(log) : log'[i] = log[i]
             /\ log'[n] = [type |-> type, attempt |-> sender, generation |-> pay.generation,
                           gate |-> pay.machineGate]
             /\ outbox' \subseteq outbox \cup {n}
PROOF
  <1> DEFINE e == [type |-> type, attempt |-> sender, generation |-> pay.generation,
                   gate |-> pay.machineGate]
  <1>1. proj' = applyEvent(proj, type, pay) /\ log' = Append(log, e)
    BY DEF Written, Write, Entry, Payload
  <1>2. proj \in Projection /\ log \in Seq(LogEntry) /\ proj.version = Len(log) /\ Len(log) \in Nat
    BY DEF TypeOK, StoreTyped
  <1>3. proj' \in Projection
    BY <1>1, <1>2, ApplyTyped DEF Written
  <1>4. proj'.version = Len(log) + 1
    BY <1>1, <1>2 DEF applyEvent
  <1>5. e \in LogEntry
    BY DEF Written, LogEntry, Payload
  <1>6. /\ log' \in Seq(LogEntry) /\ Len(log') = Len(log) + 1
        /\ \A i \in 1 .. Len(log) : log'[i] = log[i]
        /\ log'[Len(log) + 1] = e
    BY <1>1, <1>2, <1>5, AppendProperties
  <1>7. outbox' \subseteq outbox \cup {Len(log) + 1}
    BY <1>1, <1>4 DEF Written, Write
  <1> QED
    BY <1>1, <1>3, <1>4, <1>6, <1>7

LEMMA WriteTyped ==
  ASSUME TypeOK, NEW type, NEW pay, NEW sender, Written(type, pay, sender)
  PROVE  StoreTyped' /\ 1 .. Len(log) \subseteq 1 .. Len(log')
PROOF
  <1>1. Len(log) \in Nat /\ outbox \subseteq 1 .. Len(log)
    BY DEF TypeOK, StoreTyped
  <1>2. /\ proj' \in Projection /\ proj'.version = Len(log) + 1
        /\ log' \in Seq(LogEntry) /\ Len(log') = Len(log) + 1
        /\ outbox' \subseteq outbox \cup {Len(log) + 1}
    BY WriteEffect
  <1>3. /\ 1 .. Len(log) \subseteq 1 .. Len(log) + 1 /\ Len(log) + 1 \in 1 .. Len(log) + 1
        /\ Len(log) + 1 > 0
    BY <1>1
  <1> QED
    BY <1>1, <1>2, <1>3 DEF StoreTyped

\* What the actors ask for is an event with a payload.
LEMMA ConclusionTyped ==
  ASSUME NEW gate \in GateStatus \cup {Absent}, NEW judge
  PROVE  /\ Conclusion(gate, judge).type \in ConclusionType
         /\ Conclusion(gate, judge).type \in EventType
         /\ Conclusion(gate, judge).payload \in Payload
         /\ Conclusion(gate, judge).payload.machineGate = gate
PROOF
  <1> DEFINE final == resolveFinalStatus(gate, judge, Absent)
  <1>1. final \in GateStatus
    BY DEF resolveFinalStatus, GateStatus
  <1>2. TerminalEventOf(final) \in ConclusionType
    BY DEF TerminalEventOf, ConclusionType
  <1> HIDE DEF final
  <1> QED
    BY <1>1, <1>2 DEF Conclusion, ConclusionType, EventType, NoPayload, Payload, final

LEMMA GraphEventTyped ==
  ASSUME TypeOK, NEW a \in Attempt, GraphAppending(a), NEW e \in GraphEvents(a)
  PROVE  /\ e.type \in EventType /\ e.payload \in Payload
         /\ graph[a].pc = "judge" => e.type = "run_judging" /\ e.payload.machineGate = graph[a].gate
         /\ graph[a].pc = "retry" => e.type = "run_retrying"
         /\ graph[a].pc = "conclude" =>
              e.type \in ConclusionType /\ e.payload.machineGate = graph[a].gate
PROOF
  <1>1. graph[a] \in GraphRecord
    BY DEF TypeOK, ActorsTyped
  <1>2. graph[a].gate \in GateStatus \cup {Absent}
    BY <1>1 DEF GraphRecord
  <1>3. CASE graph[a].pc = "judge"
    BY <1>2, <1>3 DEF GraphEvents, EventType, NoPayload, Payload
  <1>4. CASE graph[a].pc = "retry"
    BY <1>4, NoPayloadTyped DEF GraphEvents, EventType
  <1>5. CASE graph[a].pc = "conclude"
    <2>1. PICK j \in Judges : e = Conclusion(graph[a].gate, j)
      BY <1>5 DEF GraphEvents
    <2> QED
      BY <1>2, <1>5, <2>1, ConclusionTyped
  <1> QED
    BY <1>3, <1>4, <1>5 DEF GraphAppending

LEMMA WorkerEventTyped ==
  ASSUME TypeOK, NEW w \in Worker, Appending(w)
  PROVE  /\ WorkerEvent[worker[w].pc] \in {"run_preparing", "run_started", "evidence_collecting"}
         /\ WorkerPayload(w) \in Payload
         /\ WorkerEvent[worker[w].pc] = "run_started" =>
              /\ worker[w].pc = "start"
              /\ WorkerPayload(w).attempt = worker[w].attempt
              /\ WorkerPayload(w).generation = worker[w].job
         /\ WorkerEvent[worker[w].pc] = "evidence_collecting" => worker[w].pc = "collect"
         /\ worker[w].pc = "collect" => WorkerEvent[worker[w].pc] = "evidence_collecting"
PROOF
  <1>1. worker[w] \in WorkerRecord
    BY DEF TypeOK, ActorsTyped
  <1>2. worker[w].attempt \in Attempt \cup {None} /\ worker[w].job \in Nat
    BY <1>1 DEF WorkerRecord
  <1>3. worker[w].pc \in {"prepare", "start", "collect"}
    BY DEF Appending, WorkerEvent
  <1>4. WorkerEvent.prepare = "run_preparing" /\ WorkerEvent.start = "run_started"
        /\ WorkerEvent.collect = "evidence_collecting"
    BY DEF WorkerEvent
  <1>5. /\ WorkerPayload(w) \in Payload
        /\ worker[w].pc = "start" => /\ WorkerPayload(w).attempt = worker[w].attempt
                                     /\ WorkerPayload(w).generation = worker[w].job
    BY <1>2 DEF WorkerPayload, NoPayload, Payload
  <1>6. CASE worker[w].pc = "prepare"
    BY <1>4, <1>5, <1>6
  <1>7. CASE worker[w].pc = "start"
    BY <1>4, <1>5, <1>7
  <1>8. CASE worker[w].pc = "collect"
    BY <1>4, <1>5, <1>8
  <1> QED
    BY <1>3, <1>6, <1>7, <1>8

(***************************************************************************)
(* Types.                                                                  *)
(***************************************************************************)
\* What is left to show of a step that leaves the run alone, and of one that writes.
LEMMA TypedStays ==
  ASSUME TypeOK, Stays, ActorsTyped', queue' \cup added' \subseteq 1 .. Len(log)
  PROVE  TypeOK'
PROOF
  <1>1. StoreTyped' /\ log' = log
    BY DEF TypeOK, Stays, store, StoreTyped
  <1> QED
    BY <1>1 DEF TypeOK

LEMMA TypedWrites ==
  ASSUME TypeOK, NEW type, NEW pay, NEW sender, Written(type, pay, sender),
         ActorsTyped', queue' \cup added' \subseteq 1 .. Len(log)
  PROVE  TypeOK'
PROOF
  <1>1. StoreTyped' /\ 1 .. Len(log) \subseteq 1 .. Len(log')
    BY WriteTyped
  <1> QED
    BY <1>1 DEF TypeOK

\* A version the run has may be queued again.
LEMMA Requeued ==
  ASSUME TypeOK, UNCHANGED <<proj, log>>, NEW v \in 1 .. Len(log),
         outbox' \subseteq outbox \cup {v},
         ActorsTyped', queue' \cup added' \subseteq 1 .. Len(log)
  PROVE  TypeOK'
PROOF
  <1>1. StoreTyped' /\ log' = log
    BY DEF TypeOK, StoreTyped
  <1> QED
    BY <1>1 DEF TypeOK

LEMMA SpendTyped ==
  ASSUME NEW kind \in {"crashes", "stalls", "controls", "retries"}, Spend(kind),
         budget \in [{"crashes", "stalls", "controls", "retries", "all"} -> Nat]
  PROVE  budget' \in [{"crashes", "stalls", "controls", "retries", "all"} -> Nat]
PROOF
  <1> DEFINE m == budget[kind]
             n == budget.all
  <1>1. m \in Nat /\ n \in Nat /\ m > 0 /\ n > 0
    BY DEF Spend
  <1>2. budget' = [budget EXCEPT ![kind] = m - 1, !.all = n - 1]
    BY DEF Spend
  <1> HIDE DEF m, n
  <1>3. m - 1 \in Nat /\ n - 1 \in Nat
    BY <1>1
  <1> QED
    BY <1>2, <1>3

LEMMA InitTyped == Init => TypeOK
PROOF
  <1> SUFFICES ASSUME Init PROVE TypeOK
    OBVIOUS
  <1> USE DEF Init
  <1>1. proj \in Projection /\ proj.version = 4
    BY DEF ApprovedRun, DraftRun, Projection, RunState, RunKind, ExecutionStatus
  <1>2. \A i \in 1 .. 4 : log[i] \in LogEntry
    BY DEF ApprovedLog, Entry, NoPayload, LogEntry, EventType
  <1>3. log \in Seq(LogEntry) /\ Len(log) = 4
    BY <1>2, IsASeq DEF ApprovedLog
  <1>4. StoreTyped /\ queue \cup added \subseteq 1 .. Len(log)
    BY <1>1, <1>3 DEF StoreTyped
  <1>5. Idle \in WorkerRecord /\ NoGraph \in GraphRecord /\ Resting \in RecovererRecord
    BY DEF Idle, NoGraph, Resting, WorkerRecord, GraphRecord, RecovererRecord, WorkerPc, GraphPc,
           RecovererPc, Unread
  <1>6. FullBudget \in [{"crashes", "stalls", "controls", "retries", "all"} -> Nat]
    BY ExecutionConstants DEF FullBudget
  <1> QED
    BY <1>4, <1>5, <1>6 DEF TypeOK, ActorsTyped, NoLease

\* An actor's record changes in some of its fields.
LEMMA GotoTyped ==
  ASSUME worker \in [Worker -> WorkerRecord], NEW w \in Worker, NEW pc \in WorkerPc, Goto(w, pc)
  PROVE  worker' \in [Worker -> WorkerRecord]
  BY DEF Goto, WorkerRecord, Unread

LEMMA IdleTyped ==
  ASSUME worker \in [Worker -> WorkerRecord], NEW w \in Worker, worker' = [worker EXCEPT ![w] = Idle]
  PROVE  worker' \in [Worker -> WorkerRecord]
PROOF
  <1>1. Idle \in WorkerRecord
    BY DEF Idle, WorkerRecord, WorkerPc, Unread
  <1> HIDE DEF Idle
  <1> QED
    BY <1>1

LEMMA GraphTurns ==
  ASSUME graph \in [Attempt -> GraphRecord], NEW a \in Attempt, NEW pc \in GraphPc, NEW n \in Nat,
         graph' = [graph EXCEPT ![a].pc = pc, ![a].generation = n]
  PROVE  graph' \in [Attempt -> GraphRecord]
  BY DEF GraphRecord

LEMMA ReleaseTyped ==
  ASSUME ActorsTyped, NEW w \in Worker, ReleaseLease(w), UNCHANGED <<graph, recoverer, budget>>
  PROVE  ActorsTyped'
PROOF
  <1>1. worker' \in [Worker -> WorkerRecord]
    BY IdleTyped DEF ActorsTyped, ReleaseLease
  <1> QED
    BY <1>1 DEF ActorsTyped, ReleaseLease, NoLease

LEMMA WorkerTyped ==
  ASSUME TypeOK, NEW w \in Worker, WorkerStep(w)
  PROVE  TypeOK'
PROOF
  <1> USE DEF Unread
  <1>0. /\ ActorsTyped /\ queue \cup added \subseteq 1 .. Len(log) /\ proj.version \in Nat
        /\ worker \in [Worker -> WorkerRecord] /\ graph \in [Attempt -> GraphRecord]
    BY DEF TypeOK, StoreTyped, Projection, ActorsTyped
  <1>1. worker[w] \in WorkerRecord
    BY <1>0
  <1>2. CASE Deliver(w)
    <2>1. PICK v \in queue :
            /\ queue' = queue \ {v}
            /\ worker' = IF IsCurrent(v)
                           THEN [worker EXCEPT ![w] = [Idle EXCEPT !.pc = "acquire", !.job = v]]
                           ELSE worker
      BY <1>2 DEF Deliver
    <2>2. v \in Nat
      BY <1>0
    <2>3. [Idle EXCEPT !.pc = "acquire", !.job = v] \in WorkerRecord
      BY <2>2 DEF Idle, WorkerRecord, WorkerPc
    <2>4. worker' \in [Worker -> WorkerRecord]
      BY <1>0, <2>1, <2>3
    <2>5. Stays /\ UNCHANGED <<added, lease, beating, graph, recoverer, budget>>
      BY <1>2 DEF Deliver, Stays
    <2>6. ActorsTyped'
      BY <1>0, <2>4, <2>5 DEF ActorsTyped
    <2>7. queue' \cup added' \subseteq 1 .. Len(log)
      BY <1>0, <2>1, <2>5
    <2> QED
      BY <2>5, <2>6, <2>7, TypedStays
  <1>3. CASE AcquireLease(w)
    <2> DEFINE a == NewAttempt
    <2>1. Stays /\ UNCHANGED <<queue, added, recoverer, budget>>
      BY <1>3 DEF AcquireLease, Stays
    <2>2. CASE worker' = [worker EXCEPT ![w] = Idle] /\ UNCHANGED <<lease, beating, graph>>
      <3>1. ActorsTyped'
        BY <1>0, <2>1, <2>2, IdleTyped DEF ActorsTyped
      <3> QED
        BY <1>0, <2>1, <3>1, TypedStays
    <2>3. CASE /\ Issued # Attempt
               /\ lease' = [attempt |-> a, expired |-> FALSE]
               /\ beating' = beating \cup {a}
               /\ graph' = [graph EXCEPT ![a].owner = w]
               /\ worker' = [worker EXCEPT ![w].pc = "recheck", ![w].attempt = a]
      <3>1. a \in Attempt
        BY <2>3 DEF NewAttempt, Issued
      <3> HIDE DEF a
      <3>2. graph' \in [Attempt -> GraphRecord]
        BY <1>0, <2>3, <3>1 DEF GraphRecord
      <3>3. worker' \in [Worker -> WorkerRecord]
        <4>1. "recheck" \in WorkerPc
          BY DEF WorkerPc
        <4> QED
          BY <1>0, <2>3, <3>1, <4>1 DEF WorkerRecord
      <3>4. ActorsTyped'
        BY <1>0, <2>1, <2>3, <3>1, <3>2, <3>3 DEF ActorsTyped
      <3> QED
        BY <1>0, <2>1, <3>4, TypedStays
    <2> QED
      BY <1>3, <2>2, <2>3 DEF AcquireLease
  <1>4. CASE Recheck(w) \/ BeforeStart(w) \/ Execute(w) \/ CheckRunning(w) \/ Release(w) \/ ReadVersion(w)
    <2>1. Stays /\ UNCHANGED <<queue, added, graph, recoverer, budget>>
      BY <1>4 DEF Recheck, BeforeStart, Execute, CheckRunning, Release, ReadVersion, Stays
    <2>2. CASE ReleaseLease(w)
      <3>1. ActorsTyped'
        BY <1>0, <2>1, <2>2, ReleaseTyped DEF ActorsTyped
      <3> QED
        BY <1>0, <2>1, <3>1, TypedStays
    <2>3. CASE UNCHANGED <<lease, beating>>
      <3>1. ASSUME \E pc \in WorkerPc : Goto(w, pc)
            PROVE  worker' \in [Worker -> WorkerRecord]
        BY <1>0, <3>1, GotoTyped
      <3>2. ASSUME \E caught \in BOOLEAN : worker' = [worker EXCEPT ![w].pc = "check", ![w].caught = caught]
            PROVE  worker' \in [Worker -> WorkerRecord]
        <4>1. "check" \in WorkerPc
          BY DEF WorkerPc
        <4>2. PICK caught \in BOOLEAN : worker' = [worker EXCEPT ![w].pc = "check", ![w].caught = caught]
          BY <3>2
        <4> QED
          BY <1>0, <4>1, <4>2 DEF WorkerRecord
      <3>3. ASSUME worker' = [worker EXCEPT ![w].base = proj.version]
            PROVE  worker' \in [Worker -> WorkerRecord]
        BY <1>0, <3>3 DEF WorkerRecord
      <3>4. \/ \E pc \in WorkerPc : Goto(w, pc)
            \/ \E caught \in BOOLEAN : worker' = [worker EXCEPT ![w].pc = "check", ![w].caught = caught]
            \/ worker' = [worker EXCEPT ![w].base = proj.version]
            \/ ReleaseLease(w)
        <4>1. {"prepare", "beforeStart", "start", "execute", "collect", "release"} \subseteq WorkerPc
          BY DEF WorkerPc
        <4> QED
          BY <1>4, <4>1 DEF Recheck, BeforeStart, Execute, CheckRunning, Release, ReadVersion
      <3>5. CASE ~ReleaseLease(w)
        <4>1. ActorsTyped'
          BY <1>0, <2>1, <2>3, <3>1, <3>2, <3>3, <3>4, <3>5 DEF ActorsTyped
        <4> QED
          BY <1>0, <2>1, <4>1, TypedStays
      <3> QED
        BY <2>2, <3>5
    <2> QED
      BY <1>4, <2>2, <2>3
      DEF Recheck, BeforeStart, Execute, CheckRunning, Release, ReadVersion
  <1>5. CASE WorkerAppend(w)
    <2>1. Appending(w) /\ UNCHANGED <<queue, added, lease, beating, recoverer, budget>>
      BY <1>5 DEF WorkerAppend
    <2>2. worker[w].pc \in {"prepare", "start", "collect"}
      BY <2>1 DEF Appending, WorkerEvent
    <2>3. worker[w].attempt \in Attempt \cup {None}
      BY <1>1 DEF WorkerRecord
    <2>4. \/ Stays
          \/ Written(WorkerEvent[worker[w].pc], WorkerPayload(w), worker[w].attempt)
      <3>1. /\ WorkerEvent[worker[w].pc] \in EventType
            /\ WorkerPayload(w) \in Payload
        BY <2>1, WorkerEventTyped DEF EventType
      <3> QED
        BY <1>5, <2>3, <3>1 DEF WorkerAppend, Written, Commits, Stays
    <2>5. ActorsTyped'
      <3>0. {"beforeStart", "execute", "release", "check"} \subseteq WorkerPc
        BY DEF WorkerPc
      <3>1. CASE Returned(w)
        <4>1. WorkerNext[worker[w].pc] \in {"beforeStart", "execute", "release"}
          BY <2>2 DEF WorkerNext
        <4>2. worker' \in [Worker -> WorkerRecord]
          BY <1>0, <3>0, <3>1, <4>1, GotoTyped DEF Returned
        <4>3. graph' \in [Attempt -> GraphRecord]
          <5>1. worker[w].job \in Nat /\ "accept" \in GraphPc
            BY <1>1 DEF WorkerRecord, GraphPc
          <5>2. \/ graph' = graph
                \/ graph' = [graph EXCEPT ![worker[w].attempt].pc = "accept",
                                          ![worker[w].attempt].generation = worker[w].job]
            BY <3>1 DEF Returned
          <5>3. CASE worker[w].attempt \in Attempt
            BY <1>0, <5>1, <5>2, <5>3, GraphTurns
          <5>4. CASE worker[w].attempt \notin Attempt
            BY <1>0, <5>2, <5>4
          <5> QED
            BY <5>3, <5>4
        <4> QED
          BY <1>0, <2>1, <4>2, <4>3 DEF ActorsTyped
      <3>2. CASE Threw(w) /\ UNCHANGED graph
        <4>1. ASSUME worker' = [worker EXCEPT ![w].pc = "check", ![w].base = Unread, ![w].caught = TRUE]
              PROVE  worker' \in [Worker -> WorkerRecord]
          BY <1>0, <3>0, <4>1, ZenonT(60) DEF WorkerRecord
        <4>2. worker' \in [Worker -> WorkerRecord]
          BY <1>0, <3>0, <3>2, <4>1, GotoTyped, IdleTyped DEF Threw
        <4> QED
          BY <1>0, <2>1, <3>2, <4>2 DEF ActorsTyped
      <3>3. CASE worker' = [worker EXCEPT ![w].base = Unread] /\ UNCHANGED graph
        <4>1. worker' \in [Worker -> WorkerRecord]
          BY <1>0, <3>3 DEF WorkerRecord
        <4> QED
          BY <1>0, <2>1, <3>3, <4>1 DEF ActorsTyped
      <3> QED
        BY <1>5, <3>1, <3>2, <3>3 DEF WorkerAppend
    <2> QED
      BY <1>0, <2>1, <2>4, <2>5, TypedStays, TypedWrites
  <1> QED
    BY <1>2, <1>3, <1>4, <1>5 DEF WorkerStep

LEMMA GraphGotoTyped ==
  ASSUME graph \in [Attempt -> GraphRecord], NEW a \in Attempt, NEW pc \in GraphPc, GraphGoto(a, pc)
  PROVE  graph' \in [Attempt -> GraphRecord]
  BY DEF GraphGoto, GraphRecord, Unread

LEMMA GraphTyped ==
  ASSUME TypeOK, NEW a \in Attempt, GraphStep(a)
  PROVE  TypeOK'
PROOF
  <1>0. /\ ActorsTyped /\ queue \cup added \subseteq 1 .. Len(log)
        /\ proj.version \in 1 .. Len(log) /\ proj.version \in Nat
        /\ graph \in [Attempt -> GraphRecord]
        /\ budget \in [{"crashes", "stalls", "controls", "retries", "all"} -> Nat]
    BY DEF TypeOK, StoreTyped, Projection, ActorsTyped
  <1>1. UNCHANGED <<queue, added, lease, beating, worker, recoverer>>
    BY DEF GraphStep, AcceptResult, CollectAndGate, RouteGate, Finalize, Requeue,
           GraphReadVersion, GraphAppend, GraphOnly
  <1>2. ASSUME graph' \in [Attempt -> GraphRecord],
               budget' \in [{"crashes", "stalls", "controls", "retries", "all"} -> Nat]
        PROVE  ActorsTyped' /\ queue' \cup added' \subseteq 1 .. Len(log)
    BY <1>0, <1>1, <1>2 DEF ActorsTyped
  <1>3. {"gate", "judge", "route", "retry", "requeue", "finalize", "conclude", "done"} \subseteq GraphPc
    BY DEF GraphPc
  <1>4. CASE AcceptResult(a) \/ Finalize(a)
    <2>1. graph' \in [Attempt -> GraphRecord] /\ Stays /\ budget' = budget
      BY <1>0, <1>3, <1>4, GraphGotoTyped DEF AcceptResult, Finalize, Stays
    <2> QED
      BY <1>0, <1>2, <2>1, TypedStays
  <1>5. CASE CollectAndGate(a)
    <2>1. PICK g \in Gates :
            graph' = [graph EXCEPT ![a].gate = g,
                                   ![a].pc = IF proj.state = "collecting" THEN "judge" ELSE "route"]
      BY <1>5 DEF CollectAndGate
    <2>2. g \in GateStatus \cup {Absent}
      BY ExecutionConstants
    <2>3. graph' \in [Attempt -> GraphRecord]
      <3> DEFINE pc == IF proj.state = "collecting" THEN "judge" ELSE "route"
                 judged == [graph[a] EXCEPT !.gate = g, !.pc = pc]
      <3>1. pc \in GraphPc
        BY <1>3
      <3>2. graph \in [Attempt -> GraphRecord] /\ graph[a] \in GraphRecord
        BY <1>0
      <3>3. graph' = [graph EXCEPT ![a] = judged]
        BY <2>1, <3>2
      <3> HIDE DEF pc
      <3>4. judged \in GraphRecord
        BY <2>2, <3>1, <3>2 DEF GraphRecord
      <3> HIDE DEF judged
      <3> QED
        BY <3>2, <3>3, <3>4
    <2> QED
      BY <1>0, <1>2, <1>5, <2>3, TypedStays DEF CollectAndGate, Stays
  <1>6. CASE RouteGate(a)
    <2>1. graph' \in [Attempt -> GraphRecord]
      BY <1>0, <1>3, <1>6, GraphGotoTyped DEF RouteGate
    <2>2. budget' = budget \/ Spend("retries")
      BY <1>6 DEF RouteGate
    <2>3. budget' \in [{"crashes", "stalls", "controls", "retries", "all"} -> Nat]
      BY <1>0, <2>2, SpendTyped
    <2> QED
      BY <1>2, <1>6, <2>1, <2>3, TypedStays DEF RouteGate, Stays
  <1>7. CASE Requeue(a)
    <2>1. graph' \in [Attempt -> GraphRecord] /\ budget' = budget
      BY <1>0, <1>3, <1>7, GraphGotoTyped DEF Requeue
    <2>2. UNCHANGED <<proj, log>> /\ outbox' \subseteq outbox \cup {proj.version}
      BY <1>7 DEF Requeue
    <2> QED
      BY <1>0, <1>1, <1>2, <2>1, <2>2, Requeued
  <1>8. CASE GraphReadVersion(a)
    <2>1. graph' \in [Attempt -> GraphRecord]
      BY <1>0, <1>8 DEF GraphReadVersion, GraphRecord
    <2> QED
      BY <1>0, <1>2, <1>8, <2>1, TypedStays DEF GraphReadVersion, Stays
  <1>9. CASE GraphAppend(a)
    <2>1. PICK e \in GraphEvents(a) :
            \/ Commits(graph[a].base, e.type) /\ Write(e.type, e.payload, a) /\ GraphReturned(a)
            \/ Stays /\ (GraphReturned(a) \/ GraphGoto(a, graph[a].pc) \/ GraphGoto(a, "done"))
      BY <1>9 DEF GraphAppend, Stays
    <2>2. GraphAppending(a) /\ budget' = budget
      BY <1>9 DEF GraphAppend
    <2>3. graph[a].pc \in GraphPc
      BY <1>0 DEF GraphRecord
    <2>4. graph' \in [Attempt -> GraphRecord]
      BY <1>0, <1>3, <2>1, <2>3, GraphGotoTyped DEF GraphReturned
    <2>5. Stays \/ Written(e.type, e.payload, a)
      BY <2>1, <2>2, GraphEventTyped DEF Written, Commits
    <2> QED
      BY <1>0, <1>2, <2>2, <2>4, <2>5, TypedStays, TypedWrites
  <1> QED
    BY <1>4, <1>5, <1>6, <1>7, <1>8, <1>9 DEF GraphStep

LEMMA RecovererGotoTyped ==
  ASSUME recoverer \in [Recoverer -> RecovererRecord], NEW p, NEW pc \in RecovererPc,
         RecovererGoto(p, pc)
  PROVE  recoverer' \in [Recoverer -> RecovererRecord]
PROOF
  <1>1. [Resting EXCEPT !.pc = pc] \in RecovererRecord
    BY DEF Resting, RecovererRecord, Unread
  <1> QED
    BY <1>1 DEF RecovererGoto

LEMMA RecovererTyped ==
  ASSUME TypeOK, NEW p \in Recoverer, RecovererStep(p)
  PROVE  TypeOK'
PROOF
  <1>0. /\ ActorsTyped /\ queue \cup added \subseteq 1 .. Len(log)
        /\ proj \in Projection /\ proj.version \in Nat /\ proj.version = Len(log)
        /\ recoverer \in [Recoverer -> RecovererRecord]
        /\ lease \in [attempt : Attempt \cup {None}, expired : BOOLEAN]
    BY DEF TypeOK, StoreTyped, Projection, ActorsTyped
  <1>1. UNCHANGED <<queue, added, beating, worker, graph, budget>>
    BY DEF RecovererStep, ListExpired, ReadExpired, ListJudging, ReadJudging, RecovererReadVersion,
           RetryExpired, SettleJudging, RecovererOnly
  <1>2. ASSUME recoverer' \in [Recoverer -> RecovererRecord], lease' \in {lease, NoLease}
        PROVE  ActorsTyped' /\ queue' \cup added' \subseteq 1 .. Len(log)
    <2>1. lease' \in [attempt : Attempt \cup {None}, expired : BOOLEAN]
      <3>1. NoLease \in [attempt : Attempt \cup {None}, expired : BOOLEAN]
        BY DEF NoLease
      <3> QED
        BY <1>0, <1>2, <3>1
    <2>2. ActorsTyped'
      BY <1>0, <1>1, <1>2, <2>1 DEF ActorsTyped
    <2> QED
      BY <1>0, <1>1, <2>2
  <1>3. {"idle", "expired", "retry", "judging"} \subseteq RecovererPc
    BY DEF RecovererPc
  <1>4. CASE ListExpired(p) \/ ReadExpired(p) \/ ListJudging(p)
    <2>1. recoverer' \in [Recoverer -> RecovererRecord]
      BY <1>0, <1>3, <1>4, RecovererGotoTyped DEF ListExpired, ReadExpired, ListJudging
    <2>2. Stays /\ lease' = lease
      BY <1>4 DEF ListExpired, ReadExpired, ListJudging, Stays
    <2> QED
      BY <1>2, <2>1, <2>2, TypedStays
  <1>5. CASE ReadJudging(p) \/ RecovererReadVersion(p)
    <2>1. proj.machineGate \in GateStatus \cup {Absent}
      BY <1>0 DEF Projection
    <2>2. /\ [Resting EXCEPT !.pc = "settle", !.gate = proj.machineGate] \in RecovererRecord
          /\ Resting \in RecovererRecord
      BY <2>1 DEF Resting, RecovererRecord, RecovererPc, Unread
    <2>3. recoverer' \in [Recoverer -> RecovererRecord]
      <3>1. CASE ReadJudging(p)
        BY <1>0, <2>2, <3>1 DEF ReadJudging
      <3>2. CASE RecovererReadVersion(p)
        BY <1>0, <3>2 DEF RecovererReadVersion, RecovererRecord
      <3> QED
        BY <1>5, <3>1, <3>2
    <2>4. Stays /\ lease' = lease
      BY <1>5 DEF ReadJudging, RecovererReadVersion, Stays
    <2> QED
      BY <1>2, <2>3, <2>4, TypedStays
  <1>6. ASSUME RecovererConflicts(p)
        PROVE  recoverer' \in [Recoverer -> RecovererRecord] /\ Stays /\ lease' = lease
    BY <1>0, <1>6 DEF RecovererConflicts, RecovererRecord, Unread, Stays
  <1>7. recoverer[p].base \in Nat /\ recoverer[p].gate \in GateStatus \cup {Absent}
    BY <1>0 DEF RecovererRecord
  <1>8. CASE RetryExpired(p)
    <2> DEFINE base == recoverer[p].base
    <2>1. CASE Commits(base, "run_retrying") /\ Write("run_retrying", NoPayload, None)
      <3>1. Written("run_retrying", NoPayload, None)
        BY <2>1, NoPayloadTyped DEF Written, Commits, EventType
      <3>2. recoverer' \in [Recoverer -> RecovererRecord] /\ lease' = lease
        BY <1>0, <1>3, <1>6, <1>8, RecovererGotoTyped DEF RetryExpired
      <3> QED
        BY <1>2, <3>1, <3>2, TypedWrites
    <2>2. CASE /\ Joins(base, "run_retrying") /\ outbox' = outbox \cup {base + 1}
               /\ RecovererGoto(p, "idle") /\ UNCHANGED <<proj, log, lease>>
      <3>1. base + 1 \in 1 .. Len(log)
        BY <1>0, <1>7, <2>2 DEF Joins
      <3>2. recoverer' \in [Recoverer -> RecovererRecord]
        BY <1>0, <1>3, <2>2, RecovererGotoTyped
      <3>3. ActorsTyped' /\ queue' \cup added' \subseteq 1 .. Len(log)
        BY <1>2, <2>2, <3>2
      <3> HIDE DEF base
      <3> QED
        BY <2>2, <3>1, <3>3, Requeued
    <2>3. CASE /\ UNCHANGED <<store, lease>>
               /\ RecovererConflicts(p) \/ RecovererGoto(p, "idle")
      <3>1. recoverer' \in [Recoverer -> RecovererRecord]
        BY <1>0, <1>3, <1>6, <2>3, RecovererGotoTyped
      <3> QED
        BY <1>2, <2>3, <3>1, TypedStays DEF Stays
    <2> QED
      BY <1>8, <2>1, <2>2, <2>3 DEF RetryExpired, RecovererConflicts
  <1>9. CASE SettleJudging(p)
    <2>1. PICK j \in Judges :
            LET e == Conclusion(recoverer[p].gate, j)
            IN  \/ /\ Commits(recoverer[p].base, e.type) /\ Write(e.type, e.payload, None)
                   /\ RecovererGoto(p, "idle") /\ lease' \in {lease, NoLease}
                \/ Stays /\ RecovererGoto(p, "idle") /\ lease' \in {lease, NoLease}
                \/ RecovererConflicts(p)
      BY <1>9 DEF SettleJudging, Stays
    <2> DEFINE e == Conclusion(recoverer[p].gate, j)
    <2>2. recoverer' \in [Recoverer -> RecovererRecord] /\ lease' \in {lease, NoLease}
      BY <1>0, <1>3, <1>6, <2>1, RecovererGotoTyped
    <2>3. Stays \/ Written(e.type, e.payload, None)
      <3>1. e.type \in EventType /\ e.payload \in Payload
        BY <1>7, ConclusionTyped
      <3> QED
        BY <1>6, <2>1, <3>1 DEF Written, Commits
    <2> QED
      BY <1>2, <2>2, <2>3, TypedStays, TypedWrites
  <1> QED
    BY <1>4, <1>5, <1>8, <1>9 DEF RecovererStep

\* A worker that has a job was given a version the run has had.
Jobs == \A w \in Worker : worker[w] = Idle \/ worker[w].job \in 1 .. Len(log)

Others == Publish \/ Expire \/ Heartbeat \/ Interrupt \/ Resume

LEMMA ControlEvent ==
  ASSUME NEW type \in {"run_paused", "run_cancelled", "run_resumed"}, Control(type)
  PROVE  /\ Written(type, NoPayload, None)
         /\ UNCHANGED <<queue, added, lease, beating, worker, graph, recoverer>>
  BY NoPayloadTyped DEF Control, Written, EventType

LEMMA OthersTyped ==
  ASSUME TypeOK, Jobs, Others \/ \E w \in Worker : Stall(w) \/ Crash(w)
  PROVE  TypeOK'
PROOF
  <1>0. /\ ActorsTyped /\ queue \cup added \subseteq 1 .. Len(log) /\ outbox \subseteq 1 .. Len(log)
        /\ StoreTyped
        /\ budget \in [{"crashes", "stalls", "controls", "retries", "all"} -> Nat]
    BY DEF TypeOK, StoreTyped, ActorsTyped
  <1>1. CASE Publish
    <2>1. /\ queue' \cup added' \subseteq 1 .. Len(log) /\ outbox' \subseteq 1 .. Len(log)
          /\ UNCHANGED <<proj, log, lease, beating, worker, graph, recoverer, budget>>
      BY <1>0, <1>1 DEF Publish
    <2>2. ActorsTyped'
      BY <1>0, <2>1 DEF ActorsTyped
    <2>3. StoreTyped'
      BY <1>0, <2>1 DEF StoreTyped
    <2> QED
      BY <2>1, <2>2, <2>3 DEF TypeOK
  <1>2. CASE Expire \/ Heartbeat
    <2>1. lease' \in [attempt : Attempt \cup {None}, expired : BOOLEAN]
      BY <1>0, <1>2 DEF Expire, Heartbeat, ActorsTyped
    <2>2. Stays /\ UNCHANGED <<queue, added, beating, worker, graph, recoverer, budget>>
      BY <1>2 DEF Expire, Heartbeat, Stays
    <2>3. ActorsTyped'
      BY <1>0, <2>1, <2>2 DEF ActorsTyped
    <2> QED
      BY <1>0, <2>2, <2>3, TypedStays
  <1>3. CASE Interrupt \/ Resume
    <2>1. /\ budget' = budget \/ Spend("controls")
          /\ \E type \in {"run_paused", "run_cancelled", "run_resumed"} : Control(type)
      BY <1>3 DEF Interrupt, Resume
    <2>2. PICK type \in {"run_paused", "run_cancelled", "run_resumed"} : Control(type)
      BY <2>1
    <2>3. budget' \in [{"crashes", "stalls", "controls", "retries", "all"} -> Nat]
      BY <1>0, <2>1, SpendTyped
    <2>4. /\ Written(type, NoPayload, None)
          /\ UNCHANGED <<queue, added, lease, beating, worker, graph, recoverer>>
      BY <2>2, ControlEvent
    <2>5. ActorsTyped'
      BY <1>0, <2>3, <2>4 DEF ActorsTyped
    <2> QED
      BY <1>0, <2>4, <2>5, TypedWrites
  <1>4. ASSUME NEW w \in Worker, Stall(w)
        PROVE  TypeOK'
    <2>1. /\ worker[w].attempt # None /\ Stays /\ queue' = queue \cup {worker[w].job}
          /\ UNCHANGED <<added, beating, worker, graph, recoverer>>
          /\ lease' = [lease EXCEPT !.expired = TRUE] /\ Spend("stalls")
      BY <1>4 DEF Stall, Stays
    <2>2. budget' \in [{"crashes", "stalls", "controls", "retries", "all"} -> Nat]
      BY <1>0, <2>1, SpendTyped
    <2>3. ActorsTyped'
      BY <1>0, <2>1, <2>2 DEF ActorsTyped
    <2>4. worker[w].job \in 1 .. Len(log)
      BY <2>1 DEF Jobs, Idle
    <2> QED
      BY <1>0, <2>1, <2>3, <2>4, TypedStays
  <1>5. ASSUME NEW w \in Worker, Crash(w)
        PROVE  TypeOK'
    <2>1. /\ Stays /\ Spend("crashes") /\ UNCHANGED <<added, lease, recoverer>>
          /\ queue' = IF worker[w].pc # "idle" THEN queue \cup {worker[w].job} ELSE queue
          /\ worker' = [worker EXCEPT ![w] = Idle] /\ beating' \subseteq beating
      BY <1>5 DEF Crash, Stays
    <2>2. budget' \in [{"crashes", "stalls", "controls", "retries", "all"} -> Nat]
      BY <1>0, <2>1, SpendTyped
    <2>3. graph' \in [Attempt -> GraphRecord]
      <3>1. \A a \in Attempt : [graph[a] EXCEPT !.pc = "done"] \in GraphRecord
        BY <1>0, ZenonT(60) DEF ActorsTyped, GraphRecord, GraphPc
      <3> QED
        BY <1>0, <1>5, <3>1 DEF Crash, ActorsTyped
    <2>4. worker' \in [Worker -> WorkerRecord]
      BY <1>0, <2>1, IdleTyped DEF ActorsTyped
    <2>5. ActorsTyped'
      BY <1>0, <2>1, <2>2, <2>3, <2>4 DEF ActorsTyped
    <2>6. worker[w].pc # "idle" => worker[w].job \in 1 .. Len(log)
      BY DEF Jobs, Idle
    <2> QED
      BY <1>0, <2>1, <2>5, <2>6, TypedStays
  <1> QED
    BY <1>1, <1>2, <1>3, <1>4, <1>5 DEF Others

(***************************************************************************)
(* The jobs workers have.                                                  *)
(***************************************************************************)
WorkerOnly(w) == \A v \in Worker \ {w} : worker'[v] = worker[v]

LEMMA JobsStep ==
  ASSUME TypeOK, TypeOK', Jobs, Len(log) <= Len(log'), NEW w \in Worker, WorkerOnly(w),
         \/ worker'[w] = Idle
         \/ worker'[w].job = worker[w].job /\ worker[w] # Idle
         \/ worker'[w].job \in queue
  PROVE  Jobs'
PROOF
  <1>1. queue \subseteq 1 .. Len(log) /\ Len(log) \in Nat /\ Len(log') \in Nat
    BY DEF TypeOK, StoreTyped
  <1>2. 1 .. Len(log) \subseteq 1 .. Len(log')
    BY <1>1
  <1>3. ASSUME NEW v \in Worker
        PROVE  worker'[v] = Idle \/ worker'[v].job \in 1 .. Len(log')
    BY <1>1, <1>2 DEF Jobs, WorkerOnly
  <1> QED
    BY <1>3 DEF Jobs, Idle

\* How one worker's record changes: it takes a job, is done, or goes on with the job
\* it has, under the attempt it has unless it just acquired the lease.
Unleased == {"idle", "acquire"}

LEMMA WorkerChanges ==
  ASSUME TypeOK, NEW w \in Worker, WorkerStep(w)
  PROVE  /\ WorkerOnly(w)
         /\ \/ worker' = worker
            \/ worker'[w] = Idle
            \/ /\ Deliver(w) /\ worker'[w].job \in queue
               /\ worker'[w].attempt = None /\ worker'[w].pc = "acquire"
            \/ /\ AcquireLease(w) /\ Issued # Attempt
               /\ worker'[w].pc = "recheck" /\ worker'[w].job = worker[w].job
               /\ worker'[w].attempt = NewAttempt
            \/ /\ worker[w].pc \notin Unleased /\ worker'[w].pc \notin Unleased
               /\ worker'[w].job = worker[w].job /\ worker'[w].attempt = worker[w].attempt
PROOF
  <1>0. worker \in [Worker -> WorkerRecord] /\ worker[w] \in WorkerRecord
    BY DEF TypeOK, ActorsTyped
  <1>1. ASSUME worker' = [worker EXCEPT ![w] = Idle]
        PROVE  WorkerOnly(w) /\ worker'[w] = Idle
    BY <1>0, <1>1 DEF WorkerOnly
  <1>2. ASSUME NEW pc, Goto(w, pc)
        PROVE  /\ WorkerOnly(w) /\ worker'[w].job = worker[w].job /\ worker'[w].pc = pc
               /\ worker'[w].attempt = worker[w].attempt
    BY <1>0, <1>2 DEF Goto, WorkerOnly, WorkerRecord
  <1>3. CASE Deliver(w)
    <2>1. PICK v \in queue :
            worker' = IF IsCurrent(v)
                        THEN [worker EXCEPT ![w] = [Idle EXCEPT !.pc = "acquire", !.job = v]]
                        ELSE worker
      BY <1>3 DEF Deliver
    <2> DEFINE r == [Idle EXCEPT !.pc = "acquire", !.job = v]
    <2>2. r.job = v /\ r.attempt = None /\ r.pc = "acquire"
      BY DEF Idle
    <2> HIDE DEF r
    <2>3. CASE worker' = [worker EXCEPT ![w] = r]
      BY <1>0, <1>3, <2>2, <2>3 DEF WorkerOnly
    <2> QED
      BY <2>1, <2>3 DEF WorkerOnly, r
  <1>4. CASE AcquireLease(w)
    <2>2. CASE worker' = [worker EXCEPT ![w] = Idle]
      BY <1>1, <2>2
    <2>3. CASE /\ Issued # Attempt
               /\ worker' = [worker EXCEPT ![w].pc = "recheck", ![w].attempt = NewAttempt]
      BY <1>0, <1>4, <2>3 DEF WorkerOnly, WorkerRecord
    <2> QED
      BY <1>4, <2>2, <2>3 DEF AcquireLease
  <1>5. CASE Recheck(w) \/ BeforeStart(w) \/ CheckRunning(w) \/ Release(w)
    <2>1. worker[w].pc \notin Unleased
      BY <1>5 DEF Recheck, BeforeStart, CheckRunning, Release, Unleased
    <2>2. worker' = [worker EXCEPT ![w] = Idle] \/ \E pc : Goto(w, pc) /\ pc \notin Unleased
      BY <1>5 DEF Recheck, BeforeStart, CheckRunning, Release, ReleaseLease, Unleased
    <2> QED
      BY <1>1, <1>2, <2>1, <2>2
  <1>6. CASE Execute(w)
    <2>1. PICK c \in BOOLEAN : worker' = [worker EXCEPT ![w].pc = "check", ![w].caught = c]
      BY <1>6 DEF Execute
    <2>2. worker[w].pc \notin Unleased
      BY <1>6 DEF Execute, Unleased
    <2> QED
      BY <1>0, <2>1, <2>2 DEF WorkerOnly, WorkerRecord, Unleased
  <1>7. CASE ReadVersion(w) \/ WorkerAppend(w)
    <2>1. worker[w].pc \notin Unleased
      BY <1>7 DEF ReadVersion, WorkerAppend, Appending, WorkerEvent, Unleased
    <2>2. CASE \E b : worker' = [worker EXCEPT ![w].base = b]
      <3>1. PICK b : worker' = [worker EXCEPT ![w].base = b]
        BY <2>2
      <3> QED
        BY <1>0, <2>1, <3>1 DEF WorkerOnly, WorkerRecord
    <2>3. CASE worker' = [worker EXCEPT ![w].pc = "check", ![w].base = Unread, ![w].caught = TRUE]
      BY <1>0, <2>1, <2>3 DEF WorkerOnly, WorkerRecord, Unleased
    <2>4. CASE \E pc : Goto(w, pc) /\ pc \notin Unleased
      BY <1>2, <2>1, <2>4
    <2>5. CASE worker' = [worker EXCEPT ![w] = Idle]
      BY <1>1, <2>5
    <2>6. ASSUME Returned(w), worker[w].pc \in {"prepare", "start", "collect"}
          PROVE  \E pc : Goto(w, pc) /\ pc \notin Unleased
      BY <2>6 DEF Returned, WorkerNext, Unleased
    <2>7. "release" \notin Unleased
      BY DEF Unleased
    <2>8. WorkerAppend(w) => worker[w].pc \in {"prepare", "start", "collect"}
      BY DEF WorkerAppend, Appending, WorkerEvent
    <2> QED
      BY <1>7, <2>2, <2>3, <2>4, <2>5, <2>6, <2>7, <2>8 DEF ReadVersion, WorkerAppend, Threw
  <1> QED
    BY <1>3, <1>4, <1>5, <1>6, <1>7 DEF WorkerStep

LEMMA LogGrows ==
  ASSUME TypeOK, UNCHANGED log \/ \E type, pay, sender : Written(type, pay, sender)
  PROVE  Len(log) <= Len(log')
PROOF
  <1>1. Len(log) \in Nat
    BY DEF TypeOK, StoreTyped
  <1>2. CASE UNCHANGED log
    BY <1>1, <1>2
  <1>3. ASSUME NEW type, NEW pay, NEW sender, Written(type, pay, sender)
        PROVE  Len(log) <= Len(log')
    <2>1. Len(log') = Len(log) + 1
      BY <1>3, WriteEffect
    <2> QED
      BY <1>1, <2>1
  <1> QED
    BY <1>2, <1>3

(***************************************************************************)
(* Who writes: every step leaves the run and its log alone, or is one of   *)
(* these.                                                                  *)
(***************************************************************************)
WorkerWrites(w) ==
  /\ Appending(w) /\ worker[w].base # Unread
  /\ Written(WorkerEvent[worker[w].pc], WorkerPayload(w), worker[w].attempt)
  /\ Returned(w)
  /\ UNCHANGED <<queue, added, lease, beating, recoverer, budget>>

GraphWrites(a) ==
  /\ GraphAppending(a) /\ GraphReturned(a)
  /\ \E e \in GraphEvents(a) : Written(e.type, e.payload, a)
  /\ GraphOnly /\ UNCHANGED budget

RetryWrites(p) ==
  /\ Written("run_retrying", NoPayload, None)
  /\ RecovererGoto(p, "idle") /\ RecovererOnly /\ UNCHANGED lease

SettleWrites(p) ==
  /\ recoverer[p].pc = "settle"
  /\ \E j \in Judges : LET e == Conclusion(recoverer[p].gate, j) IN Written(e.type, e.payload, None)
  /\ RecovererGoto(p, "idle") /\ RecovererOnly
  /\ lease' = IF lease.expired THEN NoLease ELSE lease

ControlWrites ==
  /\ \E type \in {"run_paused", "run_cancelled", "run_resumed"} : Written(type, NoPayload, None)
  /\ UNCHANGED <<queue, added, lease, beating, worker, graph, recoverer>>

Writes ==
  \/ \E w \in Worker : WorkerWrites(w)
  \/ \E a \in Attempt : GraphWrites(a)
  \/ \E p \in Recoverer : RetryWrites(p) \/ SettleWrites(p)
  \/ ControlWrites

LEMMA WorkerMoves ==
  ASSUME TypeOK, NEW w \in Worker, WorkerAppend(w)
  PROVE  WorkerWrites(w) \/ UNCHANGED <<proj, log>>
PROOF
  <1>1. Appending(w) /\ UNCHANGED <<queue, added, lease, beating, recoverer, budget>>
    BY DEF WorkerAppend
  <1>2. WorkerEvent[worker[w].pc] \in EventType /\ WorkerPayload(w) \in Payload
    BY <1>1, WorkerEventTyped DEF EventType
  <1>3. worker[w].attempt \in Attempt \cup {None}
    BY DEF TypeOK, ActorsTyped, WorkerRecord
  <1> QED
    BY <1>1, <1>2, <1>3 DEF WorkerAppend, WorkerWrites, Written, Commits, store

LEMMA GraphMoves ==
  ASSUME TypeOK, NEW a \in Attempt, GraphAppend(a)
  PROVE  GraphWrites(a) \/ UNCHANGED <<proj, log>>
PROOF
  <1>1. GraphAppending(a) /\ GraphOnly /\ UNCHANGED budget
    BY DEF GraphAppend
  <1>2. PICK e \in GraphEvents(a) :
          \/ Commits(graph[a].base, e.type) /\ Write(e.type, e.payload, a) /\ GraphReturned(a)
          \/ UNCHANGED store
    BY DEF GraphAppend
  <1>3. e.type \in EventType /\ e.payload \in Payload
    BY <1>1, GraphEventTyped
  <1> QED
    BY <1>1, <1>2, <1>3 DEF GraphWrites, Written, Commits, store

LEMMA RecovererMoves ==
  ASSUME TypeOK, NEW p \in Recoverer, RetryExpired(p) \/ SettleJudging(p)
  PROVE  RetryWrites(p) \/ SettleWrites(p) \/ UNCHANGED <<proj, log>>
PROOF
  <1>1. CASE RetryExpired(p)
    BY <1>1, NoPayloadTyped
    DEF RetryExpired, RetryWrites, Written, Commits, EventType, RecovererConflicts, store
  <1>2. CASE SettleJudging(p)
    <2>1. recoverer[p].gate \in GateStatus \cup {Absent}
      BY DEF TypeOK, ActorsTyped, RecovererRecord
    <2>2. PICK j \in Judges :
            LET e == Conclusion(recoverer[p].gate, j)
            IN  \/ /\ Commits(recoverer[p].base, e.type) /\ Write(e.type, e.payload, None)
                   /\ RecovererGoto(p, "idle")
                   /\ lease' = IF lease.expired THEN NoLease ELSE lease
                \/ UNCHANGED store
      BY <1>2 DEF SettleJudging, RecovererConflicts
    <2>3. recoverer[p].pc = "settle" /\ RecovererOnly
      BY <1>2 DEF SettleJudging
    <2> DEFINE e == Conclusion(recoverer[p].gate, j)
    <2>4. e.type \in EventType /\ e.payload \in Payload
      BY <2>1, ConclusionTyped
    <2>5. CASE UNCHANGED store
      BY <2>5 DEF store
    <2>6. CASE ~UNCHANGED store
      <3>1. Written(e.type, e.payload, None)
        BY <2>2, <2>4, <2>6 DEF Written, Commits
      <3>2. /\ RecovererGoto(p, "idle")
            /\ lease' = IF lease.expired THEN NoLease ELSE lease
        BY <2>2, <2>6
      <3> QED
        BY <2>3, <3>1, <3>2 DEF SettleWrites
    <2> QED
      BY <2>5, <2>6
  <1> QED
    BY <1>1, <1>2

LEMMA Moves ==
  ASSUME TypeOK, [Next]_vars
  PROVE  Writes \/ UNCHANGED <<proj, log>>
PROOF
  <1>1. ASSUME NEW w \in Worker, WorkerStep(w) \/ Stall(w) \/ Crash(w)
        PROVE  Writes \/ UNCHANGED <<proj, log>>
    <2>1. CASE WorkerAppend(w)
      <3>1. WorkerWrites(w) => Writes
        BY DEF Writes
      <3> QED
        BY <2>1, <3>1, WorkerMoves
    <2>2. CASE Deliver(w) \/ AcquireLease(w) \/ Recheck(w) \/ BeforeStart(w) \/ Execute(w)
      BY <2>2 DEF Deliver, AcquireLease, Recheck, BeforeStart, Execute, store
    <2>3. CASE CheckRunning(w) \/ Release(w) \/ ReadVersion(w) \/ Stall(w) \/ Crash(w)
      BY <2>3 DEF CheckRunning, Release, ReadVersion, Stall, Crash, store
    <2> QED
      BY <1>1, <2>1, <2>2, <2>3 DEF WorkerStep
  <1>2. ASSUME NEW a \in Attempt, GraphStep(a)
        PROVE  Writes \/ UNCHANGED <<proj, log>>
    BY <1>2, GraphMoves
    DEF GraphStep, AcceptResult, CollectAndGate, RouteGate, Finalize, Requeue, GraphReadVersion,
        store, Writes
  <1>3. ASSUME NEW p \in Recoverer, RecovererStep(p)
        PROVE  Writes \/ UNCHANGED <<proj, log>>
    BY <1>3, RecovererMoves
    DEF RecovererStep, ListExpired, ReadExpired, ListJudging, ReadJudging, RecovererReadVersion,
        store, Writes
  <1>4. CASE Interrupt \/ Resume
    <2>1. PICK type \in {"run_paused", "run_cancelled", "run_resumed"} : Control(type)
      BY <1>4 DEF Interrupt, Resume
    <2>2. ControlWrites
      BY <2>1, ControlEvent DEF ControlWrites
    <2> QED
      BY <2>2 DEF Writes
  <1>5. CASE Publish \/ Expire \/ Heartbeat \/ UNCHANGED vars
    BY <1>5 DEF Publish, Expire, Heartbeat, vars, store
  <1> QED
    BY <1>1, <1>2, <1>3, <1>4, <1>5 DEF Next

LEMMA WorkerMovers ==
  ASSUME [Next]_vars, worker' # worker
  PROVE  \E w \in Worker : WorkerStep(w) \/ Stall(w) \/ Crash(w)
PROOF
  <1>1. ASSUME NEW a \in Attempt, GraphStep(a) PROVE UNCHANGED worker
    BY <1>1
    DEF GraphStep, AcceptResult, CollectAndGate, RouteGate, Finalize, Requeue, GraphReadVersion,
        GraphAppend, GraphOnly
  <1>2. ASSUME NEW p \in Recoverer, RecovererStep(p) PROVE UNCHANGED worker
    BY <1>2
    DEF RecovererStep, ListExpired, ReadExpired, ListJudging, ReadJudging, RecovererReadVersion,
        RetryExpired, SettleJudging, RecovererOnly
  <1>3. ASSUME Others \/ UNCHANGED vars PROVE UNCHANGED worker
    BY <1>3 DEF Others, Publish, Expire, Heartbeat, Interrupt, Resume, Control, vars
  <1> QED
    BY <1>1, <1>2, <1>3 DEF Next, Others

LEMMA JobsKept ==
  ASSUME TypeOK, TypeOK', Jobs, [Next]_vars
  PROVE  Jobs'
PROOF
  <1>1. Len(log) <= Len(log')
    <2>1. ASSUME Writes PROVE \E type, pay, sender : Written(type, pay, sender)
      BY <2>1 DEF Writes, WorkerWrites, GraphWrites, RetryWrites, SettleWrites, ControlWrites
    <2> QED
      BY <2>1, Moves, LogGrows
  <1>2. CASE UNCHANGED worker
    <2>1. Len(log) \in Nat /\ Len(log') \in Nat
      BY DEF TypeOK, StoreTyped
    <2>2. 1 .. Len(log) \subseteq 1 .. Len(log')
      BY <1>1, <2>1
    <2> QED
      BY <1>2, <2>2 DEF Jobs, Idle
  <1>3. ASSUME NEW w \in Worker, WorkerStep(w), worker' # worker
        PROVE  Jobs'
    <2>1. worker[w].pc \notin Unleased => worker[w] # Idle
      BY DEF Idle, Unleased
    <2>2. AcquireLease(w) => worker[w] # Idle
      BY DEF Idle, AcquireLease
    <2> QED
      BY <1>1, <1>3, <2>1, <2>2, WorkerChanges, JobsStep
  <1>4. ASSUME NEW w \in Worker, Stall(w) \/ Crash(w), worker' # worker
        PROVE  Jobs'
    <2>1. worker' = [worker EXCEPT ![w] = Idle]
      BY <1>4 DEF Stall, Crash
    <2>2. WorkerOnly(w) /\ worker'[w] = Idle
      BY <2>1 DEF TypeOK, ActorsTyped, WorkerOnly
    <2> QED
      BY <1>1, <2>2, JobsStep
  <1> QED
    BY <1>2, <1>3, <1>4, WorkerMovers

\* What a scan, a graph or a worker reads and writes has its type: only versions the
\* run has had are queued, and its version is the length of its log.
THEOREM TypeCorrect == Spec => []TypeOK
PROOF
  <1>1. Init => TypeOK /\ Jobs
    <2>1. Init => Jobs
      BY DEF Init, Jobs
    <2> QED
      BY <2>1, InitTyped
  <1>2. ASSUME TypeOK, Jobs, [Next]_vars
        PROVE  TypeOK'
    <2>1. CASE UNCHANGED vars
      <3>1. StoreTyped'
        BY <1>2, <2>1 DEF vars, store, TypeOK, StoreTyped
      <3>2. ActorsTyped'
        BY <1>2, <2>1 DEF vars, TypeOK, ActorsTyped
      <3> QED
        BY <1>2, <2>1, <3>1, <3>2 DEF vars, store, TypeOK
    <2> QED
      BY <1>2, <2>1, WorkerTyped, GraphTyped, RecovererTyped, OthersTyped DEF Next, Others
  <1>3. TypeOK /\ Jobs /\ [Next]_vars => (TypeOK /\ Jobs)'
    BY <1>2, JobsKept
  <1> QED
    BY <1>1, <1>3, PTL DEF Spec

(***************************************************************************)
(* The log: who owned the run, which gates were committed.                 *)
(***************************************************************************)
OwnerTypes == {"run_started", "run_retrying"}

Committed(gate) == \E j \in 1 .. Len(log) : log[j].type = "run_judging" /\ log[j].gate = gate

Over == proj.state \in TerminalState

\* LatestBefore looks back; the owner it finds for the next event is the projection's.
OwnersKnown ==
  \A i \in 1 .. Len(log) + 1 :
    /\ LatestBefore(i, OwnerTypes) \in 0 .. i - 1
    /\ i = Len(log) + 1 => OwnerBefore(i) = proj.attempt

LogInv ==
  /\ OwnersKnown
  /\ proj.state = "judging" => Committed(proj.machineGate)
  /\ JudgedByOwner
  /\ ConclusionFromCommittedGate

\* A write appends one entry.
LEMMA WriteLog ==
  ASSUME TypeOK, NEW type, NEW pay, NEW sender, Written(type, pay, sender)
  PROVE  /\ Len(log) \in Nat /\ Len(log') = Len(log) + 1
         /\ DOMAIN log = 1 .. Len(log) /\ DOMAIN log' = 1 .. Len(log')
         /\ \A k \in 1 .. Len(log) : log'[k] = log[k]
         /\ log'[Len(log')].type = type
         /\ log'[Len(log')].attempt = sender
         /\ log'[Len(log')].generation = pay.generation
         /\ log'[Len(log')].gate = pay.machineGate
PROOF
  <1> DEFINE e == [type |-> type, attempt |-> sender, generation |-> pay.generation,
                   gate |-> pay.machineGate]
  <1>1. Len(log) \in Nat /\ log \in Seq(LogEntry)
    BY DEF TypeOK, StoreTyped
  <1>2. /\ Len(log') = Len(log) + 1 /\ log' \in Seq(LogEntry)
        /\ \A k \in 1 .. Len(log) : log'[k] = log[k]
        /\ log'[Len(log) + 1] = e
    BY WriteEffect
  <1> QED
    BY <1>1, <1>2

\* Where the events of an execution lead.
LEMMA Leads ==
  ASSUME TypeOK, NEW type, NEW pay, NEW sender, Written(type, pay, sender)
  PROVE  /\ Over => Over'
         /\ proj.state = "collecting" => type = "run_judging" \/ Over'
         /\ proj'.state = "judging" => type = "run_judging"
         /\ type = "run_judging" => proj.state \in {"running", "collecting"}
         /\ type = "run_judging" /\ pay.machineGate # Absent => proj'.machineGate = pay.machineGate
         /\ proj'.attempt = NextAttempt(proj, type, pay)
PROOF
  <1> DEFINE to == transitionRunState(proj.state, type)
  <1>1. proj \in Projection /\ pay \in Payload /\ type \in EventType /\ CanTransition(proj.state, type)
    BY DEF TypeOK, StoreTyped, Written
  <1>2. proj' = applyEvent(proj, type, pay)
    BY DEF Written, Write
  <1>3. /\ <<proj.state, type, to>> \in transitions
        /\ proj'.state = IF type = "run_resumed" /\ proj.state = "paused" /\ proj.attempt = None
                           THEN "queued" ELSE to
        /\ proj'.machineGate = NextMachineGate(proj, pay)
    BY <1>1, <1>2, ApplyMoves
  <1>4. proj'.attempt = NextAttempt(proj, type, pay)
    BY <1>2 DEF applyEvent
  <1>5. /\ proj.state \in TerminalState => to \in TerminalState
        /\ proj.state = "collecting" => type = "run_judging" \/ to \in TerminalState
        /\ to = "judging" => type = "run_judging"
        /\ type = "run_judging" => proj.state \in {"running", "collecting"}
    <2> HIDE DEF to
    <2> QED
      BY <1>3 DEF transitions, openTransitions, closedTransitions, TerminalState
  <1> HIDE DEF to
  <1> QED
    BY <1>3, <1>4, <1>5 DEF Over, TerminalState, NextMachineGate

LEMMA CommittedStays ==
  ASSUME TypeOK, NEW gate, Committed(gate),
         UNCHANGED log \/ \E type, pay, sender : Written(type, pay, sender)
  PROVE  Committed(gate)'
PROOF
  <1>1. Len(log) \in Nat
    BY DEF TypeOK, StoreTyped
  <1>2. CASE UNCHANGED log
    BY <1>2 DEF Committed
  <1>3. ASSUME NEW type, NEW pay, NEW sender, Written(type, pay, sender)
        PROVE  Committed(gate)'
    <2>1. Len(log') = Len(log) + 1 /\ \A i \in 1 .. Len(log) : log'[i] = log[i]
      BY <1>3, WriteEffect
    <2>2. PICK j \in 1 .. Len(log) : log[j].type = "run_judging" /\ log[j].gate = gate
      BY DEF Committed
    <2>3. j \in 1 .. Len(log') /\ log'[j] = log[j]
      BY <1>1, <2>1, <2>2
    <2> QED
      BY <2>2, <2>3 DEF Committed
  <1> QED
    BY <1>2, <1>3

\* The latest owner event, one event later.
LEMMA LatestMoves ==
  ASSUME TypeOK, NEW type, NEW pay, NEW sender, Written(type, pay, sender), NEW types,
         NEW n \in Nat, n = Len(log) + 1
  PROVE  /\ \A i \in 1 .. n : LatestBefore(i, types)' = LatestBefore(i, types)
         /\ LatestBefore(n + 1, types)' = IF type \in types THEN n ELSE LatestBefore(n, types)
PROOF
  <1> DEFINE Found(i) == {k \in 1 .. i - 1 : log[k].type \in types}
             FoundNext(i) == {k \in 1 .. i - 1 : log'[k].type \in types}
  <1>1. Len(log) \in Nat
    BY DEF TypeOK, StoreTyped
  <1>2. /\ \A k \in 1 .. Len(log) : log'[k] = log[k]
        /\ log'[n].type = type
    BY WriteLog
  <1>3. ASSUME NEW i \in 1 .. n
        PROVE  FoundNext(i) = Found(i)
    BY <1>1, <1>2, <1>3
  <1> DEFINE Latest(found) == IF found = {} THEN 0 ELSE CHOOSE k \in found : \A m \in found : m <= k
  <1>l. ASSUME NEW i
        PROVE  /\ LatestBefore(i, types) = Latest(Found(i))
               /\ LatestBefore(i, types)' = Latest(FoundNext(i))
    BY DEF LatestBefore
  <1>4. ASSUME NEW i \in 1 .. n
        PROVE  LatestBefore(i, types)' = LatestBefore(i, types)
    <2> HIDE DEF Latest, Found, FoundNext
    <2> QED
      BY <1>l, <1>3, <1>4
  <1>5. CASE type \in types
    <2>1. n \in FoundNext(n + 1) /\ \A k \in FoundNext(n + 1) : k \in Int /\ k <= n
      BY <1>1, <1>2, <1>5
    <2>2. (CHOOSE k \in FoundNext(n + 1) : \A m \in FoundNext(n + 1) : m <= k) = n
      <3> HIDE DEF FoundNext
      <3>1. \A k \in FoundNext(n + 1) : (\A m \in FoundNext(n + 1) : m <= k) => k = n
        BY <1>1, <2>1
      <3>2. n \in FoundNext(n + 1) /\ \A m \in FoundNext(n + 1) : m <= n
        BY <2>1
      <3> QED
        BY <3>1, <3>2
    <2>3. LatestBefore(n + 1, types)' = n
      <3>1. Latest(FoundNext(n + 1)) = n
        BY <2>1, <2>2
      <3> HIDE DEF Latest, Found, FoundNext
      <3> QED
        BY <1>l, <3>1
    <2> QED
      BY <1>4, <1>5, <2>3
  <1>6. CASE type \notin types
    <2>1. FoundNext(n + 1) = Found(n)
      BY <1>1, <1>2, <1>6
    <2>2. LatestBefore(n + 1, types)' = LatestBefore(n, types)
      <3> HIDE DEF Latest, Found, FoundNext
      <3> QED
        BY <1>l, <2>1
    <2> QED
      BY <1>4, <1>6, <2>2
  <1> QED
    BY <1>5, <1>6

LEMMA OwnersMove ==
  ASSUME TypeOK, OwnersKnown, NEW type, NEW pay, NEW sender, Written(type, pay, sender),
         type = "run_started" => pay.attempt = sender
  PROVE  /\ OwnersKnown'
         /\ \A i \in 1 .. Len(log) + 1 : OwnerBefore(i)' = OwnerBefore(i)
PROOF
  <1>0. PICK n \in Nat : n = Len(log) + 1
    BY DEF TypeOK, StoreTyped
  <1>1. Len(log) \in Nat /\ \A i \in 1 .. n : LatestBefore(i, OwnerTypes) \in 0 .. i - 1
    BY <1>0 DEF TypeOK, StoreTyped, OwnersKnown
  <1>2. /\ Len(log') = n /\ \A k \in 1 .. Len(log) : log'[k] = log[k]
        /\ log'[n].type = type /\ log'[n].attempt = sender
    BY <1>0, WriteLog
  <1>3. /\ \A i \in 1 .. n : LatestBefore(i, OwnerTypes)' = LatestBefore(i, OwnerTypes)
        /\ LatestBefore(n + 1, OwnerTypes)' =
             IF type \in OwnerTypes THEN n ELSE LatestBefore(n, OwnerTypes)
    BY <1>0, LatestMoves
  <1>4. \A i \in 1 .. Len(log') + 1 : LatestBefore(i, OwnerTypes)' \in 0 .. i - 1
    <2>1. n \in 1 .. n /\ LatestBefore(n, OwnerTypes) \in 0 .. n - 1
      BY <1>0, <1>1
    <2>2. LatestBefore(n + 1, OwnerTypes)' \in 0 .. n
      BY <1>1, <1>3, <2>1
    <2>3. ASSUME NEW i \in 1 .. n + 1
          PROVE  LatestBefore(i, OwnerTypes)' \in 0 .. i - 1
      <3>1. CASE i = n + 1
        <4>1. n = i - 1
          BY <1>0, <3>1
        <4> QED
          BY <2>2, <3>1, <4>1
      <3>2. CASE i \in 1 .. n
        BY <1>1, <1>3, <3>2
      <3> QED
        BY <1>1, <3>1, <3>2
    <2> QED
      BY <1>2, <2>3
  <1>5. ASSUME NEW i \in 1 .. n
        PROVE  OwnerBefore(i)' = OwnerBefore(i)
    <2> DEFINE k == LatestBefore(i, OwnerTypes)
    <2>1. k \in 0 .. i - 1 /\ LatestBefore(i, OwnerTypes)' = k
      BY <1>1, <1>3
    <2>2. k # 0 => log'[k] = log[k]
      BY <1>0, <1>1, <1>2, <2>1
    <2> HIDE DEF k
    <2>3. OwnerBefore(i) = IF k = 0 THEN None ELSE IF log[k].type = "run_started" THEN log[k].attempt ELSE None
      BY DEF OwnerBefore, OwnerTypes, k
    <2>4. OwnerBefore(i)' = IF k = 0 THEN None ELSE IF log'[k].type = "run_started" THEN log'[k].attempt ELSE None
      BY <2>1 DEF OwnerBefore, OwnerTypes
    <2> QED
      BY <2>2, <2>3, <2>4
  <1>6. OwnerBefore(n + 1)' = proj'.attempt
    <2>1. proj'.attempt = NextAttempt(proj, type, pay)
      BY Leads
    <2>2. CASE type \in OwnerTypes
      <3>1. LatestBefore(n + 1, OwnerTypes)' = n /\ n # 0
        BY <1>0, <1>1, <1>3, <2>2
      <3>2. OwnerBefore(n + 1)' = IF log'[n].type = "run_started" THEN log'[n].attempt ELSE None
        BY <3>1 DEF OwnerBefore, OwnerTypes
      <3>3. OwnerBefore(n + 1)' = IF type = "run_started" THEN sender ELSE None
        BY <1>2, <3>2
      <3> QED
        BY <2>1, <2>2, <3>3 DEF NextAttempt, OwnerTypes
    <2>3. CASE type \notin OwnerTypes
      <3>1. proj'.attempt = OwnerBefore(n)
        BY <1>0, <2>1, <2>3 DEF OwnersKnown, NextAttempt, OwnerTypes
      <3> DEFINE k == LatestBefore(n, OwnerTypes)
      <3>2. k \in 0 .. Len(log) /\ LatestBefore(n + 1, OwnerTypes)' = k
        BY <1>0, <1>1, <1>3, <2>3
      <3>3. k # 0 => log'[k] = log[k]
        BY <1>0, <1>1, <1>2, <3>2
      <3> HIDE DEF k
      <3>4. OwnerBefore(n) = IF k = 0 THEN None ELSE IF log[k].type = "run_started" THEN log[k].attempt ELSE None
        BY DEF OwnerBefore, OwnerTypes, k
      <3>5. OwnerBefore(n + 1)' = IF k = 0 THEN None ELSE IF log'[k].type = "run_started" THEN log'[k].attempt ELSE None
        BY <3>2 DEF OwnerBefore, OwnerTypes
      <3> QED
        BY <3>1, <3>3, <3>4, <3>5
    <2> QED
      BY <2>2, <2>3
  <1>7. OwnersKnown'
    <2>1. \A i \in 1 .. Len(log') + 1 : i = Len(log') + 1 => OwnerBefore(i)' = proj'.attempt
      BY <1>2, <1>6
    <2> QED
      BY <1>4, <2>1 DEF OwnersKnown
  <1> QED
    BY <1>0, <1>5, <1>7

\* An event that keeps to these rules keeps the log's invariants.
LEMMA LogKept ==
  ASSUME TypeOK, LogInv, NEW type, NEW pay, NEW sender, Written(type, pay, sender),
         type = "run_started" => pay.attempt = sender,
         type = "run_judging" => sender = proj.attempt /\ pay.machineGate # Absent,
         type \in ConclusionType => Committed(pay.machineGate)
  PROVE  LogInv'
PROOF
  <1> DEFINE n == Len(log) + 1
  <1>1. Len(log) \in Nat /\ log \in Seq(LogEntry)
    BY DEF TypeOK, StoreTyped
  <1>2. /\ Len(log') = n /\ \A k \in 1 .. Len(log) : log'[k] = log[k]
        /\ log'[n].type = type /\ log'[n].attempt = sender /\ log'[n].gate = pay.machineGate
        /\ DOMAIN log' = 1 .. n /\ DOMAIN log = 1 .. Len(log)
    BY WriteLog
  <1>3. DOMAIN log' = 1 .. n /\ DOMAIN log = 1 .. Len(log) /\ 1 .. n = 1 .. Len(log) \cup {n}
    BY <1>1, <1>2
  <1>4. OwnersKnown' /\ \A i \in 1 .. n : OwnerBefore(i)' = OwnerBefore(i)
    BY OwnersMove DEF LogInv
  <1>5. (proj.state = "judging" => Committed(proj.machineGate))'
    <2>1. SUFFICES ASSUME proj'.state = "judging" PROVE Committed(proj.machineGate)'
      OBVIOUS
    <2>2. type = "run_judging" /\ proj'.machineGate = pay.machineGate
      BY <2>1, Leads
    <2> QED
      BY <1>2, <1>3, <2>2 DEF Committed
  <1>6. JudgedByOwner'
    <2>1. ASSUME NEW i \in 1 .. n, log'[i].type = "run_judging"
          PROVE  log'[i].attempt = OwnerBefore(i)'
      <3>1. CASE i = n
        BY <1>2, <1>4, <2>1, <3>1 DEF LogInv, OwnersKnown
      <3>2. CASE i \in 1 .. Len(log)
        BY <1>2, <1>3, <1>4, <2>1, <3>2 DEF LogInv, JudgedByOwner
      <3> QED
        BY <1>3, <3>1, <3>2
    <2> QED
      BY <1>3, <2>1 DEF JudgedByOwner
  <1>7. ConclusionFromCommittedGate'
    <2>1. ASSUME NEW i \in 1 .. n, log'[i].type \in ConclusionType
          PROVE  \E j \in 1 .. i - 1 : log'[j].type = "run_judging" /\ log'[j].gate = log'[i].gate
      <3>1. CASE i = n
        <4>1. PICK j \in 1 .. Len(log) : log[j].type = "run_judging" /\ log[j].gate = pay.machineGate
          BY <1>2, <2>1, <3>1 DEF Committed
        <4>2. j \in 1 .. i - 1 /\ log'[j] = log[j]
          BY <1>1, <1>2, <3>1, <4>1
        <4> QED
          BY <1>2, <3>1, <4>1, <4>2
      <3>2. CASE i \in 1 .. Len(log)
        <4>1. log'[i] = log[i]
          BY <1>2, <3>2
        <4>2. PICK j \in 1 .. i - 1 : log[j].type = "run_judging" /\ log[j].gate = log[i].gate
          BY <1>3, <2>1, <3>2, <4>1 DEF LogInv, ConclusionFromCommittedGate
        <4>3. log'[j] = log[j]
          BY <1>1, <1>2, <3>2, <4>2
        <4> QED
          BY <4>1, <4>2, <4>3
      <3> QED
        BY <1>3, <3>1, <3>2
    <2> QED
      BY <1>3, <2>1 DEF ConclusionFromCommittedGate
  <1> QED
    BY <1>4, <1>5, <1>6, <1>7 DEF LogInv

(***************************************************************************)
(* What the graph continuations and the recoverers hold.  While a graph    *)
(* has a result to judge, the run collects for its attempt or is over; the *)
(* gate anybody concludes from is committed.                               *)
(***************************************************************************)
GraphHolds(a) ==
  /\ graph[a].pc \in {"gate", "judge"} =>
       \/ Over
       \/ /\ proj.state = "collecting" /\ proj.attempt = a
          /\ graph[a].base \in {Unread, proj.version}
  /\ graph[a].pc = "judge" => graph[a].gate # Absent
  /\ graph[a].pc \in {"route", "finalize"} => Over \/ Committed(graph[a].gate)
  /\ graph[a].pc = "conclude" => Committed(graph[a].gate)

SettleHolds(p) == recoverer[p].pc = "settle" => Committed(recoverer[p].gate)

Held == (\A a \in Attempt : GraphHolds(a)) /\ (\A p \in Recoverer : SettleHolds(p))

Judged == LogInv /\ Held

\* Where a graph continuation stands that holds nothing.
FreePc == {"none", "accept", "retry", "requeue", "done"}

SameTurn(a) ==
  graph'[a].pc = graph[a].pc /\ graph'[a].base = graph[a].base /\ graph'[a].gate = graph[a].gate

LEMMA FreeHolds ==
  ASSUME NEW a, graph'[a].pc \in FreePc
  PROVE  GraphHolds(a)'
  BY DEF GraphHolds, FreePc

LEMMA HoldsWhenRunStays ==
  ASSUME NEW a, GraphHolds(a), SameTurn(a), UNCHANGED <<proj, log>>
  PROVE  GraphHolds(a)'
  BY DEF GraphHolds, SameTurn, Over, Committed

LEMMA HoldsWhenWritten ==
  ASSUME TypeOK, NEW a \in Attempt, GraphHolds(a), SameTurn(a),
         NEW type, NEW pay, NEW sender, Written(type, pay, sender),
         type = "run_judging" => sender = proj.attempt /\ sender # a
  PROVE  GraphHolds(a)'
PROOF
  <1>1. /\ Over => Over'
        /\ proj.state = "collecting" => type = "run_judging" \/ Over'
    BY Leads
  <1>2. \A gate : Committed(gate) => Committed(gate)'
    BY CommittedStays
  <1> QED
    BY <1>1, <1>2 DEF GraphHolds, SameTurn, Committed

LEMMA GraphChanges ==
  ASSUME TypeOK, [Next]_vars, NEW a \in Attempt
  PROVE  GraphStep(a) \/ graph'[a].pc \in FreePc \/ SameTurn(a)
PROOF
  <1>0. graph \in [Attempt -> GraphRecord] /\ graph[a] \in GraphRecord
    BY DEF TypeOK, ActorsTyped
  <1>1. CASE UNCHANGED graph
    BY <1>1 DEF SameTurn
  <1>2. ASSUME NEW b \in Attempt, GraphStep(b), b # a
        PROVE  SameTurn(a)
    <2>1. CASE CollectAndGate(b)
      BY <1>0, <1>2, <2>1 DEF CollectAndGate, SameTurn
    <2>2. CASE GraphReadVersion(b)
      BY <1>0, <1>2, <2>2 DEF GraphReadVersion, SameTurn
    <2>3. ASSUME NEW pc, GraphGoto(b, pc)
          PROVE  SameTurn(a)
      BY <1>0, <1>2, <2>3 DEF GraphGoto, SameTurn
    <2>4. CASE GraphAppend(b)
      BY <2>3, <2>4 DEF GraphAppend, GraphReturned
    <2> QED
      BY <1>2, <2>1, <2>2, <2>3, <2>4 DEF GraphStep, AcceptResult, RouteGate, Finalize, Requeue
  <1>3. ASSUME NEW w \in Worker, WorkerStep(w)
        PROVE  graph'[a].pc \in FreePc \/ SameTurn(a)
    <2>1. CASE AcquireLease(w)
      <3>1. graph' = graph \/ graph' = [graph EXCEPT ![NewAttempt].owner = w]
        BY <2>1 DEF AcquireLease
      <3> QED
        BY <1>0, <3>1 DEF SameTurn, GraphRecord
    <2>2. CASE WorkerAppend(w)
      <3>1. \/ graph' = graph
            \/ graph' = [graph EXCEPT ![worker[w].attempt].pc = "accept",
                                      ![worker[w].attempt].generation = worker[w].job]
        BY <2>2 DEF WorkerAppend, Returned
      <3> QED
        BY <1>0, <3>1 DEF SameTurn, GraphRecord, FreePc
    <2>3. CASE ~AcquireLease(w) /\ ~WorkerAppend(w)
      <3>1. graph' = graph
        BY <1>3, <2>3
        DEF WorkerStep, Deliver, Recheck, BeforeStart, Execute, CheckRunning, Release, ReadVersion
      <3> QED
        BY <3>1 DEF SameTurn
    <2> QED
      BY <2>1, <2>2, <2>3
  <1>4. ASSUME NEW w \in Worker, Stall(w) \/ Crash(w)
        PROVE  graph'[a].pc \in FreePc \/ SameTurn(a)
    <2>1. CASE Stall(w)
      BY <2>1 DEF Stall, SameTurn
    <2>2. CASE Crash(w)
      <3>1. graph'[a] = IF graph[a].owner = w /\ graph[a].pc # "none"
                          THEN [graph[a] EXCEPT !.pc = "done"] ELSE graph[a]
        BY <2>2 DEF Crash
      <3> QED
        BY <1>0, <3>1 DEF SameTurn, FreePc, GraphRecord
    <2> QED
      BY <1>4, <2>1, <2>2
  <1>5. ASSUME NEW p \in Recoverer, RecovererStep(p)
        PROVE  UNCHANGED graph
    BY <1>5
    DEF RecovererStep, ListExpired, ReadExpired, ListJudging, ReadJudging, RecovererReadVersion,
        RetryExpired, SettleJudging, RecovererOnly
  <1>6. ASSUME Others \/ UNCHANGED vars
        PROVE  UNCHANGED graph
    BY <1>6 DEF Others, Publish, Expire, Heartbeat, Interrupt, Resume, Control, vars
  <1> QED
    BY <1>1, <1>2, <1>3, <1>4, <1>5, <1>6 DEF Next, Others

LEMMA RecovererChanges ==
  ASSUME TypeOK, [Next]_vars, NEW p \in Recoverer
  PROVE  \/ recoverer'[p] = recoverer[p]
         \/ ReadJudging(p) \/ RecovererReadVersion(p)
         \/ recoverer'[p].pc # "settle"
         \/ RecovererConflicts(p)
PROOF
  <1>0. recoverer \in [Recoverer -> RecovererRecord]
    BY DEF TypeOK, ActorsTyped
  <1>1. ASSUME NEW q \in Recoverer, RecovererStep(q), q # p
        PROVE  recoverer'[p] = recoverer[p]
    <2>1. CASE ListExpired(q) \/ ReadExpired(q) \/ ListJudging(q)
      BY <1>0, <1>1, <2>1 DEF ListExpired, ReadExpired, ListJudging, RecovererGoto
    <2>2. CASE ReadJudging(q) \/ RecovererReadVersion(q)
      BY <1>0, <1>1, <2>2 DEF ReadJudging, RecovererReadVersion
    <2>3. CASE RetryExpired(q) \/ SettleJudging(q)
      BY <1>0, <1>1, <2>3 DEF RetryExpired, SettleJudging, RecovererGoto, RecovererConflicts
    <2> QED
      BY <1>1, <2>1, <2>2, <2>3 DEF RecovererStep
  <1>2. ASSUME NEW pc, RecovererGoto(p, pc), pc # "settle"
        PROVE  recoverer'[p].pc # "settle"
    BY <1>0, <1>2 DEF RecovererGoto, Resting
  <1>3. CASE RecovererStep(p)
    <2>1. CASE ListExpired(p) \/ ListJudging(p)
      BY <1>2, <2>1 DEF ListExpired, ListJudging
    <2>2. CASE ReadExpired(p)
      BY <1>2, <2>2 DEF ReadExpired
    <2>3. CASE RetryExpired(p) \/ SettleJudging(p)
      BY <1>2, <2>3, SMTT(40) DEF RetryExpired, SettleJudging
    <2> QED
      BY <1>3, <2>1, <2>2, <2>3 DEF RecovererStep
  <1>4. ASSUME NEW w \in Worker, WorkerStep(w) \/ Stall(w) \/ Crash(w)
        PROVE  UNCHANGED recoverer
    BY <1>4
    DEF WorkerStep, Deliver, AcquireLease, Recheck, BeforeStart, Execute, CheckRunning, Release,
        ReadVersion, WorkerAppend, Stall, Crash
  <1>5. ASSUME NEW a \in Attempt, GraphStep(a)
        PROVE  UNCHANGED recoverer
    BY <1>5
    DEF GraphStep, AcceptResult, CollectAndGate, RouteGate, Finalize, Requeue, GraphReadVersion,
        GraphAppend, GraphOnly
  <1>6. ASSUME Others \/ UNCHANGED vars
        PROVE  UNCHANGED recoverer
    BY <1>6 DEF Others, Publish, Expire, Heartbeat, Interrupt, Resume, Control, vars
  <1> QED
    BY <1>1, <1>3, <1>4, <1>5, <1>6 DEF Next, Others

\* A graph continuation's own step.
LEMMA GraphStepHolds ==
  ASSUME TypeOK, Held, NEW a \in Attempt, GraphStep(a)
  PROVE  GraphHolds(a)'
PROOF
  <1>0. graph \in [Attempt -> GraphRecord] /\ graph[a] \in GraphRecord /\ GraphHolds(a)
    BY DEF TypeOK, ActorsTyped, Held
  <1>1. ASSUME NEW pc, GraphGoto(a, pc)
        PROVE  graph'[a].pc = pc /\ graph'[a].base = Unread /\ graph'[a].gate = graph[a].gate
    BY <1>0, <1>1 DEF GraphGoto, GraphRecord
  <1>2. CASE AcceptResult(a)
    BY <1>1, <1>2 DEF AcceptResult, GraphHolds, store
  <1>3. CASE CollectAndGate(a)
    <2>1. PICK g \in Gates :
            graph' = [graph EXCEPT ![a].gate = g,
                                   ![a].pc = IF proj.state = "collecting" THEN "judge" ELSE "route"]
      BY <1>3 DEF CollectAndGate
    <2>2. g # Absent
      BY ExecutionConstants DEF GateStatus, Absent
    <2>3. /\ graph'[a].pc = IF proj.state = "collecting" THEN "judge" ELSE "route"
          /\ graph'[a].gate = g /\ graph'[a].base = graph[a].base
      BY <1>0, <2>1 DEF GraphRecord
    <2>4. graph[a].pc = "gate" /\ UNCHANGED <<proj, log>>
      BY <1>3 DEF CollectAndGate, store
    <2>5. proj.state # "collecting" => Over
      BY <1>0, <2>4 DEF GraphHolds
    <2>6. Over' = Over
      BY <2>4 DEF Over
    <2>7. proj.state = "collecting" => ~Over
      BY DEF Over, TerminalState
    <2> QED
      BY <1>0, <2>2, <2>3, <2>4, <2>5, <2>6, <2>7 DEF GraphHolds
  <1>4. CASE RouteGate(a)
    BY <1>0, <1>1, <1>4 DEF RouteGate, GraphHolds, store, Over, Committed
  <1>5. CASE Finalize(a)
    <2>1. Over => proj.state \in ClosedState
      BY DEF Over, ClosedState
    <2>2. graph'[a].gate = graph[a].gate /\ UNCHANGED <<proj, log>>
      BY <1>1, <1>5 DEF Finalize, store
    <2>3. graph'[a].pc = "done" \/ (graph'[a].pc = "conclude" /\ Committed(graph[a].gate))
      BY <1>0, <1>1, <1>5, <2>1 DEF Finalize, GraphHolds
    <2> QED
      BY <2>2, <2>3 DEF GraphHolds, Committed
  <1>6. CASE Requeue(a)
    BY <1>1, <1>6, FreeHolds DEF Requeue, FreePc
  <1>7. CASE GraphReadVersion(a)
    <2>1. /\ graph'[a].pc = graph[a].pc /\ graph'[a].gate = graph[a].gate
          /\ graph'[a].base = proj.version
      BY <1>0, <1>7 DEF GraphReadVersion, GraphRecord
    <2>2. UNCHANGED <<proj, log>>
      BY <1>7 DEF GraphReadVersion, store
    <2> QED
      BY <1>0, <2>1, <2>2 DEF GraphHolds, Over, Committed
  <1>8. CASE GraphAppend(a)
    <2>1. PICK e \in GraphEvents(a) :
            \/ Commits(graph[a].base, e.type) /\ Write(e.type, e.payload, a) /\ GraphReturned(a)
            \/ Joins(graph[a].base, e.type) /\ GraphReturned(a) /\ UNCHANGED store
            \/ Conflicts(graph[a].base) /\ GraphGoto(a, graph[a].pc) /\ UNCHANGED store
            \/ GraphGoto(a, "done") /\ UNCHANGED store
      BY <1>8 DEF GraphAppend
    <2>2. GraphAppending(a) /\ graph[a].base # Unread
      BY <1>8 DEF GraphAppend
    <2>3. /\ e.type \in EventType /\ e.payload \in Payload
          /\ graph[a].pc = "judge" => e.type = "run_judging" /\ e.payload.machineGate = graph[a].gate
      BY <2>2, GraphEventTyped
    <2>4. ASSUME GraphReturned(a)
          PROVE  IF graph[a].pc = "judge"
                   THEN graph'[a].pc = "route" /\ graph'[a].gate = graph[a].gate
                   ELSE graph'[a].pc \in FreePc
      BY <1>1, <2>2, <2>4 DEF GraphReturned, GraphAppending, FreePc
    <2>5. CASE Write(e.type, e.payload, a) /\ Commits(graph[a].base, e.type) /\ GraphReturned(a)
      <3>1. CASE graph[a].pc = "judge"
        <4>1. Written(e.type, e.payload, a)
          BY <2>3, <2>5 DEF Written, Commits
        <4>2. /\ Len(log) \in Nat /\ Len(log') = Len(log) + 1
              /\ log'[Len(log')].type = e.type /\ log'[Len(log')].gate = e.payload.machineGate
          BY <4>1, WriteLog
        <4>3. Len(log') \in 1 .. Len(log')
          BY <4>2
        <4>4. graph'[a].pc = "route" /\ graph'[a].gate = graph[a].gate
          BY <2>4, <2>5, <3>1
        <4> QED
          BY <2>3, <3>1, <4>2, <4>3, <4>4 DEF GraphHolds, Committed
      <3> QED
        BY <2>4, <2>5, <3>1, FreeHolds
    <2>6. CASE Joins(graph[a].base, e.type) /\ GraphReturned(a) /\ UNCHANGED store
      <3>1. CASE graph[a].pc = "judge"
        <4>1. graph[a].base < proj.version /\ proj.version \in Int
          BY <2>6 DEF Joins, TypeOK, StoreTyped, Projection
        <4>2. Over
          BY <1>0, <2>2, <3>1, <4>1 DEF GraphHolds
        <4>3. Over' /\ graph'[a].pc = "route"
          BY <2>4, <2>6, <3>1, <4>2 DEF Over, store
        <4> QED
          BY <4>3 DEF GraphHolds
      <3> QED
        BY <2>4, <2>6, <3>1, FreeHolds
    <2>7. CASE GraphGoto(a, graph[a].pc) /\ UNCHANGED store
      BY <1>0, <1>1, <2>7 DEF GraphHolds, store, Over, Committed
    <2>8. CASE GraphGoto(a, "done") /\ UNCHANGED store
      BY <1>1, <2>8, FreeHolds DEF FreePc
    <2> QED
      BY <2>1, <2>5, <2>6, <2>7, <2>8
  <1> QED
    BY <1>2, <1>3, <1>4, <1>5, <1>6, <1>7, <1>8 DEF GraphStep

\* Every event that is written keeps to the rules of LogKept.
LEMMA WritesKeepRules ==
  ASSUME TypeOK, Judged, Writes
  PROVE  \E type, pay, sender :
           /\ Written(type, pay, sender)
           /\ type = "run_started" => pay.attempt = sender
           /\ type = "run_judging" =>
                /\ sender = proj.attempt /\ pay.machineGate # Absent
                /\ sender \in Attempt /\ graph[sender].pc = "judge" /\ GraphWrites(sender)
           /\ type \in ConclusionType => Committed(pay.machineGate)
PROOF
  <1>1. ASSUME NEW w \in Worker, WorkerWrites(w)
        PROVE  \E type, pay, sender :
                 /\ Written(type, pay, sender)
                 /\ type = "run_started" => pay.attempt = sender
                 /\ type # "run_judging" /\ type \notin ConclusionType
    <2>1. Appending(w) /\ Written(WorkerEvent[worker[w].pc], WorkerPayload(w), worker[w].attempt)
      BY <1>1 DEF WorkerWrites
    <2>2. /\ WorkerEvent[worker[w].pc] \in {"run_preparing", "run_started", "evidence_collecting"}
          /\ WorkerEvent[worker[w].pc] = "run_started" => WorkerPayload(w).attempt = worker[w].attempt
      BY <2>1, WorkerEventTyped
    <2> QED
      BY <2>1, <2>2 DEF ConclusionType
  <1>2. ASSUME NEW a \in Attempt, GraphWrites(a)
        PROVE  \E type, pay :
                 /\ Written(type, pay, a)
                 /\ type # "run_started"
                 /\ type = "run_judging" =>
                      a = proj.attempt /\ pay.machineGate # Absent /\ graph[a].pc = "judge"
                 /\ type \in ConclusionType => Committed(pay.machineGate)
    <2>1. PICK e \in GraphEvents(a) : Written(e.type, e.payload, a)
      BY <1>2 DEF GraphWrites
    <2>2. GraphAppending(a) /\ GraphHolds(a)
      BY <1>2 DEF GraphWrites, Judged, Held
    <2>3. /\ graph[a].pc = "judge" => e.type = "run_judging" /\ e.payload.machineGate = graph[a].gate
          /\ graph[a].pc = "retry" => e.type = "run_retrying"
          /\ graph[a].pc = "conclude" => e.type \in ConclusionType /\ e.payload.machineGate = graph[a].gate
      BY <2>2, GraphEventTyped
    <2>4. e.type = "run_judging" => ~Over
      BY <2>1, Leads DEF Over, TerminalState
    <2>5. graph[a].pc \in {"judge", "retry", "conclude"}
      BY <2>2 DEF GraphAppending
    <2>6. /\ graph[a].pc = "judge" /\ ~Over => proj.attempt = a /\ graph[a].gate # Absent
          /\ graph[a].pc = "conclude" => Committed(graph[a].gate)
      BY <2>2 DEF GraphHolds
    <2>7. e.type \in ConclusionType => e.type # "run_judging" /\ e.type # "run_retrying" /\ e.type # "run_started"
      BY DEF ConclusionType
    <2> QED
      BY <2>1, <2>3, <2>4, <2>5, <2>6, <2>7
  <1>3. ASSUME NEW p \in Recoverer, SettleWrites(p)
        PROVE  \E type, pay :
                 /\ Written(type, pay, None)
                 /\ type \notin {"run_started", "run_judging"}
                 /\ Committed(pay.machineGate)
    <2>1. PICK j \in Judges :
            LET e == Conclusion(recoverer[p].gate, j) IN Written(e.type, e.payload, None)
      BY <1>3 DEF SettleWrites
    <2> DEFINE e == Conclusion(recoverer[p].gate, j)
    <2>2. recoverer[p].gate \in GateStatus \cup {Absent}
      BY DEF TypeOK, ActorsTyped, RecovererRecord
    <2>3. e.type \in ConclusionType /\ e.payload.machineGate = recoverer[p].gate
      BY <2>2, ConclusionTyped
    <2>4. Committed(recoverer[p].gate)
      BY <1>3 DEF SettleWrites, Judged, Held, SettleHolds
    <2> HIDE DEF e
    <2>5. Written(e.type, e.payload, None)
      BY <2>1 DEF e
    <2> QED
      BY <2>3, <2>4, <2>5 DEF ConclusionType
  <1>4. ASSUME NEW p \in Recoverer, RetryWrites(p)
        PROVE  Written("run_retrying", NoPayload, None)
    BY <1>4 DEF RetryWrites
  <1>5. ASSUME ControlWrites
        PROVE  \E type \in {"run_paused", "run_cancelled", "run_resumed"} : Written(type, NoPayload, None)
    BY <1>5 DEF ControlWrites
  <1> QED
    BY <1>1, <1>2, <1>3, <1>4, <1>5 DEF Writes, ConclusionType

LEMMA SettleKept ==
  ASSUME TypeOK, LogInv, [Next]_vars, NEW p \in Recoverer, SettleHolds(p),
         UNCHANGED <<proj, log>> \/ \E type, pay, sender : Written(type, pay, sender)
  PROVE  SettleHolds(p)'
PROOF
  <1>0. recoverer \in [Recoverer -> RecovererRecord]
    BY DEF TypeOK, ActorsTyped
  <1>1. \A gate : Committed(gate) => Committed(gate)'
    BY CommittedStays
  <1>2. CASE ReadJudging(p)
    <2>1. UNCHANGED log
      BY <1>2 DEF ReadJudging, store
    <2>2. recoverer'[p] = IF proj.state = "judging"
                            THEN [Resting EXCEPT !.pc = "settle", !.gate = proj.machineGate]
                            ELSE Resting
      BY <1>0, <1>2 DEF ReadJudging
    <2>3. recoverer'[p].pc = "settle" => recoverer'[p].gate = proj.machineGate /\ proj.state = "judging"
      BY <2>2 DEF Resting
    <2> QED
      BY <2>1, <2>3 DEF SettleHolds, LogInv, Committed
  <1>3. CASE RecovererReadVersion(p) \/ RecovererConflicts(p)
    <2>1. recoverer'[p].pc = recoverer[p].pc /\ recoverer'[p].gate = recoverer[p].gate
      BY <1>0, <1>3 DEF RecovererReadVersion, RecovererConflicts, RecovererRecord
    <2> QED
      BY <1>1, <2>1 DEF SettleHolds, Committed
  <1>4. CASE recoverer'[p] = recoverer[p]
    BY <1>1, <1>4 DEF SettleHolds, Committed
  <1>5. CASE recoverer'[p].pc # "settle"
    BY <1>5 DEF SettleHolds
  <1> QED
    BY <1>2, <1>3, <1>4, <1>5, RecovererChanges

LEMMA JudgedKept ==
  ASSUME TypeOK, Judged, [Next]_vars
  PROVE  Judged'
PROOF
  <1>1. CASE UNCHANGED <<proj, log>>
    <2>1. LogInv'
      <3>1. log' = log /\ proj' = proj /\ LogInv
        BY <1>1 DEF Judged
      <3>2. \A i, types : LatestBefore(i, types)' = LatestBefore(i, types)
        BY <3>1 DEF LatestBefore
      <3>3. \A i : OwnerBefore(i)' = OwnerBefore(i)
        BY <3>1 DEF OwnerBefore, LatestBefore
      <3>4. OwnersKnown'
        BY <3>1, <3>2, <3>3 DEF LogInv, OwnersKnown
      <3>5. JudgedByOwner'
        BY <3>1, <3>3 DEF LogInv, JudgedByOwner
      <3>6. (proj.state = "judging" => Committed(proj.machineGate))' /\ ConclusionFromCommittedGate'
        BY <3>1 DEF LogInv, Committed, ConclusionFromCommittedGate
      <3> QED
        BY <3>4, <3>5, <3>6 DEF LogInv
    <2>2. ASSUME NEW a \in Attempt PROVE GraphHolds(a)'
      <3>1. GraphHolds(a)
        BY DEF Judged, Held
      <3> QED
        BY <1>1, <3>1, GraphChanges, GraphStepHolds, FreeHolds, HoldsWhenRunStays DEF Judged
    <2>3. ASSUME NEW p \in Recoverer PROVE SettleHolds(p)'
      BY <1>1, <2>3, SettleKept DEF Judged, Held
    <2> QED
      BY <2>1, <2>2, <2>3 DEF Judged, Held
  <1>2. CASE Writes
    <2>1. PICK type, pay, sender :
            /\ Written(type, pay, sender)
            /\ type = "run_started" => pay.attempt = sender
            /\ type = "run_judging" =>
                 /\ sender = proj.attempt /\ pay.machineGate # Absent
                 /\ sender \in Attempt /\ graph[sender].pc = "judge" /\ GraphWrites(sender)
            /\ type \in ConclusionType => Committed(pay.machineGate)
      BY <1>2, WritesKeepRules
    <2>2. LogInv'
      BY <2>1, LogKept DEF Judged
    <2>3. ASSUME NEW a \in Attempt PROVE GraphHolds(a)'
      <3>1. GraphHolds(a)
        BY DEF Judged, Held
      <3>2. CASE SameTurn(a)
        <4>1. type = "run_judging" => sender # a
          <5>1. ASSUME GraphWrites(a), graph[a].pc = "judge" PROVE FALSE
            <6>1. graph'[a].pc = "route"
              BY <5>1 DEF GraphWrites, GraphReturned, GraphGoto, TypeOK, ActorsTyped, GraphRecord
            <6> QED
              BY <3>2, <5>1, <6>1 DEF SameTurn
          <5> QED
            BY <2>1, <5>1
        <4> QED
          BY <2>1, <3>1, <3>2, <4>1, HoldsWhenWritten
      <3> QED
        BY <3>2, GraphChanges, GraphStepHolds, FreeHolds DEF Judged
    <2>4. ASSUME NEW p \in Recoverer PROVE SettleHolds(p)'
      BY <2>1, <2>4, SettleKept DEF Judged, Held
    <2> QED
      BY <2>2, <2>3, <2>4 DEF Judged, Held
  <1> QED
    BY <1>1, <1>2, Moves

LEMMA JudgedInit == Init => Judged
PROOF
  <1> SUFFICES ASSUME Init PROVE Judged
    OBVIOUS
  <1>1. /\ log = ApprovedLog /\ proj.state = "queued" /\ proj.attempt = None
        /\ graph = [a \in Attempt |-> NoGraph] /\ recoverer = [p \in Recoverer |-> Resting]
    BY DEF Init, ApprovedRun, DraftRun
  <1>2. DOMAIN log = 1 .. 4 /\ Len(log) = 4
    BY <1>1, InitTyped DEF ApprovedLog, TypeOK, StoreTyped
  <1>3. \A i \in 1 .. 4 :
          log[i].type \in {"run_created", "plan_generated", "plan_approved", "permission_granted"}
    BY <1>1 DEF ApprovedLog, Entry
  <1>4. ASSUME NEW i \in 1 .. 5
        PROVE  LatestBefore(i, OwnerTypes) = 0 /\ OwnerBefore(i) = None
    <2>1. {k \in 1 .. i - 1 : log[k].type \in OwnerTypes} = {}
      BY <1>3 DEF OwnerTypes
    <2>2. LatestBefore(i, OwnerTypes) = 0
      BY <2>1 DEF LatestBefore
    <2> QED
      BY <2>2 DEF OwnerBefore, OwnerTypes
  <1>5. OwnersKnown
    BY <1>1, <1>2, <1>4 DEF OwnersKnown
  <1>6. JudgedByOwner /\ ConclusionFromCommittedGate
    BY <1>2, <1>3 DEF JudgedByOwner, ConclusionFromCommittedGate, ConclusionType
  <1>7. Held
    BY <1>1 DEF Held, GraphHolds, SettleHolds, NoGraph, Resting
  <1> QED
    BY <1>1, <1>5, <1>6, <1>7 DEF Judged, LogInv

LEMMA JudgedAlways == Spec => []Judged
PROOF
  <1>1. Judged /\ TypeOK /\ [Next]_vars => Judged'
    BY JudgedKept
  <1> QED
    BY <1>1, JudgedInit, TypeCorrect, PTL DEF Spec

\* Fencing at the graph, for any number of workers, attempts and recoverers and any
\* failures: a gate is committed only for the result of the attempt that owns the
\* run, however late the result, its graph or another worker is.
THEOREM JudgedByOwnerAlways == Spec => []JudgedByOwner
PROOF
  <1>1. Judged => JudgedByOwner
    BY DEF Judged, LogInv
  <1> QED
    BY <1>1, JudgedAlways, PTL

\* No graph, recoverer or late handler concludes a run from a verdict that no attempt
\* of the run has committed before.
THEOREM ConclusionFromCommittedGateAlways == Spec => []ConclusionFromCommittedGate
PROOF
  <1>1. Judged => ConclusionFromCommittedGate
    BY DEF Judged, LogInv
  <1> QED
    BY <1>1, JudgedAlways, PTL

(***************************************************************************)
(* The lease.                                                              *)
(***************************************************************************)
\* The steps that touch the row of the lease or a heartbeat.
LEMMA LeaseMoves ==
  ASSUME [Next]_vars
  PROVE  \/ UNCHANGED <<lease, beating>>
         \/ \E w \in Worker : AcquireLease(w) \/ Stall(w) \/ Crash(w)
         \/ \E w \in Worker : WorkerStep(w) /\ worker[w].pc \notin Unleased /\ ReleaseLease(w)
         \/ /\ lease' = lease \/ lease.expired
            /\ UNCHANGED <<beating, worker, graph, budget>>
         \/ Expire
PROOF
  <1>1. ASSUME NEW w \in Worker, WorkerStep(w), ~AcquireLease(w)
        PROVE  UNCHANGED <<lease, beating>> \/ (worker[w].pc \notin Unleased /\ ReleaseLease(w))
    BY <1>1
    DEF WorkerStep, Deliver, Recheck, BeforeStart, Execute, CheckRunning, Release, ReadVersion,
        WorkerAppend, Unleased
  <1>2. ASSUME NEW a \in Attempt, GraphStep(a)
        PROVE  UNCHANGED <<lease, beating>>
    BY <1>2
    DEF GraphStep, AcceptResult, CollectAndGate, RouteGate, Finalize, Requeue, GraphReadVersion,
        GraphAppend, GraphOnly
  <1>3. ASSUME NEW p \in Recoverer, RecovererStep(p)
        PROVE  (lease' = lease \/ lease.expired) /\ UNCHANGED <<beating, worker, graph, budget>>
    BY <1>3
    DEF RecovererStep, ListExpired, ReadExpired, ListJudging, ReadJudging, RecovererReadVersion,
        RetryExpired, SettleJudging, RecovererConflicts, RecovererOnly
  <1>4. Heartbeat => lease.expired /\ UNCHANGED <<beating, worker, graph, budget>>
    BY DEF Heartbeat
  <1>5. Publish \/ Interrupt \/ Resume \/ UNCHANGED vars => UNCHANGED <<lease, beating>>
    BY DEF Publish, Interrupt, Resume, Control, vars
  <1> QED
    BY <1>1, <1>2, <1>3, <1>4, <1>5 DEF Next

\* A lease that has not expired is given up by the worker that holds it and by nobody
\* else, for any number of workers and recoverers and with any stalls and crashes.
THEOREM LiveLeaseIsHeld == Spec => LiveLeaseIsItsHolders
PROOF
  <1> DEFINE Kept == lease.attempt # None /\ ~lease.expired /\ lease'.attempt # lease.attempt
                       => \E w \in Worker :
                            /\ worker[w].attempt = lease.attempt
                            /\ worker'[w].attempt = None
  <1>1. TypeOK /\ [Next]_vars => Kept
    <2> SUFFICES ASSUME TypeOK, [Next]_vars, lease.attempt # None, ~lease.expired,
                        lease'.attempt # lease.attempt
                 PROVE  \E w \in Worker :
                          worker[w].attempt = lease.attempt /\ worker'[w].attempt = None
      OBVIOUS
    <2>1. \A w \in Worker : ~AcquireLease(w)
      BY DEF AcquireLease
    <2>2. \A w \in Worker : Stall(w) \/ Crash(w) => lease'.attempt = lease.attempt
      BY DEF Stall, Crash, TypeOK, ActorsTyped
    <2>3. Expire => lease'.attempt = lease.attempt
      BY DEF Expire, TypeOK, ActorsTyped
    <2>4. PICK w \in Worker : ReleaseLease(w)
      BY <2>1, <2>2, <2>3, LeaseMoves
    <2>5. worker'[w] = Idle /\ lease.attempt = worker[w].attempt
      BY <2>4 DEF ReleaseLease, TypeOK, ActorsTyped
    <2> QED
      BY <2>5 DEF Idle
  <1> QED
    BY <1>1, TypeCorrect, PTL DEF Spec, LiveLeaseIsItsHolders

(***************************************************************************)
(* Until one stalls, a worker past the acquisition has the lease, and      *)
(* there is one such worker.                                               *)
(***************************************************************************)
HasLease(w) ==
  /\ worker[w].attempt = None <=> worker[w].pc \in Unleased
  /\ worker[w].attempt # None =>
       /\ lease.attempt = worker[w].attempt /\ ~lease.expired
       /\ worker[w].attempt \in beating
       /\ graph[worker[w].attempt].owner = w

Exclusive == \A w \in Worker : HasLease(w)

\* No worker has outlived its lease yet.
Unstalled == budget.stalls = MaxStalls
StallsBounded == budget.stalls <= MaxStalls

LEMMA OneHolder ==
  ASSUME Exclusive, NEW v \in Worker, NEW w \in Worker,
         worker[v].attempt # None, worker[w].attempt # None
  PROVE  v = w
  BY DEF Exclusive, HasLease

\* Nobody takes over the graph of another.
LEMMA OwnersStay ==
  ASSUME TypeOK, [Next]_vars, NEW a \in Attempt, graph[a].owner # None
  PROVE  graph'[a].owner = graph[a].owner
PROOF
  <1>0. graph \in [Attempt -> GraphRecord] /\ graph[a] \in GraphRecord
    BY DEF TypeOK, ActorsTyped
  <1>1. CASE UNCHANGED graph
    BY <1>1
  <1>2. ASSUME NEW b \in Attempt, GraphStep(b)
        PROVE  graph'[a].owner = graph[a].owner
    <2>1. CASE CollectAndGate(b)
      <3>1. PICK g \in Gates :
              graph' = [graph EXCEPT ![b].gate = g,
                                     ![b].pc = IF proj.state = "collecting" THEN "judge" ELSE "route"]
        BY <2>1 DEF CollectAndGate
      <3> QED
        BY <1>0, <3>1 DEF GraphRecord
    <2>2. CASE GraphReadVersion(b)
      BY <1>0, <1>2, <2>2 DEF GraphReadVersion, GraphRecord
    <2>3. ASSUME NEW pc, GraphGoto(b, pc)
          PROVE  graph'[a].owner = graph[a].owner
      BY <1>0, <1>2, <2>3 DEF GraphGoto, GraphRecord
    <2>4. CASE GraphAppend(b)
      BY <2>3, <2>4 DEF GraphAppend, GraphReturned
    <2> QED
      BY <1>2, <2>1, <2>2, <2>3, <2>4 DEF GraphStep, AcceptResult, RouteGate, Finalize, Requeue
  <1>3. ASSUME NEW w \in Worker, WorkerStep(w)
        PROVE  graph'[a].owner = graph[a].owner
    <2>1. CASE AcquireLease(w)
      <3>1. graph' = graph \/ (Issued # Attempt /\ graph' = [graph EXCEPT ![NewAttempt].owner = w])
        BY <2>1 DEF AcquireLease
      <3>2. Issued # Attempt => NewAttempt # a
        BY DEF NewAttempt, Issued
      <3> HIDE DEF NewAttempt
      <3> QED
        BY <1>0, <3>1, <3>2 DEF GraphRecord
    <2>2. CASE WorkerAppend(w)
      <3>1. \/ graph' = graph
            \/ graph' = [graph EXCEPT ![worker[w].attempt].pc = "accept",
                                      ![worker[w].attempt].generation = worker[w].job]
        BY <2>2 DEF WorkerAppend, Returned
      <3> QED
        BY <1>0, <3>1 DEF GraphRecord
    <2>3. CASE ~AcquireLease(w) /\ ~WorkerAppend(w)
      <3>1. graph' = graph
        BY <1>3, <2>3
        DEF WorkerStep, Deliver, Recheck, BeforeStart, Execute, CheckRunning, Release, ReadVersion
      <3> QED
        BY <3>1
    <2> QED
      BY <2>1, <2>2, <2>3
  <1>4. ASSUME NEW w \in Worker, Stall(w) \/ Crash(w)
        PROVE  graph'[a].owner = graph[a].owner
    <2>1. CASE Stall(w)
      BY <2>1 DEF Stall
    <2>2. CASE Crash(w)
      <3>1. graph'[a] = IF graph[a].owner = w /\ graph[a].pc # "none"
                          THEN [graph[a] EXCEPT !.pc = "done"] ELSE graph[a]
        BY <2>2 DEF Crash
      <3> QED
        BY <1>0, <3>1 DEF GraphRecord
    <2> QED
      BY <1>4, <2>1, <2>2
  <1>5. ASSUME NEW p \in Recoverer, RecovererStep(p)
        PROVE  UNCHANGED graph
    BY <1>5
    DEF RecovererStep, ListExpired, ReadExpired, ListJudging, ReadJudging, RecovererReadVersion,
        RetryExpired, SettleJudging, RecovererOnly
  <1>6. ASSUME Others \/ UNCHANGED vars
        PROVE  UNCHANGED graph
    BY <1>6 DEF Others, Publish, Expire, Heartbeat, Interrupt, Resume, Control, vars
  <1> QED
    BY <1>1, <1>2, <1>3, <1>4, <1>5, <1>6 DEF Next, Others

\* Stalls are spent by stalls only, and never come back.
LEMMA StallsSpent ==
  ASSUME TypeOK, StallsBounded, [Next]_vars
  PROVE  /\ StallsBounded'
         /\ Unstalled' => Unstalled /\ \A w \in Worker : ~Stall(w)
PROOF
  <1>0. /\ budget \in [{"crashes", "stalls", "controls", "retries", "all"} -> Nat]
        /\ budget.stalls \in Nat /\ MaxStalls \in Nat
    BY ExecutionConstants DEF TypeOK, ActorsTyped
  <1>1. CASE \E w \in Worker : Stall(w)
    <2>1. budget.stalls > 0 /\ budget'.stalls = budget.stalls - 1
      BY <1>0, <1>1 DEF Stall, Spend
    <2> QED
      BY <1>0, <2>1 DEF StallsBounded, Unstalled
  <1>2. ASSUME budget'.stalls = budget.stalls, \A w \in Worker : ~Stall(w)
        PROVE  /\ StallsBounded'
               /\ Unstalled' => Unstalled /\ \A w \in Worker : ~Stall(w)
    BY <1>2 DEF StallsBounded, Unstalled
  <1>3. ASSUME NEW kind \in {"crashes", "controls", "retries"}, UNCHANGED budget \/ Spend(kind)
        PROVE  budget'.stalls = budget.stalls
    BY <1>0, <1>3 DEF Spend
  <1>4. ASSUME NEW w \in Worker, WorkerStep(w) \/ Crash(w)
        PROVE  UNCHANGED budget \/ Spend("crashes")
    BY <1>4
    DEF WorkerStep, Deliver, AcquireLease, Recheck, BeforeStart, Execute, CheckRunning, Release,
        ReadVersion, WorkerAppend, Crash
  <1>5. ASSUME NEW a \in Attempt, GraphStep(a)
        PROVE  UNCHANGED budget \/ Spend("retries")
    BY <1>5
    DEF GraphStep, AcceptResult, CollectAndGate, RouteGate, Finalize, Requeue, GraphReadVersion,
        GraphAppend
  <1>6. ASSUME NEW p \in Recoverer, RecovererStep(p)
        PROVE  UNCHANGED budget
    BY <1>6
    DEF RecovererStep, ListExpired, ReadExpired, ListJudging, ReadJudging, RecovererReadVersion,
        RetryExpired, SettleJudging, RecovererOnly
  <1>7. ASSUME Others \/ UNCHANGED vars
        PROVE  UNCHANGED budget \/ Spend("controls")
    BY <1>7 DEF Others, Publish, Expire, Heartbeat, Interrupt, Resume, Control, vars
  <1> QED
    BY <1>1, <1>2, <1>3, <1>4, <1>5, <1>6, <1>7 DEF Next, Others

\* A worker keeps its lease while it does not move and nobody takes the row.
LEMMA KeepsLease ==
  ASSUME TypeOK, [Next]_vars, NEW w \in Worker, HasLease(w),
         worker'[w].attempt = worker[w].attempt,
         worker'[w].pc \in Unleased <=> worker[w].pc \in Unleased,
         worker[w].attempt # None =>
           lease' = lease /\ worker[w].attempt \in beating'
  PROVE  HasLease(w)'
PROOF
  <1>1. worker[w].attempt \in Attempt \cup {None}
    BY DEF TypeOK, ActorsTyped, WorkerRecord
  <1>2. CASE worker[w].attempt = None
    BY <1>2 DEF HasLease, Unleased
  <1>3. CASE worker[w].attempt # None
    <2>1. graph[worker[w].attempt].owner = w /\ w # None
      BY <1>3, ExecutionConstants DEF HasLease
    <2>2. graph'[worker[w].attempt].owner = w
      BY <1>1, <1>3, <2>1, OwnersStay
    <2> QED
      BY <1>3, <2>2 DEF HasLease, Unleased
  <1> QED
    BY <1>2, <1>3

LEMMA IdleHasLease ==
  ASSUME NEW w, worker'[w] = Idle
  PROVE  HasLease(w)'
  BY DEF HasLease, Idle, Unleased

LEMMA ExclusiveKept ==
  ASSUME TypeOK, StallsBounded, Exclusive, Unstalled', [Next]_vars
  PROVE  Exclusive'
PROOF
  <1>0. worker \in [Worker -> WorkerRecord] /\ beating \subseteq Attempt
    BY DEF TypeOK, ActorsTyped
  <1>1. \A w \in Worker : ~Stall(w)
    BY StallsSpent
  <1>2. \A v \in Worker : HasLease(v)
    BY DEF Exclusive
  <1>3. ASSUME NEW w \in Worker, AcquireLease(w), NEW v \in Worker
        PROVE  HasLease(v)'
    <2>1. CASE worker' = [worker EXCEPT ![w] = Idle] /\ UNCHANGED <<lease, beating, graph>>
      <3>1. CASE v = w
        BY <1>0, <2>1, <3>1, IdleHasLease
      <3>2. CASE v # w
        BY <1>0, <1>2, <2>1, <3>2, KeepsLease DEF HasLease
      <3> QED
        BY <3>1, <3>2
    <2> DEFINE a == NewAttempt
    <2>2. CASE /\ lease.attempt = None \/ lease.expired
               /\ Issued # Attempt
               /\ lease' = [attempt |-> a, expired |-> FALSE]
               /\ beating' = beating \cup {a}
               /\ graph' = [graph EXCEPT ![a].owner = w]
               /\ worker' = [worker EXCEPT ![w].pc = "recheck", ![w].attempt = a]
      <3>1. a \in Attempt
        BY <2>2 DEF NewAttempt, Issued
      <3>2. worker[v].attempt = None
        BY <1>2, <2>2 DEF HasLease
      <3> HIDE DEF a
      <3>3. CASE v = w
        <4>1. worker'[w].pc = "recheck" /\ worker'[w].attempt = a /\ a # None
          BY <1>0, <2>2, <3>1, NoneIsNoAttempt DEF WorkerRecord
        <4>2. graph'[a].owner = w
          BY <2>2, <3>1 DEF TypeOK, ActorsTyped, GraphRecord
        <4> QED
          BY <2>2, <3>3, <4>1, <4>2 DEF HasLease, Unleased
      <3>4. CASE v # w
        BY <1>0, <1>2, <2>2, <3>2, <3>4, KeepsLease
      <3> QED
        BY <3>3, <3>4
    <2> QED
      BY <1>3, <2>1, <2>2 DEF AcquireLease
  <1>4. ASSUME NEW w \in Worker, WorkerStep(w), worker[w].pc \notin Unleased, ReleaseLease(w),
               NEW v \in Worker
        PROVE  HasLease(v)'
    <2>1. CASE v = w
      BY <1>0, <1>4, <2>1, IdleHasLease DEF ReleaseLease
    <2>2. CASE v # w
      <3>1. worker[v].attempt = None
        BY <1>2, <1>4, <2>2, OneHolder DEF HasLease
      <3> QED
        BY <1>0, <1>2, <1>4, <2>2, <3>1, KeepsLease DEF ReleaseLease
    <2> QED
      BY <2>1, <2>2
  <1>5. ASSUME NEW w \in Worker, WorkerStep(w), ~AcquireLease(w), UNCHANGED <<lease, beating>>,
               NEW v \in Worker
        PROVE  HasLease(v)'
    <2>1. CASE worker'[w] = Idle /\ v = w
      BY <2>1, IdleHasLease
    <2>2. CASE v # w \/ worker' = worker
      <3>1. worker'[v] = worker[v]
        BY <1>5, <2>2, WorkerChanges DEF WorkerOnly
      <3> QED
        BY <1>2, <1>5, <3>1, KeepsLease DEF HasLease
    <2>3. CASE v = w /\ worker'[w].attempt = None /\ worker'[w].pc = "acquire"
      BY <2>3 DEF HasLease, Unleased
    <2>4. CASE /\ v = w /\ worker[w].pc \notin Unleased /\ worker'[w].pc \notin Unleased
               /\ worker'[w].attempt = worker[w].attempt
      BY <1>2, <1>5, <2>4, KeepsLease DEF HasLease
    <2> QED
      BY <1>5, <2>1, <2>2, <2>3, <2>4, WorkerChanges
  <1>6. ASSUME NEW w \in Worker, Crash(w), NEW v \in Worker
        PROVE  HasLease(v)'
    <2>1. /\ worker' = [worker EXCEPT ![w] = Idle] /\ lease' = lease
          /\ beating' = {a \in beating : graph[a].owner # w}
      BY <1>6 DEF Crash
    <2>2. CASE v = w
      BY <1>0, <2>1, <2>2, IdleHasLease
    <2>3. CASE v # w
      <3>1. worker'[v] = worker[v]
        BY <1>0, <2>1, <2>3
      <3>2. worker[v].attempt # None => worker[v].attempt \in beating'
        BY <1>2, <2>1, <2>3 DEF HasLease
      <3> QED
        BY <1>2, <2>1, <3>1, <3>2, KeepsLease
    <2> QED
      BY <2>2, <2>3
  <1>7. ASSUME UNCHANGED worker, Expire \/ UNCHANGED beating, Expire \/ lease' = lease \/ lease.expired,
               NEW v \in Worker
        PROVE  HasLease(v)'
    <2>1. worker[v].attempt # None => lease' = lease /\ worker[v].attempt \in beating'
      BY <1>2, <1>7 DEF HasLease, Expire
    <2> QED
      BY <1>2, <1>7, <2>1, KeepsLease
  <1>8. ASSUME NEW v \in Worker
        PROVE  HasLease(v)'
    <2>1. CASE UNCHANGED worker
      <3>1. ASSUME NEW w \in Worker, ReleaseLease(w), worker[w].pc \notin Unleased
            PROVE  FALSE
        BY <1>0, <2>1, <3>1 DEF ReleaseLease, Idle, Unleased
      <3>2. ASSUME NEW w \in Worker, AcquireLease(w) \/ Crash(w)
            PROVE  HasLease(v)'
        BY <1>3, <1>6, <3>2
      <3> QED
        BY <1>1, <1>7, <2>1, <3>1, <3>2, LeaseMoves
    <2>2. CASE \E w \in Worker : WorkerStep(w)
      <3>1. PICK w \in Worker : WorkerStep(w)
        BY <2>2
      <3>2. AcquireLease(w) \/ UNCHANGED <<lease, beating>> \/ (worker[w].pc \notin Unleased /\ ReleaseLease(w))
        BY <3>1
        DEF WorkerStep, Deliver, Recheck, BeforeStart, Execute, CheckRunning, Release, ReadVersion,
            WorkerAppend, Unleased
      <3> QED
        BY <1>3, <1>4, <1>5, <3>1, <3>2
    <2>3. CASE \E w \in Worker : Crash(w)
      BY <1>6, <2>3
    <2> QED
      BY <1>1, <2>1, <2>2, <2>3, WorkerMovers
  <1> QED
    BY <1>8 DEF Exclusive

(***************************************************************************)
(* What the holder of the lease writes.                                    *)
(***************************************************************************)
Starting == {"prepare", "beforeStart", "start"}

NotStarted(version) ==
  \A i \in 1 .. Len(log) : log[i].type = "run_started" => log[i].generation # version

\* Where a holder stands: while it starts its job nobody has started the version, and
\* while it collects nobody else owns the run.
Fenced(w) ==
  /\ worker[w].pc \in Starting => NotStarted(worker[w].job)
  /\ worker[w].pc = "collect" => proj.attempt \in {worker[w].attempt, None}

StartsKnown ==
  \A i \in 1 .. Len(log) : log[i].type = "run_started" => log[i].generation < i

FencingInv ==
  /\ \A w \in Worker : Fenced(w)
  /\ StartsKnown
  /\ proj.state = "running" => proj.attempt # None
  /\ EvidenceByOwner
  /\ VersionStartsOnce

\* A worker that comes to start its job just saw the run at its version, and one that
\* comes to collect just saw that it owns the run.
LEMMA WorkerEnters ==
  ASSUME TypeOK, [Next]_vars, NEW w \in Worker
  PROVE  /\ worker'[w].pc \in Starting =>
              /\ worker'[w].job = worker[w].job
              /\ \/ worker[w].pc \in Starting
                 \/ UNCHANGED <<proj, log>> /\ proj.version = worker[w].job
         /\ worker'[w].pc = "collect" =>
              /\ worker'[w].attempt = worker[w].attempt
              /\ \/ worker[w].pc = "collect"
                 \/ UNCHANGED <<proj, log>> /\ proj.attempt = worker[w].attempt
PROOF
  <1>0. worker \in [Worker -> WorkerRecord] /\ worker[w] \in WorkerRecord
    BY DEF TypeOK, ActorsTyped
  <1>1. CASE worker'[w] = worker[w]
    BY <1>1
  <1>2. CASE worker'[w] = Idle
    BY <1>2 DEF Idle, Starting
  <1>3. ASSUME NEW pc, Goto(w, pc)
        PROVE  /\ worker'[w].pc = pc /\ worker'[w].job = worker[w].job
               /\ worker'[w].attempt = worker[w].attempt
    BY <1>0, <1>3 DEF Goto, WorkerRecord
  <1>4. ASSUME worker'[w] # worker[w]
        PROVE  WorkerStep(w) \/ worker'[w] = Idle
    <2>1. PICK v \in Worker : WorkerStep(v) \/ Stall(v) \/ Crash(v)
      BY <1>4, WorkerMovers
    <2>2. WorkerStep(v) => v = w
      BY <1>4, <2>1, WorkerChanges DEF WorkerOnly
    <2>3. ~Stall(v)
      BY <1>4 DEF Stall
    <2>4. Crash(v) => worker'[w] = Idle
      BY <1>0, <1>4 DEF Crash
    <2> QED
      BY <2>1, <2>2, <2>3, <2>4
  <1>5. CASE Recheck(w)
    <2>1. UNCHANGED <<proj, log>>
      BY <1>5 DEF Recheck, store
    <2>2. CASE ReleaseLease(w)
      BY <1>0, <1>2, <2>2 DEF ReleaseLease
    <2>3. CASE IsCurrent(worker[w].job) /\ \E pc \in {"prepare", "beforeStart"} : Goto(w, pc)
      BY <1>3, <2>1, <2>3 DEF IsCurrent
    <2> QED
      BY <1>5, <2>2, <2>3 DEF Recheck
  <1>6. CASE BeforeStart(w)
    BY <1>3, <1>6 DEF BeforeStart, Starting
  <1>7. CASE CheckRunning(w)
    <2>1. UNCHANGED <<proj, log>>
      BY <1>7 DEF CheckRunning, store
    <2> QED
      BY <1>3, <1>7, <2>1 DEF CheckRunning, Starting
  <1>8. CASE Execute(w)
    <2>1. PICK c \in BOOLEAN : worker' = [worker EXCEPT ![w].pc = "check", ![w].caught = c]
      BY <1>8 DEF Execute
    <2>2. worker'[w].pc = "check"
      BY <1>0, <2>1 DEF WorkerRecord
    <2> QED
      BY <2>2 DEF Starting
  <1>9. CASE ReadVersion(w)
    <2>1. worker' = [worker EXCEPT ![w].base = proj.version]
      BY <1>9 DEF ReadVersion
    <2> QED
      BY <1>0, <2>1 DEF WorkerRecord
  <1>10. CASE WorkerAppend(w)
    <2>1. worker[w].pc \in {"prepare", "start", "collect"}
      BY <1>10 DEF WorkerAppend, Appending, WorkerEvent
    <2>2. CASE Returned(w)
      <3>1. WorkerNext.prepare = "beforeStart" /\ WorkerNext.start = "execute" /\ WorkerNext.collect = "release"
        BY DEF WorkerNext
      <3>2. /\ worker'[w].pc = WorkerNext[worker[w].pc] /\ worker'[w].job = worker[w].job
            /\ worker'[w].attempt = worker[w].attempt
        BY <1>3, <2>2 DEF Returned
      <3> QED
        BY <2>1, <3>1, <3>2 DEF Starting
    <2>3. CASE worker' = [worker EXCEPT ![w].base = Unread]
      BY <1>0, <2>3 DEF WorkerRecord
    <2>4. CASE Threw(w)
      <3>1. CASE worker' = [worker EXCEPT ![w] = Idle]
        BY <1>0, <1>2, <3>1
      <3>2. CASE worker' = [worker EXCEPT ![w].pc = "check", ![w].base = Unread, ![w].caught = TRUE]
        <4>1. worker'[w].pc = "check"
          BY <1>0, <3>2 DEF WorkerRecord
        <4> QED
          BY <4>1 DEF Starting
      <3>3. CASE Goto(w, "release")
        BY <1>3, <3>3 DEF Starting
      <3> QED
        BY <2>4, <3>1, <3>2, <3>3 DEF Threw
    <2> QED
      BY <1>10, <2>2, <2>3, <2>4 DEF WorkerAppend
  <1>11. CASE Deliver(w) \/ AcquireLease(w) \/ Release(w)
    <2>1. worker'[w] = worker[w] \/ worker'[w] = Idle \/ worker'[w].pc \in {"acquire", "recheck"}
      <3>1. CASE Release(w)
        BY <1>0, <3>1 DEF Release, ReleaseLease
      <3>2. CASE Deliver(w)
        <4>1. ~AcquireLease(w) /\ worker[w].pc \in Unleased
          BY <3>2 DEF AcquireLease, Deliver, Unleased
        <4> QED
          BY <3>2, <4>1, WorkerChanges DEF WorkerStep
      <3>3. CASE AcquireLease(w)
        <4>1. ~Deliver(w) /\ worker[w].pc \in Unleased
          BY <3>3 DEF AcquireLease, Deliver, Unleased
        <4> QED
          BY <3>3, <4>1, WorkerChanges DEF WorkerStep
      <3> QED
        BY <1>11, <3>1, <3>2, <3>3
    <2> QED
      BY <1>1, <1>2, <2>1 DEF Starting
  <1> QED
    BY <1>1, <1>2, <1>4, <1>5, <1>6, <1>7, <1>8, <1>9, <1>10, <1>11 DEF WorkerStep

\* Without a stall, only the holder starts a version or collects, and it does as it may.
LEMMA HolderWrites ==
  ASSUME TypeOK, Jobs, Exclusive, FencingInv, Writes
  PROVE  \E type, pay, sender :
           /\ Written(type, pay, sender)
           /\ type = "run_started" =>
                \E w \in Worker :
                  /\ worker[w].pc = "start" /\ WorkerWrites(w) /\ NotStarted(pay.generation)
                  /\ pay.generation \in 1 .. Len(log)
                  /\ pay.attempt = sender /\ sender = worker[w].attempt /\ sender # None
           /\ type = "evidence_collecting" => sender = proj.attempt
PROOF
  <1>1. ASSUME NEW w \in Worker, WorkerWrites(w)
        PROVE  LET type == WorkerEvent[worker[w].pc]
                   pay == WorkerPayload(w)
               IN  /\ Written(type, pay, worker[w].attempt)
                   /\ type = "run_started" =>
                        /\ worker[w].pc = "start" /\ NotStarted(pay.generation)
                        /\ pay.generation \in 1 .. Len(log)
                        /\ pay.attempt = worker[w].attempt /\ worker[w].attempt # None
                   /\ type = "evidence_collecting" => worker[w].attempt = proj.attempt
    <2>1. Appending(w) /\ Written(WorkerEvent[worker[w].pc], WorkerPayload(w), worker[w].attempt)
      BY <1>1 DEF WorkerWrites
    <2>2. /\ WorkerEvent[worker[w].pc] = "run_started" =>
               /\ worker[w].pc = "start"
               /\ WorkerPayload(w).attempt = worker[w].attempt
               /\ WorkerPayload(w).generation = worker[w].job
          /\ WorkerEvent[worker[w].pc] = "evidence_collecting" => worker[w].pc = "collect"
      BY <2>1, WorkerEventTyped
    <2>3. Fenced(w) /\ HasLease(w)
      BY DEF FencingInv, Exclusive
    <2>4. worker[w].pc \in {"prepare", "start", "collect"}
      BY <2>1 DEF Appending, WorkerEvent
    <2>5. worker[w].attempt # None
      BY <2>3, <2>4 DEF HasLease, Unleased
    <2>6. worker[w].job \in 1 .. Len(log)
      BY <2>4 DEF Jobs, Idle
    <2>7. worker[w].pc = "start" => NotStarted(worker[w].job)
      BY <2>3 DEF Fenced, Starting
    <2>8. ASSUME WorkerEvent[worker[w].pc] = "evidence_collecting"
          PROVE  worker[w].attempt = proj.attempt
      <3>1. CanTransition(proj.state, "evidence_collecting")
        BY <2>1, <2>8 DEF Written
      <3>2. proj.state = "running"
        BY <3>1, TransitionInTable DEF transitions, openTransitions, closedTransitions
      <3>3. proj.attempt # None
        BY <3>2 DEF FencingInv
      <3> QED
        BY <2>2, <2>3, <2>8, <3>3 DEF Fenced
    <2> QED
      BY <2>1, <2>2, <2>5, <2>6, <2>7, <2>8
  <1>2. ASSUME NEW a \in Attempt, GraphWrites(a)
        PROVE  \E type, pay :
                 Written(type, pay, a) /\ type \notin {"run_started", "evidence_collecting"}
    <2>1. PICK e \in GraphEvents(a) : Written(e.type, e.payload, a)
      BY <1>2 DEF GraphWrites
    <2>2. GraphAppending(a)
      BY <1>2 DEF GraphWrites
    <2>3. e.type \in {"run_judging", "run_retrying"} \cup ConclusionType
      BY <2>2, GraphEventTyped DEF GraphAppending
    <2> QED
      BY <2>1, <2>3 DEF ConclusionType
  <1>3. ASSUME NEW p \in Recoverer, SettleWrites(p)
        PROVE  \E type, pay :
                 Written(type, pay, None) /\ type \notin {"run_started", "evidence_collecting"}
    <2>1. PICK j \in Judges :
            LET e == Conclusion(recoverer[p].gate, j) IN Written(e.type, e.payload, None)
      BY <1>3 DEF SettleWrites
    <2> DEFINE e == Conclusion(recoverer[p].gate, j)
    <2>2. recoverer[p].gate \in GateStatus \cup {Absent}
      BY DEF TypeOK, ActorsTyped, RecovererRecord
    <2>3. e.type \in ConclusionType
      BY <2>2, ConclusionTyped
    <2> HIDE DEF e
    <2>4. Written(e.type, e.payload, None)
      BY <2>1 DEF e
    <2> QED
      BY <2>3, <2>4 DEF ConclusionType
  <1>4. ASSUME NEW p \in Recoverer, RetryWrites(p)
        PROVE  Written("run_retrying", NoPayload, None)
    BY <1>4 DEF RetryWrites
  <1>5. ASSUME ControlWrites
        PROVE  \E type \in {"run_paused", "run_cancelled", "run_resumed"} : Written(type, NoPayload, None)
    BY <1>5 DEF ControlWrites
  <1>6. CASE \E w \in Worker : WorkerWrites(w)
    <2>1. PICK w \in Worker : WorkerWrites(w)
      BY <1>6
    <2> DEFINE type == WorkerEvent[worker[w].pc]
               pay == WorkerPayload(w)
    <2>2. /\ Written(type, pay, worker[w].attempt)
          /\ type = "run_started" =>
               /\ worker[w].pc = "start" /\ NotStarted(pay.generation)
               /\ pay.generation \in 1 .. Len(log)
               /\ pay.attempt = worker[w].attempt /\ worker[w].attempt # None
          /\ type = "evidence_collecting" => worker[w].attempt = proj.attempt
      BY <1>1, <2>1
    <2> HIDE DEF type, pay
    <2> QED
      BY <2>1, <2>2
  <1> QED
    BY <1>2, <1>3, <1>4, <1>5, <1>6 DEF Writes

LEMMA FencingKept ==
  ASSUME TypeOK, TypeOK', Jobs, Exclusive, LogInv, FencingInv, [Next]_vars
  PROVE  FencingInv'
PROOF
  <1>1. CASE UNCHANGED <<proj, log>>
    <2>1. log' = log /\ proj' = proj
      BY <1>1
    <2>2. \A i : OwnerBefore(i)' = OwnerBefore(i)
      BY <2>1 DEF OwnerBefore, LatestBefore
    <2>3. EvidenceByOwner'
      BY <2>1, <2>2 DEF FencingInv, EvidenceByOwner
    <2>4. StartsKnown' /\ VersionStartsOnce' /\ (proj.state = "running" => proj.attempt # None)'
      BY <2>1 DEF FencingInv, StartsKnown, VersionStartsOnce
    <2>5. ASSUME NEW w \in Worker
          PROVE  Fenced(w)'
      <3>1. Fenced(w)
        BY DEF FencingInv
      <3>2. NotStarted(proj.version)
        BY DEF FencingInv, StartsKnown, NotStarted, TypeOK, StoreTyped
      <3> QED
        BY <2>1, <3>1, <3>2, WorkerEnters DEF Fenced, NotStarted
    <2> QED
      BY <2>3, <2>4, <2>5 DEF FencingInv
  <1>2. CASE Writes
    <2>1. PICK type, pay, sender :
            /\ Written(type, pay, sender)
            /\ type = "run_started" =>
                 \E w \in Worker :
                   /\ worker[w].pc = "start" /\ WorkerWrites(w) /\ NotStarted(pay.generation)
                   /\ pay.generation \in 1 .. Len(log)
                   /\ pay.attempt = sender /\ sender = worker[w].attempt /\ sender # None
            /\ type = "evidence_collecting" => sender = proj.attempt
      BY <1>2, HolderWrites
    <2>2. PICK n \in Nat : n = Len(log) + 1
      BY DEF TypeOK, StoreTyped
    <2>3. /\ Len(log) \in Nat /\ Len(log') = n
          /\ \A k \in 1 .. Len(log) : log'[k] = log[k]
          /\ log'[n].type = type /\ log'[n].attempt = sender /\ log'[n].generation = pay.generation
          /\ DOMAIN log' = 1 .. n /\ DOMAIN log = 1 .. Len(log)
      BY <2>1, <2>2, WriteLog
    <2>4. /\ 1 .. n = 1 .. Len(log) \cup {n}
          /\ \A k \in 1 .. n : k = n \/ (k \in 1 .. Len(log) /\ log'[k] = log[k])
      BY <2>2, <2>3
    <2>5. /\ type = "run_started" =>
               /\ NotStarted(pay.generation) /\ pay.generation \in 1 .. Len(log)
               /\ pay.attempt = sender /\ sender # None
      BY <2>1
    <2>6. proj'.attempt = NextAttempt(proj, type, pay)
      BY <2>1, Leads
    <2>7. StartsKnown'
      <3>1. ASSUME NEW i \in 1 .. n, log'[i].type = "run_started"
            PROVE  log'[i].generation < i
        <4>1. CASE i = n
          BY <2>2, <2>3, <2>5, <3>1, <4>1
        <4>2. CASE i \in 1 .. Len(log) /\ log'[i] = log[i]
          BY <3>1, <4>2 DEF FencingInv, StartsKnown
        <4> QED
          BY <2>4, <4>1, <4>2
      <3> QED
        BY <2>3, <3>1 DEF StartsKnown
    <2>8. VersionStartsOnce'
      <3>1. ASSUME NEW i \in 1 .. Len(log), log[i].type = "run_started", type = "run_started"
            PROVE  log[i].generation # pay.generation
        BY <2>5, <3>1 DEF NotStarted
      <3>2. ASSUME NEW i \in 1 .. n, NEW j \in 1 .. n,
                   log'[i].type = "run_started", log'[j].type = "run_started",
                   log'[i].generation = log'[j].generation
            PROVE  i = j
        <4>1. CASE i = n /\ j # n
          BY <2>3, <2>4, <3>1, <3>2, <4>1
        <4>2. CASE j = n /\ i # n
          BY <2>3, <2>4, <3>1, <3>2, <4>2
        <4>3. CASE i # n /\ j # n
          BY <2>3, <2>4, <3>2, <4>3 DEF FencingInv, VersionStartsOnce
        <4> QED
          BY <4>1, <4>2, <4>3
      <3> QED
        BY <2>3, <3>2 DEF VersionStartsOnce
    <2>9. EvidenceByOwner'
      <3>1. \A i \in 1 .. Len(log) + 1 : OwnerBefore(i)' = OwnerBefore(i)
        BY <2>1, <2>5, OwnersMove DEF LogInv
      <3>2. OwnerBefore(n) = proj.attempt
        BY <2>2, <2>3 DEF LogInv, OwnersKnown
      <3>3. ASSUME NEW i \in 1 .. n, log'[i].type = "evidence_collecting"
            PROVE  log'[i].attempt = OwnerBefore(i)'
        <4>1. CASE i = n
          BY <2>1, <2>2, <2>3, <3>1, <3>2, <3>3, <4>1
        <4>2. CASE i \in 1 .. Len(log) /\ log'[i] = log[i]
          BY <2>2, <2>3, <2>4, <3>1, <3>3, <4>2 DEF FencingInv, EvidenceByOwner
        <4> QED
          BY <2>4, <4>1, <4>2
      <3> QED
        BY <2>3, <3>3 DEF EvidenceByOwner
    <2>10. proj'.state = "running" => proj'.attempt # None
      <3>1. CASE type = "run_started"
        BY <2>5, <2>6, <3>1 DEF NextAttempt
      <3>2. CASE type # "run_started"
        <4>1. proj \in Projection /\ pay \in Payload /\ type \in EventType /\ CanTransition(proj.state, type)
          BY <2>1 DEF TypeOK, StoreTyped, Written
        <4>2. proj' = applyEvent(proj, type, pay)
          BY <2>1 DEF Written, Write
        <4> DEFINE to == transitionRunState(proj.state, type)
        <4>3. /\ <<proj.state, type, to>> \in transitions
              /\ proj'.state = IF type = "run_resumed" /\ proj.state = "paused" /\ proj.attempt = None
                                 THEN "queued" ELSE to
              /\ type # "run_retrying" => proj'.attempt = proj.attempt
          BY <3>2, <4>1, <4>2, ApplyMoves
        <4>4. to = "running" => type = "run_resumed" /\ proj.state = "paused"
          <5> HIDE DEF to
          <5> QED
            BY <3>2, <4>3 DEF transitions, openTransitions, closedTransitions
        <4> QED
          BY <4>3, <4>4
      <3> QED
        BY <3>1, <3>2
    <2>11. ASSUME NEW w \in Worker
           PROVE  Fenced(w)'
      <3>1. Fenced(w) /\ HasLease(w)
        BY DEF FencingInv, Exclusive
      <3>2. ~(proj' = proj /\ log' = log)
        BY <2>3, <2>2
      <3>3. ASSUME type = "run_started", worker[w].pc \notin Unleased
            PROVE  worker[w].pc = "start" /\ worker'[w].pc = "execute"
        <4>1. PICK v \in Worker : /\ worker[v].pc = "start" /\ WorkerWrites(v) /\ worker[v].attempt # None
          BY <2>1, <3>3
        <4>2. worker[w].attempt # None
          BY <3>1, <3>3 DEF HasLease
        <4>3. v = w
          BY <4>1, <4>2, OneHolder
        <4>4. Goto(w, "execute")
          BY <4>1, <4>3 DEF WorkerWrites, Returned, WorkerNext
        <4>5. worker'[w].pc = "execute"
          BY <4>4 DEF Goto, TypeOK, ActorsTyped, WorkerRecord
        <4> QED
          BY <4>1, <4>3, <4>5
      <3>4. ASSUME worker'[w].pc \in Starting
            PROVE  NotStarted(worker[w].job)' /\ worker'[w].job = worker[w].job
        <4>1. worker[w].pc \in Starting /\ worker'[w].job = worker[w].job
          BY <3>2, <3>4, WorkerEnters
        <4>2. type # "run_started"
          BY <3>3, <3>4, <4>1 DEF Starting, Unleased
        <4>3. NotStarted(worker[w].job)
          BY <3>1, <4>1 DEF Fenced
        <4>4. \A i \in 1 .. n : log'[i].type = "run_started" => log'[i].generation # worker[w].job
          BY <2>3, <2>4, <4>2, <4>3 DEF NotStarted
        <4> QED
          BY <2>3, <4>1, <4>4 DEF NotStarted
      <3>5. ASSUME worker'[w].pc = "collect"
            PROVE  proj'.attempt \in {worker'[w].attempt, None}
        <4>1. worker[w].pc = "collect" /\ worker'[w].attempt = worker[w].attempt
          BY <3>2, <3>5, WorkerEnters
        <4>2. type # "run_started"
          BY <3>3, <3>5, <4>1 DEF Unleased
        <4>3. proj.attempt \in {worker[w].attempt, None}
          BY <3>1, <4>1 DEF Fenced
        <4> QED
          BY <2>6, <4>1, <4>2, <4>3 DEF NextAttempt
      <3> QED
        BY <3>4, <3>5 DEF Fenced, NotStarted
    <2> QED
      BY <2>7, <2>8, <2>9, <2>10, <2>11 DEF FencingInv
  <1> QED
    BY <1>1, <1>2, Moves

LEMMA FencingInit == Init => StallsBounded /\ Exclusive /\ FencingInv
PROOF
  <1> SUFFICES ASSUME Init PROVE StallsBounded /\ Exclusive /\ FencingInv
    OBVIOUS
  <1>1. log = ApprovedLog /\ proj.state = "queued" /\ worker = [w \in Worker |-> Idle]
    BY DEF Init, ApprovedRun, DraftRun
  <1>2. DOMAIN log = 1 .. 4 /\ Len(log) = 4
    BY <1>1, InitTyped DEF ApprovedLog, TypeOK, StoreTyped
  <1>3. \A i \in 1 .. 4 :
          log[i].type \in {"run_created", "plan_generated", "plan_approved", "permission_granted"}
    BY <1>1 DEF ApprovedLog, Entry
  <1>4. Exclusive
    BY <1>1 DEF Exclusive, HasLease, Idle, Unleased
  <1>5. \A w \in Worker : Fenced(w)
    BY <1>1 DEF Fenced, Idle, Starting
  <1>6. StallsBounded
    BY ExecutionConstants DEF Init, StallsBounded, FullBudget
  <1> QED
    BY <1>1, <1>2, <1>3, <1>4, <1>5, <1>6
    DEF FencingInv, StartsKnown, EvidenceByOwner, VersionStartsOnce

FencedUntilStall == StallsBounded /\ (Unstalled => Exclusive /\ FencingInv)

LEMMA FencingAlways == Spec => []FencedUntilStall
PROOF
  <1>1. Init => Jobs
    BY DEF Init, Jobs
  <1>2. TypeOK /\ TypeOK' /\ Jobs /\ [Next]_vars => Jobs'
    BY JobsKept
  <1>3. TypeOK /\ TypeOK' /\ Jobs /\ Judged /\ FencedUntilStall /\ [Next]_vars => FencedUntilStall'
    <2> SUFFICES ASSUME TypeOK, TypeOK', Jobs, LogInv, FencedUntilStall, [Next]_vars
                 PROVE  FencedUntilStall'
      BY DEF Judged
    <2>1. StallsBounded' /\ (Unstalled' => Unstalled)
      BY StallsSpent DEF FencedUntilStall
    <2>2. ASSUME Unstalled' PROVE Exclusive' /\ FencingInv'
      <3>1. Exclusive /\ FencingInv
        BY <2>1, <2>2 DEF FencedUntilStall
      <3> QED
        BY <2>2, <3>1, ExclusiveKept, FencingKept DEF FencedUntilStall
    <2> QED
      BY <2>1, <2>2 DEF FencedUntilStall
  <1>4. Init => FencedUntilStall
    BY FencingInit DEF FencedUntilStall
  <1> QED
    BY <1>1, <1>2, <1>3, <1>4, TypeCorrect, JudgedAlways, PTL DEF Spec

\* Fencing at the worker, for any number of workers and recoverers, any crashes,
\* retries, pauses and redeliveries: a worker that outlived its lease is the one thing
\* that has a second attempt bound for a version, or evidence collection begun for an
\* attempt that does not own the run.  Killed workers, redelivered jobs and recoverers
\* that act on a lease they listed long ago do neither.
THEOREM OnlyStallsBreakTheFence == Spec => [](budget.stalls = MaxStalls => OldWorkerIsRefused)
PROOF
  <1>1. FencedUntilStall => (budget.stalls = MaxStalls => OldWorkerIsRefused)
    BY DEF FencedUntilStall, Unstalled, FencingInv, OldWorkerIsRefused
  <1> QED
    BY <1>1, FencingAlways, PTL

(***************************************************************************)
(* Refinement.                                                             *)
(***************************************************************************)
\* The run seen from outside: its projection (AbstractRun).
Abstract == INSTANCE AbstractRun WITH run <- proj

\* An event the table allows is a step of the abstract run.
LEMMA WriteIsAbstract ==
  ASSUME TypeOK, NEW type, NEW pay, NEW sender, Written(type, pay, sender)
  PROVE  Abstract!Next
PROOF
  <1> DEFINE p == proj
             to == transitionRunState(p.state, type)
             q == applyEvent(p, type, pay)
  <1>1. p \in Projection /\ proj' = q
    BY WriteEffect DEF TypeOK, StoreTyped
  <1>2. type \in EventType /\ pay \in Payload /\ CanTransition(p.state, type)
    BY DEF Written
  <1>3. /\ <<p.state, type, to>> \in transitions
        /\ q.version = p.version + 1
        /\ q.state = IF type = "run_resumed" /\ p.state = "paused" /\ p.attempt = None
                       THEN "queued" ELSE to
        /\ type \notin {"run_started", "run_retrying"} =>
             q.attempt = p.attempt /\ q.generation = p.generation
        /\ type = "run_retrying" => q.attempt = None /\ q.generation = 0
        /\ q.gateStatus = NextGateStatus(p, type, pay)
        /\ q.machineGate = NextMachineGate(p, pay)
    BY <1>1, <1>2, ApplyMoves
  <1> HIDE DEF p, q, to
  <1> USE DEF p, Abstract!Next, Abstract!Move, Abstract!KeepOwner, Abstract!KeepGate,
              transitions, openTransitions, closedTransitions, NextGateStatus
  <1>4. CASE type = "run_created"
    <2>1. Abstract!Create
      BY <1>1, <1>2, <1>3, <1>4 DEF Abstract!Create
    <2> QED
      BY <2>1
  <1>5. CASE type \in {"plan_generated", "plan_approved", "permission_granted", "run_preparing"}
    <2>1. Abstract!Prepare
      BY <1>1, <1>2, <1>3, <1>5 DEF Abstract!Prepare
    <2> QED
      BY <2>1
  <1>6. CASE type = "run_started"
    <2>1. Abstract!Start
      BY <1>1, <1>2, <1>3, <1>6 DEF Abstract!Start
    <2> QED
      BY <2>1
  <1>7. CASE type = "run_paused"
    <2>1. Abstract!Pause
      BY <1>1, <1>2, <1>3, <1>7 DEF Abstract!Pause
    <2> QED
      BY <2>1
  <1>8. CASE type = "run_resumed"
    <2>1. Abstract!Resume
      BY <1>1, <1>2, <1>3, <1>8 DEF Abstract!Resume
    <2> QED
      BY <2>1
  <1>9. CASE type \in {"evidence_collecting", "run_judging"}
    <2>1. Abstract!Judge
      BY <1>1, <1>2, <1>3, <1>9 DEF Abstract!Judge
    <2> QED
      BY <2>1
  <1>10. CASE type = "run_retrying"
    <2>1. Abstract!Retry
      BY <1>1, <1>2, <1>3, <1>10 DEF Abstract!Retry
    <2> QED
      BY <2>1
  <1>11. CASE type = "human_review_requested"
    <2>1. Abstract!Review
      BY <1>1, <1>2, <1>3, <1>11 DEF Abstract!Review
    <2> QED
      BY <2>1
  <1>12. CASE type \in {"run_completed", "parent_aggregate_completed", "run_failed", "run_cancelled",
                       "run_blocked", "parent_aggregate_blocked"}
    <2>1. Abstract!Conclude
      BY <1>1, <1>2, <1>3, <1>12
      DEF Abstract!Conclude, Abstract!RunState, Abstract!TerminalState, Abstract!Absent, Absent,
          Payload
    <2> QED
      BY <2>1
  <1>13. CASE type = "decision_overridden"
    <2>1. Abstract!Override
      BY <1>1, <1>2, <1>3, <1>13 DEF Abstract!Override
    <2> QED
      BY <2>1
  <1>14. CASE type \in {"run_queued", "repair_decision_recorded"}
    BY <1>3, <1>14
  <1> HIDE DEF Abstract!Next
  <1> QED
    BY <1>2, <1>4, <1>5, <1>6, <1>7, <1>8, <1>9, <1>10, <1>11, <1>12, <1>13, <1>14 DEF EventType

\* Every step of the workers, continuations, recoverers and people, whatever fails,
\* is a step of the abstract run or leaves it alone.
THEOREM ExecutionImplementsAbstractRun == Spec => [][Abstract!Next]_proj
PROOF
  <1>1. TypeOK /\ Writes => Abstract!Next
    <2> SUFFICES ASSUME TypeOK, Writes PROVE Abstract!Next
      OBVIOUS
    <2>1. \E type, pay, sender : Written(type, pay, sender)
      BY DEF Writes, WorkerWrites, GraphWrites, RetryWrites, SettleWrites, ControlWrites
    <2> QED
      BY <2>1, WriteIsAbstract
  <1>2. TypeOK /\ [Next]_vars => [Abstract!Next]_proj
    BY <1>1, Moves
  <1> QED
    BY <1>2, TypeCorrect, PTL DEF Spec
=============================================================================
