------------------------- MODULE RunLifecycleProofs -------------------------
(***************************************************************************)
(* What the transition table and the reducer do, for every projection and  *)
(* payload: the facts the proofs about the modules that append events use. *)
(***************************************************************************)
EXTENDS RunLifecycle, TLAPS

\* A transition the table allows leads to a state of a run, and is in the table.
LEMMA TransitionInTable ==
  ASSUME NEW state, NEW type, CanTransition(state, type)
  PROVE  /\ transitionRunState(state, type) \in RunState
         /\ <<state, type, transitionRunState(state, type)>> \in transitions
  BY DEF CanTransition, transitionRunState

\* The table is a function of state and event, tabulated for the events a proof
\* asks about: where each of them leads.
LEMMA TransitionTargets ==
  ASSUME NEW state, NEW type, CanTransition(state, type)
  PROVE  LET to == transitionRunState(state, type)
         IN  /\ to = "queued" => type \in {"permission_granted", "run_retrying"}
             /\ to = "preparing" => state = "queued" /\ type = "run_preparing"
             /\ to = "draft" => FALSE
             /\ type = "run_resumed" => state = "paused" /\ to = "running"
             /\ state \in TerminalState => to = state /\ type = "decision_overridden"
  BY TransitionInTable DEF transitions, openTransitions, closedTransitions, TerminalState

\* The reducer keeps a projection well formed.
LEMMA ApplyTyped ==
  ASSUME NEW p \in Projection, NEW type \in EventType, NEW pay \in Payload,
         CanTransition(p.state, type)
  PROVE  applyEvent(p, type, pay) \in Projection
PROOF
  <1> DEFINE q == applyEvent(p, type, pay)
  <1>1. NextState(p, type) \in RunState
    BY TransitionInTable DEF NextState, RunState
  <1>2. p.version + 1 \in Nat
    BY DEF Projection
  <1>3. (IF type = "run_created" THEN IF pay.kind = Absent THEN "parent" ELSE pay.kind
           ELSE p.kind) \in RunKind
    BY DEF Projection, Payload, RunKind
  <1>4. NextAttempt(p, type, pay) \in Attempt \cup {None}
    BY DEF NextAttempt, Projection, Payload
  <1>5. NextGeneration(p, type, pay) \in Nat
    BY DEF NextGeneration, Projection, Payload
  <1>6. NextMachineGate(p, pay) \in GateStatus \cup {Absent}
    BY DEF NextMachineGate, Projection, Payload
  <1>7. NextGateStatus(p, type, pay) \in GateStatus \cup {Absent}
    BY DEF NextGateStatus, Projection, Payload, GateStatus, Absent
  <1>8. NextExecutionStatus(p, type, pay) \in ExecutionStatus \cup {Absent}
    BY DEF NextExecutionStatus, ReportedExecutionStatus, Projection, Payload, ExecutionStatus, Absent
  <1> QED
    BY <1>1, <1>2, <1>3, <1>4, <1>5, <1>6, <1>7, <1>8 DEF applyEvent, Projection

LEMMA DraftTyped == DraftRun \in Projection
  BY DEF DraftRun, Projection, RunState, RunKind

\* One call of the reducer, where the table allows it, is a step of the abstract
\* run: p is the projection before it.
LEMMA ApplyMoves ==
  ASSUME NEW p \in Projection, NEW type \in EventType, NEW pay \in Payload,
         CanTransition(p.state, type)
  PROVE  LET q == applyEvent(p, type, pay)
             to == transitionRunState(p.state, type)
         IN  /\ <<p.state, type, to>> \in transitions
             /\ q.version = p.version + 1
             /\ q.state = IF type = "run_resumed" /\ p.state = "paused" /\ p.attempt = None
                            THEN "queued" ELSE to
             /\ type \notin {"run_started", "run_retrying"} =>
                  q.attempt = p.attempt /\ q.generation = p.generation
             /\ type = "run_retrying" => q.attempt = None /\ q.generation = 0
             /\ q.gateStatus = NextGateStatus(p, type, pay)
             /\ q.machineGate = NextMachineGate(p, pay)
  BY TransitionInTable DEF applyEvent, NextState, NextAttempt, NextGeneration
=============================================================================
