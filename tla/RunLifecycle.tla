---------------------------- MODULE RunLifecycle ----------------------------
(***************************************************************************)
(* The pure part of the run control plane: the states and events of a Run, *)
(* the transition table of packages/contracts, and the reducer that        *)
(* agent/src/runEventStore.ts folds over a run's event log.  No variables. *)
(*                                                                         *)
(* A projection keeps the fields the control plane decides on.  Plans,     *)
(* prompts, evidence and summaries are carried by the code and never read  *)
(* by a transition, so they are left out.                                  *)
(***************************************************************************)
EXTENDS Integers

CONSTANTS
  Attempt,  \* worker attempt ids (uuids in the code)
  None      \* an absent attempt id

ASSUME NoneIsNoAttempt == None \notin Attempt

RunState ==
  { "draft", "planning", "awaiting-plan-approval", "awaiting-permission",
    "queued", "preparing", "running", "paused", "collecting", "judging",
    "awaiting-human-review", "completed", "failed", "blocked", "cancelled" }

TerminalState == {"completed", "failed", "blocked", "cancelled"}

\* States that wait for a person: the reducer reports "waiting-user" there.
WaitingState ==
  {"awaiting-plan-approval", "awaiting-permission", "paused", "awaiting-human-review"}

EventType ==
  { "run_created", "plan_generated", "plan_approved", "permission_granted",
    "run_queued", "run_preparing", "run_started", "run_retrying",
    "run_paused", "run_resumed", "evidence_collecting", "run_judging",
    "human_review_requested", "decision_overridden",
    "repair_decision_recorded", "parent_aggregate_completed",
    "parent_aggregate_blocked", "run_completed", "run_failed",
    "run_blocked", "run_cancelled" }

GateStatus == {"pass", "fail", "blocked", "needs-human-review"}

ExecutionStatus ==
  {"running", "waiting-user", "completed", "completed-with-gaps",
   "cancelled", "infrastructure-failed"}

HumanDecision == {"approved", "blocked", "accepted-risk"}

\* What the status field of an override carries: the repair plan route appends
\* an override whose status is that of the plan.
DecisionStatus == HumanDecision \cup {"dismissed"}

\* "dynamic-path" is runKind "path" whose input has dynamicBrowser = true.
RunKind == {"parent", "path", "dynamic-path", "validation"}

\* The value of an optional field that is not there.
Absent == "absent"

(***************************************************************************)
(* The transition table.  run_created is the one transition the code keeps *)
(* outside its table; run_queued and repair_decision_recorded have none.   *)
(***************************************************************************)
openTransitions ==
  { <<"draft", "run_created", "planning">>,
    <<"draft", "run_cancelled", "cancelled">>,
    <<"planning", "plan_generated", "awaiting-plan-approval">>,
    <<"planning", "human_review_requested", "awaiting-human-review">>,
    <<"planning", "parent_aggregate_completed", "completed">>,
    <<"planning", "parent_aggregate_blocked", "blocked">>,
    <<"planning", "run_failed", "failed">>,
    <<"planning", "run_blocked", "blocked">>,
    <<"planning", "run_cancelled", "cancelled">>,
    <<"awaiting-plan-approval", "plan_approved", "awaiting-permission">>,
    <<"awaiting-plan-approval", "run_failed", "failed">>,
    <<"awaiting-plan-approval", "run_blocked", "blocked">>,
    <<"awaiting-plan-approval", "run_cancelled", "cancelled">>,
    <<"awaiting-permission", "permission_granted", "queued">>,
    <<"awaiting-permission", "run_cancelled", "cancelled">>,
    <<"awaiting-permission", "run_blocked", "blocked">>,
    <<"queued", "run_preparing", "preparing">>,
    <<"queued", "run_paused", "paused">>,
    <<"queued", "run_cancelled", "cancelled">>,
    <<"queued", "run_blocked", "blocked">>,
    <<"preparing", "run_started", "running">>,
    <<"preparing", "run_retrying", "queued">>,
    <<"preparing", "run_failed", "failed">>,
    <<"preparing", "run_blocked", "blocked">>,
    <<"preparing", "run_cancelled", "cancelled">>,
    <<"running", "run_paused", "paused">>,
    <<"running", "run_retrying", "queued">>,
    <<"running", "evidence_collecting", "collecting">>,
    <<"running", "run_judging", "judging">>,
    <<"running", "run_failed", "failed">>,
    <<"running", "run_blocked", "blocked">>,
    <<"running", "run_cancelled", "cancelled">>,
    <<"paused", "run_resumed", "running">>,
    <<"paused", "run_cancelled", "cancelled">>,
    <<"paused", "run_blocked", "blocked">>,
    <<"collecting", "run_judging", "judging">>,
    <<"collecting", "run_failed", "failed">>,
    <<"collecting", "run_blocked", "blocked">>,
    <<"collecting", "run_cancelled", "cancelled">>,
    <<"judging", "run_retrying", "queued">>,
    <<"judging", "human_review_requested", "awaiting-human-review">>,
    <<"judging", "parent_aggregate_completed", "completed">>,
    <<"judging", "parent_aggregate_blocked", "blocked">>,
    <<"judging", "run_completed", "completed">>,
    <<"judging", "run_failed", "failed">>,
    <<"judging", "run_blocked", "blocked">>,
    <<"awaiting-human-review", "decision_overridden", "awaiting-human-review">>,
    <<"awaiting-human-review", "parent_aggregate_completed", "completed">>,
    <<"awaiting-human-review", "parent_aggregate_blocked", "blocked">>,
    <<"awaiting-human-review", "run_completed", "completed">>,
    <<"awaiting-human-review", "run_failed", "failed">>,
    <<"awaiting-human-review", "run_blocked", "blocked">>,
    <<"awaiting-human-review", "run_cancelled", "cancelled">> }

\* Mutant: a late block still moves a completed run.
ClosedRunCanBlock ==
  { <<"completed", "decision_overridden", "completed">>,
    <<"completed", "run_blocked", "blocked">>,
    <<"failed", "decision_overridden", "failed">>,
    <<"blocked", "decision_overridden", "blocked">> }

\* What a concluded run still accepts.
closedTransitions ==
  { <<"completed", "decision_overridden", "completed">>,
    <<"failed", "decision_overridden", "failed">>,
    <<"blocked", "decision_overridden", "blocked">> }

transitions == openTransitions \cup closedTransitions

\* False where transitionRunState throws "Invalid run transition".
CanTransition(state, type) == \E t \in RunState : <<state, type, t>> \in transitions

transitionRunState(state, type) ==
  CHOOSE t \in RunState : <<state, type, t>> \in transitions

(***************************************************************************)
(* Events and projections.                                                 *)
(***************************************************************************)
Payload ==
  [ kind            : RunKind \cup {Absent},
    attempt         : Attempt \cup {None},
    generation      : Nat,            \* 0: no executionGeneration
    machineGate     : GateStatus \cup {Absent},
    finalStatus     : GateStatus \cup {Absent},
    executionStatus : ExecutionStatus \cup {Absent},
    decision        : DecisionStatus \cup {Absent} ]

NoPayload ==
  [ kind |-> Absent, attempt |-> None, generation |-> 0, machineGate |-> Absent,
    finalStatus |-> Absent, executionStatus |-> Absent, decision |-> Absent ]

Projection ==
  [ state           : RunState,
    version         : Nat,
    kind            : RunKind,
    attempt         : Attempt \cup {None},   \* activeExecutionAttemptId
    generation      : Nat,                   \* executionGeneration, 0: undefined
    machineGate     : GateStatus \cup {Absent},
    gateStatus      : GateStatus \cup {Absent},
    executionStatus : ExecutionStatus \cup {Absent} ]

\* The projection replay starts from, before the first event.
DraftRun ==
  [ state |-> "draft", version |-> 0, kind |-> "parent", attempt |-> None,
    generation |-> 0, machineGate |-> Absent, gateStatus |-> Absent,
    executionStatus |-> Absent ]

(***************************************************************************)
(* The reducer, one operator per group of fields it assigns.               *)
(***************************************************************************)
\* Mutant: a resumed run always runs, also when no worker has started it.
ResumeAlwaysRuns(p, type) == transitionRunState(p.state, type)

\* A pause before any worker bound an attempt resumes to the queue.
NextState(p, type) ==
  IF type = "run_resumed" /\ p.state = "paused" /\ p.attempt = None
    THEN "queued"
    ELSE transitionRunState(p.state, type)

\* Mutant: a retry leaves the attempt of the dead worker in place.
RetryKeepsAttempt(p, type, pay) ==
  IF type = "run_started" THEN pay.attempt ELSE p.attempt

NextAttempt(p, type, pay) ==
  CASE type = "run_started"  -> pay.attempt
    [] type = "run_retrying" -> None
    [] OTHER                 -> p.attempt

NextGeneration(p, type, pay) ==
  CASE type = "run_started"  -> pay.generation
    [] type = "run_retrying" -> 0
    [] OTHER                 -> p.generation

NextMachineGate(p, pay) ==
  IF pay.machineGate # Absent THEN pay.machineGate ELSE p.machineGate

\* Mutant: an override moves any gate.
OverrideAnyGate(p, type, pay) ==
  CASE type \in {"run_completed", "parent_aggregate_completed"} ->
         IF pay.finalStatus # Absent THEN pay.finalStatus ELSE "needs-human-review"
    [] type = "run_failed" -> "fail"
    [] type \in {"run_blocked", "parent_aggregate_blocked"} -> "blocked"
    [] type = "human_review_requested" -> "needs-human-review"
    [] type = "decision_overridden" -> IF pay.decision = "blocked" THEN "fail" ELSE "pass"
    [] OTHER -> p.gateStatus

\* Mutant: an override stores the person's decision as the gate's status.
OverrideStoresDecision(p, type, pay) ==
  CASE type \in {"run_completed", "parent_aggregate_completed"} -> pay.finalStatus
    [] type = "human_review_requested" -> "needs-human-review"
    [] type \in {"run_failed", "run_blocked"} -> "blocked"
    [] type = "decision_overridden" -> pay.decision
    [] OTHER -> p.gateStatus

\* An override moves the gate only of a run whose machine gate passed.
NextGateStatus(p, type, pay) ==
  CASE type \in {"run_completed", "parent_aggregate_completed"} ->
         IF pay.finalStatus # Absent THEN pay.finalStatus ELSE "needs-human-review"
    [] type = "run_failed" -> "fail"
    [] type \in {"run_blocked", "parent_aggregate_blocked"} -> "blocked"
    [] type = "human_review_requested" -> "needs-human-review"
    [] type = "decision_overridden" /\ NextMachineGate(p, pay) = "pass" ->
         IF pay.decision = "blocked" THEN "fail" ELSE "pass"
    [] OTHER -> p.gateStatus

ReportedExecutionStatus(p, type, pay) ==
  IF type = "run_cancelled" THEN "cancelled"
  ELSE IF type = "parent_aggregate_completed" THEN "completed"
  ELSE IF type = "parent_aggregate_blocked" THEN "completed-with-gaps"
  ELSE IF pay.executionStatus # Absent THEN pay.executionStatus
  ELSE IF type \in {"run_completed", "run_failed"} THEN "completed"
  ELSE IF type = "run_blocked" THEN "completed-with-gaps"
  ELSE p.executionStatus

\* Waiting and live states override whatever an event reported.
NextExecutionStatus(p, type, pay) ==
  LET state == NextState(p, type)
  IN  IF state \in WaitingState THEN "waiting-user"
      ELSE IF state \notin TerminalState THEN "running"
      ELSE ReportedExecutionStatus(p, type, pay)

applyEvent(p, type, pay) ==
  [ state           |-> NextState(p, type),
    version         |-> p.version + 1,
    kind            |-> IF type = "run_created"
                          THEN IF pay.kind = Absent THEN "parent" ELSE pay.kind
                          ELSE p.kind,
    attempt         |-> NextAttempt(p, type, pay),
    generation      |-> NextGeneration(p, type, pay),
    machineGate     |-> NextMachineGate(p, pay),
    gateStatus      |-> NextGateStatus(p, type, pay),
    executionStatus |-> NextExecutionStatus(p, type, pay) ]

\* Events whose commit writes an execution row to the outbox, in the same
\* transaction.  A dynamic path child is driven by its own graph instead.
DispatchType == {"permission_granted", "run_resumed", "run_retrying"}

\* Mutant: resuming a run that no worker has started does not dispatch it.
DispatchesFirstTimeOnly(p, type) ==
  type \in DispatchType \ {"run_resumed"} /\ p.kind # "dynamic-path"

Dispatches(p, type) == type \in DispatchType /\ p.kind # "dynamic-path"

(***************************************************************************)
(* The formal conclusion of a judged run: the machine gate rules, a judge  *)
(* may only send a passing gate to a human, and a human may settle that.   *)
(***************************************************************************)
JudgeStatus == {"pass", "fail", "needs-human-review"}

resolveFinalStatus(machineGate, judge, human) ==
  IF machineGate \in {"fail", "blocked", "needs-human-review"} THEN machineGate
  ELSE IF human = "blocked" THEN "fail"
  ELSE IF judge = "needs-human-review" /\ human \notin {"approved", "accepted-risk"}
    THEN "needs-human-review"
  ELSE IF judge = "fail" THEN "needs-human-review"
  ELSE "pass"

\* The event that makes a conclusion durable, as the graph's finalize node and
\* the recovery of a stalled gate both choose it.
TerminalEventOf(finalStatus) ==
  CASE finalStatus = "pass"    -> "run_completed"
    [] finalStatus = "fail"    -> "run_failed"
    [] finalStatus = "blocked" -> "run_blocked"
    [] OTHER                   -> "human_review_requested"
=============================================================================
