----------------------------- MODULE RunCallers -----------------------------
(***************************************************************************)
(* The requests the program makes of the run event store, by caller: the   *)
(* event type and the part of the payload the reducer reads.               *)
(***************************************************************************)
EXTENDS RunLifecycle

Ask(type) == [type |-> type, payload |-> NoPayload]

CreateRequests ==
  { [type |-> "run_created", payload |-> [NoPayload EXCEPT !.kind = k]] : k \in RunKind }

\* POST /v1/runs/:id/<action>: six commands, an override with its decision.
ControlRequests ==
  { Ask(t) : t \in {"plan_approved", "permission_granted", "run_paused",
                    "run_resumed", "run_cancelled"} }
  \cup { [type |-> "decision_overridden", payload |-> [NoPayload EXCEPT !.decision = d]] :
           d \in HumanDecision }

\* PATCH /v1/runs/:id/repair-plan/:planId records a plan's status change as the
\* closest lifecycle event.
RepairPlanRequests ==
  { [type |-> "decision_overridden", payload |-> [NoPayload EXCEPT !.decision = "dismissed"]],
    Ask("plan_approved") }

\* executeQueuedRun for the given attempts and generations.
StartRequest(a, g) ==
  [type |-> "run_started", payload |-> [NoPayload EXCEPT !.attempt = a, !.generation = g]]

WorkerRequests(attempts, generations) ==
  { Ask("run_preparing"), Ask("evidence_collecting") }
  \cup { StartRequest(a, g) : a \in attempts, g \in generations }

\* The graph commits the gate it collected, then the conclusion it draws.
JudgingRequests(gates) ==
  { [type |-> "run_judging", payload |-> [NoPayload EXCEPT !.machineGate = g]] : g \in gates }

Conclusion(gate, judge) ==
  LET final == resolveFinalStatus(gate, judge, Absent)
  IN  [ type |-> TerminalEventOf(final),
        payload |-> [NoPayload EXCEPT !.machineGate = gate, !.finalStatus = final] ]

FinalizeRequests(gates, judges) == { Conclusion(g, j) : g \in gates, j \in judges }

\* A parent's conclusion is an aggregate event.
ParentConclusion(gate, judge) ==
  LET final == resolveFinalStatus(gate, judge, Absent)
  IN  [ type |-> IF final \in {"pass", "fail"}
                   THEN "parent_aggregate_completed" ELSE "parent_aggregate_blocked",
        payload |-> [NoPayload EXCEPT !.machineGate = gate, !.finalStatus = final] ]

ParentFinalizeRequests(gates, judges) ==
  { ParentConclusion(g, j) : g \in gates, j \in judges }

\* Lease recovery and the graph's retry-path node.
RetryRequests == { Ask("run_retrying") }

\* A background graph failure and the benchmark timeout.
BlockRequests ==
  { [type |-> "run_blocked", payload |-> [NoPayload EXCEPT !.finalStatus = "blocked"]] }
=============================================================================
