---------------------------- MODULE AbstractRun -----------------------------
(***************************************************************************)
(* What the control plane promises about one Run, whoever appends to its   *)
(* log: phases follow each other in order, every step costs one version,   *)
(* the attempt that owns the execution is bound by a start, survives       *)
(* everything but a retry, and a conclusion is final except for a human    *)
(* override.  RunEventStore, RunExecution and AgentGraph are shown to      *)
(* implement it, and CoverageAggregation but for one step of two events.   *)
(***************************************************************************)
EXTENDS RunLifecycle

VARIABLE run    \* the projection of the run

\* One version forward, between the given states.
Move(from, to) ==
  /\ run.state \in from
  /\ run'.state \in to
  /\ run'.version = run.version + 1

KeepOwner == run'.attempt = run.attempt /\ run'.generation = run.generation
KeepGate  == run'.gateStatus = run.gateStatus

Init == run = DraftRun

Create ==
  /\ Move({"draft"}, {"planning"})
  /\ KeepOwner /\ KeepGate

\* Planning, approval and permission, in that order, up to the queue.
Prepare ==
  /\ \/ Move({"planning"}, {"awaiting-plan-approval"})
     \/ Move({"awaiting-plan-approval"}, {"awaiting-permission"})
     \/ Move({"awaiting-permission"}, {"queued"})
     \/ Move({"queued"}, {"preparing"})
  /\ KeepOwner /\ KeepGate

\* Only a start names an owner.
Start ==
  /\ Move({"preparing"}, {"running"})
  /\ KeepGate

Pause ==
  /\ Move({"queued", "running"}, {"paused"})
  /\ KeepOwner /\ KeepGate

\* A run nobody owns goes back to the queue, an owned one goes on running.
Resume ==
  /\ Move({"paused"}, IF run.attempt = None THEN {"queued"} ELSE {"running"})
  /\ KeepOwner /\ KeepGate

Judge ==
  /\ \/ Move({"running"}, {"collecting"})
     \/ Move({"running", "collecting"}, {"judging"})
  /\ KeepOwner /\ KeepGate

\* Only a retry takes the ownership away.
Retry ==
  /\ Move({"preparing", "running", "judging"}, {"queued"})
  /\ run'.attempt = None
  /\ run'.generation = 0
  /\ KeepGate

Review ==
  /\ Move({"planning", "judging"}, {"awaiting-human-review"})
  /\ run'.gateStatus = "needs-human-review"
  /\ KeepOwner

\* Completion needs a judged (or never executed) run; a run can break or be
\* cancelled from almost anywhere.
Conclude ==
  /\ \/ /\ Move({"planning", "judging", "awaiting-human-review"}, {"completed"})
        /\ run'.gateStatus # Absent
     \/ /\ Move(RunState \ (TerminalState \cup {"draft"}), {"failed"})
        /\ run'.gateStatus = "fail"
     \/ /\ Move(RunState \ (TerminalState \cup {"draft"}), {"blocked"})
        /\ run'.gateStatus = "blocked"
     \/ /\ Move(RunState \ (TerminalState \cup {"judging"}), {"cancelled"})
        /\ KeepGate
  /\ KeepOwner

\* A person may relabel a conclusion or a review, never reopen the run, and may
\* move the gate only when the machine gate passed.
Override ==
  /\ \E s \in {"awaiting-human-review", "completed", "failed", "blocked"} : Move({s}, {s})
  /\ KeepOwner
  /\ \/ KeepGate
     \/ run'.machineGate = "pass" /\ run'.gateStatus \in {"pass", "fail"}

Next ==
  \/ Create \/ Prepare \/ Start \/ Pause \/ Resume \/ Judge \/ Retry
  \/ Review \/ Conclude \/ Override

Spec == Init /\ [][Next]_run
=============================================================================
