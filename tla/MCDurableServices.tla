------------------------- MODULE MCDurableServices --------------------------
(***************************************************************************)
(* Instances for TLC of the durable services beside the event store.  They *)
(* share no state, so one run of TLC looks at each of them alone: `part`   *)
(* says at which, and the others stay as they began.                       *)
(***************************************************************************)
EXTENDS LlmBudget, ActionReceipts, Outbox, Trajectory, ArtifactStore, TLC

CONSTANTS p1, p2, l1, l2, l3, s1, x1, x2, x3, o1, o2, ok, bad, j1, j2, r1, r2, r3, k1, k2, f1

TwoProcesses == {p1, p2}

\* Two calls of one process, one of them without the scope of the other, and a
\* call of another process in the scope; they fit their budgets in part, and an
\* answer may have used more than was reserved for it.
ThreeCalls == {l1, l2, l3}
Homes      == (l1 :> p1) @@ (l2 :> p1) @@ (l3 :> p2)
OneScope   == {s1}
CallScopes == (l1 :> s1) @@ (l2 :> Whole) @@ (l3 :> s1)
Usages     == {0, 3}

\* Two attempts that name one operation, and one that was replanned.
ThreeAttempts == {x1, x2, x3}
Operations    == {o1, o2}
Named         == (x1 :> o1) @@ (x2 :> o1) @@ (x3 :> o2)
Outcomes      == {ok, bad}

TwoJobs == {j1, j2}

\* A run, a child whose creation names it, and a validation of the child, whose
\* creation names only the child.
Family      == {r1, r2, r3}
FamilyRoots == (r1 :> r1) @@ (r2 :> r1) @@ (r3 :> r1)
FamilyNamed == (r1 :> r1) @@ (r2 :> r1) @@ (r3 :> r2)
TwoKeys     == {k1, k2}

OneArtifact == {f1}

VARIABLE part

Parts == {"llm", "action", "outbox", "trajectory", "artifact"}

ServicesInit ==
  /\ part \in Parts
  /\ LlmInit /\ ActionInit /\ OutboxInit /\ TrajectoryInit /\ ArtifactInit
  /\ part # "action" => honours

LlmPart ==
  /\ part = "llm" /\ LlmNext
  /\ UNCHANGED <<part, actionVars, outboxVars, trajectoryVars, artifactVars>>

ActionPart ==
  /\ part = "action" /\ ActionNext
  /\ UNCHANGED <<part, llmVars, outboxVars, trajectoryVars, artifactVars>>

OutboxPart ==
  /\ part = "outbox" /\ OutboxNext
  /\ UNCHANGED <<part, llmVars, actionVars, trajectoryVars, artifactVars>>

TrajectoryPart ==
  /\ part = "trajectory" /\ TrajectoryNext
  /\ UNCHANGED <<part, llmVars, actionVars, outboxVars, artifactVars>>

ArtifactPart ==
  /\ part = "artifact" /\ ArtifactNext
  /\ UNCHANGED <<part, llmVars, actionVars, outboxVars, trajectoryVars>>

ServicesNext == LlmPart \/ ActionPart \/ OutboxPart \/ TrajectoryPart \/ ArtifactPart

servicesVars ==
  <<part, llmVars, actionVars, outboxVars, trajectoryVars, artifactVars>>

ServicesSpec == ServicesInit /\ [][ServicesNext]_servicesVars

\* Fair is who has a part to play.
ServicesFairSpec ==
  /\ ServicesSpec
  /\ part = "outbox" => OutboxFairness
  /\ part = "artifact" => ArtifactFairness

\* Every variable has its type.
ServicesTypeOK ==
  LlmTypeOK /\ ActionTypeOK /\ OutboxTypeOK /\ TrajectoryTypeOK /\ ArtifactTypeOK
=============================================================================
