----------------------------- MODULE AgentGraph -----------------------------
(***************************************************************************)
(* The LangGraph thread of one scenario run, from POST /v1/runs to the     *)
(* machine gate, and everybody who invokes it: the creation route, the     *)
(* plan approval, the permission grant, the scanner that resumes abandoned *)
(* approvals (approvalResumeRecovery.ts) and the worker that brings the    *)
(* result (runOrchestrator.ts).  An invocation runs node after node; a     *)
(* node's work is claimed in agent_node_executions_v1, its outcome is      *)
(* checkpointed in the thread, and the projection row tells the others.    *)
(*                                                                         *)
(* LangGraph is external: it loads the latest checkpoint, offers the value *)
(* it was resumed with to the node that checkpoint goes on with, saves a   *)
(* checkpoint after each node, and does not serialise invocations of one   *)
(* thread.                                                                 *)
(* Between queued and collecting the run is RunExecution's; here a worker  *)
(* takes it there.  Nodes that only read are passed over.                  *)
(***************************************************************************)
EXTENDS RunLifecycle

CONSTANTS
  Api,         \* processes that serve HTTP
  Origin,      \* the one that took POST /v1/runs
  Background,  \* the worker process, which also runs the recovery timer
  MaxCrashes,  \* bound: processes killed
  MaxStalls,   \* bound: grace periods that pass with somebody in the middle of a step
  MaxErrors,   \* bound: node operations that throw
  MaxEarly,    \* bound: approvals sent while the plan is still made
  MaxHaste,    \* bound: answers given before the graph has asked for them
  MaxDisturbances  \* bound: the five above together

ASSUME GraphConstants ==
  /\ Origin \in Api /\ Background \notin Api
  /\ {MaxCrashes, MaxStalls, MaxErrors, MaxEarly, MaxHaste, MaxDisturbances} \subseteq Nat

VARIABLES
  proj,      \* the run's projection
  events,    \* the types of the events it has
  thread,    \* the latest checkpoint
  rows,      \* rows[n, r]: node n's execution on a checkpoint that had reached r
  shown,     \* agent_graph_projections_v1: what the graph says it is doing
  old,       \* the records nobody has touched for the grace period
  inv,       \* inv[c]: where caller c and its invocation stand
  budget     \* what is left of the bounds

vars == <<proj, events, thread, rows, shown, old, inv, budget>>

Process == Api \cup {Background}
Caller == {"post", "approve", "grant", "recover", "worker"}

\* The nodes in their order; a checkpoint names the one to go on with.
planNode == 1   planApproval == 2   prepareNode == 3   capabilityApproval == 4
executeNode == 5   gateNode == 6   end == 7
Position == planNode .. end

HookNode == {planNode, prepareNode, gateNode}

InterruptKind(n) ==
  CASE n = planApproval       -> "plan-approval"
    [] n = capabilityApproval -> "browser-permission"
    [] n = executeNode        -> "execution-result"

Shown == {"absent", "running", "failed", "plan-approval", "browser-permission", "execution-result"}

\* The records the scanner and the claims ask the age of.
runRecord == <<0, 0>>   graphRecord == <<0, 1>>

\* A node's input hash covers the nodes the thread has completed.
RowKey == HookNode \X Position
Completed == {"completed", "completed-terminal"}
RowStatus == {"absent", "running", "failed"} \cup Completed

Checkpoint == [at : Position, plan : BOOLEAN, capabilities : BOOLEAN, reached : Position]
Fresh == [at |-> planNode, plan |-> FALSE, capabilities |-> FALSE, reached |-> planNode]

\* A caller that is doing nothing; `in` is the state its invocation works on, `ended`
\* whether the node it leaves ended the planning for good.
Idle ==
  [pc |-> "idle", home |-> None, starts |-> FALSE, answer |-> "none", in |-> Fresh, ended |-> FALSE]

RowOf(c) == <<inv[c].in.at, inv[c].in.reached>>
AtNode(c, nodes) == inv[c].pc = "node" /\ inv[c].in.at \in nodes

Spend(kind) ==
  /\ budget[kind] > 0 /\ budget.all > 0
  /\ budget' = [budget EXCEPT ![kind] = @ - 1, !.all = @ - 1]

(***************************************************************************)
(* The run, its graph's projection and the age of the records.             *)
(***************************************************************************)
After(run, type) == applyEvent(run, type, NoPayload)

Append(type) ==
  /\ proj' = After(proj, type)
  /\ events' = events \cup {type}

RunUntouched == UNCHANGED <<proj, events>>

\* Which records a step renews; a record is old again after the next grace period.
Renews(records) == old' = old \ records

Save(what) == shown' = what

(***************************************************************************)
(* Callers.                                                                *)
(***************************************************************************)
Goto(c, pc) == inv' = [inv EXCEPT ![c].pc = pc]

\* What a start is given: the approvals the run has when it is read.
StartInput(state) ==
  LET unplanned == {"draft", "planning", "awaiting-plan-approval"}
  IN  [Fresh EXCEPT !.plan = state \notin unplanned,
                    !.capabilities = state \notin unplanned \cup {"awaiting-permission"}]

StartBy(c, home) ==
  inv' = [inv EXCEPT ![c] = [Idle EXCEPT !.pc = "begin", !.home = home, !.starts = TRUE,
                                         !.in = StartInput(proj.state)]]

ResumeBy(c, home, answer) ==
  inv' = [inv EXCEPT ![c] = [Idle EXCEPT !.pc = "begin", !.home = home, !.answer = answer]]

\* Approvals that wait for the start of the creation route in their own process.
Joined(c) == {d \in Caller : c = "post" /\ inv[d].pc = "join" /\ inv[d].home = inv[c].home}

\* The invocation returned.  The approval route looks at the run again after a
\* start, its own or the one it joined; the others are done.
Returned(c) ==
  LET decides == Joined(c) \cup {d \in {"approve"} : d = c /\ inv[d].starts}
  IN  inv' = [d \in Caller |->
                IF d \in decides THEN [inv[d] EXCEPT !.pc = "decide", !.in = Fresh]
                ELSE IF d = c THEN Idle ELSE inv[d]]

\* The invocation threw.  In the background the failure is recorded; a route that
\* waits answers 500, recoverers and workers swallow it.
Threw(c) ==
  inv' = [d \in Caller |->
            IF d = c /\ c \in {"post", "grant"}
              THEN [Idle EXCEPT !.pc = "block", !.home = inv[c].home]
              ELSE IF d = c \/ d \in Joined(c) THEN Idle ELSE inv[d]]

\* A caller at node inv[c].in.at finished it: the thread's latest checkpoint becomes
\* its own.  The value it was resumed with was for that node only.
Leave(c, to, plan, capabilities) ==
  LET in == inv[c].in
      next == [at |-> to, plan |-> plan, capabilities |-> capabilities,
               reached |-> IF to > in.reached THEN to ELSE in.reached]
  IN  /\ thread' = next
      /\ inv' = [inv EXCEPT ![c].pc = "node", ![c].in = next, ![c].answer = "none", ![c].ended = FALSE]

\* Mutant: the node after the next one is checkpointed.
LeaveBeyond(c, to) == Leave(c, to + 1, inv[c].in.plan, inv[c].in.capabilities)

LeaveTo(c, to) == Leave(c, to, inv[c].in.plan, inv[c].in.capabilities)

\* graph.invoke: a start begins a new pass over the thread with the input it was
\* given; a resume goes on from the latest checkpoint.
Begin(c) ==
  /\ inv[c].pc = "begin"
  /\ LET from == IF inv[c].starts THEN [inv[c].in EXCEPT !.reached = thread.reached] ELSE thread
     IN  /\ thread' = from
         /\ inv' = [inv EXCEPT ![c].pc = "node", ![c].in = from]
  /\ RunUntouched /\ UNCHANGED <<rows, shown, old, budget>>

End(c) ==
  /\ AtNode(c, {end})
  /\ Returned(c)
  /\ RunUntouched /\ UNCHANGED <<thread, rows, shown, old, budget>>

(***************************************************************************)
(* Nodes that wait for an answer: approvalNode and executionNode.          *)
(***************************************************************************)
Approved(in) == IF in.at = planApproval THEN in.plan ELSE in.at = capabilityApproval /\ in.capabilities

PassApproved(c) ==
  /\ AtNode(c, {planApproval, capabilityApproval}) /\ Approved(inv[c].in)
  /\ LeaveTo(c, inv[c].in.at + 1)
  /\ RunUntouched /\ UNCHANGED <<rows, shown, old, budget>>

Asking(c) == AtNode(c, {planApproval, capabilityApproval, executeNode}) /\ ~Approved(inv[c].in)

\* The pending interrupt is saved before the answer is looked at.
ShowInterrupt(c) == Save(InterruptKind(inv[c].in.at)) /\ Renews({graphRecord})

Suspend(c) ==
  /\ Asking(c) /\ inv[c].answer = "none"
  /\ ShowInterrupt(c) /\ Returned(c)
  /\ RunUntouched /\ UNCHANGED <<thread, rows, budget>>

Fits(c) == inv[c].answer = IF inv[c].in.at = executeNode THEN "result" ELSE "approval"

TakeAnswer(c) ==
  LET in == inv[c].in
  IN  /\ Asking(c) /\ inv[c].answer # "none" /\ Fits(c)
      /\ ShowInterrupt(c)
      /\ Leave(c, in.at + 1, in.plan \/ in.at = planApproval,
               in.capabilities \/ in.at = capabilityApproval)
      /\ RunUntouched /\ UNCHANGED <<rows, budget>>

\* "plan-approval_rejected", "browser-permission_rejected", "execution_result_missing"
Reject(c) ==
  /\ Asking(c) /\ inv[c].answer # "none" /\ ~Fits(c)
  /\ ShowInterrupt(c) /\ Threw(c)
  /\ RunUntouched /\ UNCHANGED <<thread, rows, budget>>

(***************************************************************************)
(* Nodes with work to do: makeNode around executeAgentNodeIdempotently.    *)
(***************************************************************************)
\* The hook returns the outcome.
GoOn(c, outcome) ==
  inv' = [inv EXCEPT ![c].pc = "leave", ![c].ended = outcome = "completed-terminal"]

\* The insert, and the look at the row that is there already.
Claim(c) ==
  LET row == RowOf(c)
  IN  /\ AtNode(c, HookNode)
      /\ Save("running")
      /\ CASE rows[row] = "absent" ->
                /\ rows' = [rows EXCEPT ![row] = "running"]
                /\ Renews({graphRecord, row}) /\ Goto(c, "operate")
           [] rows[row] \in Completed ->
                Renews({graphRecord}) /\ GoOn(c, rows[row]) /\ UNCHANGED rows
           [] OTHER -> Renews({graphRecord}) /\ Goto(c, "reclaim") /\ UNCHANGED rows
      /\ RunUntouched /\ UNCHANGED <<thread, budget>>

\* Mutant: an execution that is in progress elsewhere is passed over as if it were done.
PassInProgress(c) ==
  LET row == RowOf(c)
  IN  /\ inv[c].pc = "reclaim"
      /\ IF rows[row] = "failed" \/ row \in old
           THEN /\ rows' = [rows EXCEPT ![row] = "running"]
                /\ Renews({row}) /\ Goto(c, "operate")
           ELSE GoOn(c, "completed") /\ UNCHANGED <<rows, old>>
      /\ RunUntouched /\ UNCHANGED <<thread, shown, budget>>

\* The update that takes over a failed or an old row looks at no other status; without
\* a row to take over it throws agent_node_execution_in_progress.
Reclaim(c) ==
  LET row == RowOf(c)
  IN  /\ inv[c].pc = "reclaim"
      /\ IF rows[row] = "failed" \/ row \in old
           THEN /\ rows' = [rows EXCEPT ![row] = "running"]
                /\ Renews({row}) /\ Goto(c, "operate")
           ELSE Goto(c, "inProgress") /\ UNCHANGED <<rows, old>>
      /\ RunUntouched /\ UNCHANGED <<thread, shown, budget>>

PlanOutcome == {"plan_generated", "human_review_requested", "run_blocked"}

\* plan: appendPlanningEvent, which leaves a run alone that is not planning.
\* collect-and-gate: run_judging, if the run collects.
Effect(n) ==
  IF n = planNode /\ proj.state = "planning"
    THEN \E type \in PlanOutcome : Append(type) /\ Renews({runRecord})
    ELSE IF n = gateNode /\ proj.state = "collecting"
           THEN Append("run_judging") /\ Renews({runRecord})
           ELSE RunUntouched /\ UNCHANGED old

Operate(c) ==
  /\ inv[c].pc = "operate"
  /\ Effect(inv[c].in.at)
  /\ Goto(c, "settle")
  /\ UNCHANGED <<thread, rows, shown, budget>>

OperationThrows(c) ==
  /\ inv[c].pc = "operate" /\ Spend("errors")
  /\ rows' = [rows EXCEPT ![RowOf(c)] = "failed"]
  /\ Goto(c, "inProgress")
  /\ RunUntouched /\ UNCHANGED <<thread, shown, old>>

PlanningTerminalState == {"awaiting-human-review", "blocked", "failed", "cancelled"}

\* The row is completed by its id, whoever has taken it over meanwhile.
Settle(c) ==
  /\ inv[c].pc = "settle"
  /\ LET outcome == IF inv[c].in.at = planNode /\ proj.state \in PlanningTerminalState
                      THEN "completed-terminal" ELSE "completed"
     IN  rows' = [rows EXCEPT ![RowOf(c)] = outcome] /\ GoOn(c, outcome)
  /\ RunUntouched /\ UNCHANGED <<thread, shown, old, budget>>

\* A plan that ended in a terminal state leads to the end of the graph.
LeaveHook(c) ==
  /\ inv[c].pc = "leave"
  /\ Save("running") /\ Renews({graphRecord})
  /\ LeaveTo(c, IF inv[c].ended THEN end ELSE inv[c].in.at + 1)
  /\ RunUntouched /\ UNCHANGED <<rows, budget>>

\* makeNode saves the failure of its hook, also when the hook only lost the claim.
HookFails(c) ==
  /\ inv[c].pc = "inProgress"
  /\ Save("failed") /\ Renews({graphRecord}) /\ Threw(c)
  /\ RunUntouched /\ UNCHANGED <<thread, rows, budget>>

BlockableState ==
  {"planning", "awaiting-permission", "queued", "preparing", "running", "paused",
   "collecting", "judging", "awaiting-human-review"}

\* recordBackgroundGraphFailure
RecordBackgroundGraphFailure(c) ==
  /\ inv[c].pc = "block"
  /\ Save("failed")
  /\ IF proj.state \in BlockableState
       THEN Append("run_blocked") /\ Renews({graphRecord, runRecord})
       ELSE RunUntouched /\ Renews({graphRecord})
  /\ inv' = [inv EXCEPT ![c] = Idle]
  /\ UNCHANGED <<thread, rows, budget>>

InvocationStep(c) ==
  \/ Begin(c) \/ End(c) \/ PassApproved(c) \/ Suspend(c) \/ TakeAnswer(c) \/ Reject(c)
  \/ Claim(c) \/ Reclaim(c) \/ Operate(c) \/ Settle(c) \/ LeaveHook(c) \/ HookFails(c)
  \/ RecordBackgroundGraphFailure(c)

(***************************************************************************)
(* The approval route.                                                     *)
(***************************************************************************)
StartInFlight(c) == inv[c].starts /\ inv[c].pc \notin {"idle", "join", "decide", "block"}

\* An answer nobody asked for yet is a hasty one.
InTime(kind) == IF shown = kind THEN UNCHANGED budget ELSE Spend("haste")

\* A person approves a plan that is there, or one that is still made: then the route
\* starts the graph, unless its own process is starting it already.
Approve(home) ==
  /\ inv["approve"].pc = "idle"
  /\ \/ /\ proj.state = "awaiting-plan-approval"
        /\ InTime("plan-approval")
        /\ inv' = [inv EXCEPT !["approve"] = [Idle EXCEPT !.pc = "decide", !.home = home]]
     \/ /\ proj.state = "planning" /\ Spend("early")
        /\ IF StartInFlight("post") /\ inv["post"].home = home
             THEN inv' = [inv EXCEPT !["approve"] = [Idle EXCEPT !.pc = "join", !.home = home]]
             ELSE StartBy("approve", home)
  /\ RunUntouched /\ UNCHANGED <<thread, rows, shown, old>>

\* 409 unless the plan is there; else the decision is committed, then the graph resumed.
Decide ==
  /\ inv["approve"].pc = "decide"
  /\ IF proj.state = "awaiting-plan-approval"
       THEN /\ Append("plan_approved") /\ Renews({runRecord})
            /\ ResumeBy("approve", inv["approve"].home, "approval")
       ELSE /\ inv' = [inv EXCEPT !["approve"] = Idle]
            /\ RunUntouched /\ UNCHANGED old
  /\ UNCHANGED <<thread, rows, shown, budget>>

(***************************************************************************)
(* The permission route.                                                   *)
(***************************************************************************)
\* Mutant: the grant is committed, and the graph is not told.
GrantOnly(home) ==
  /\ proj.state = "awaiting-permission" /\ inv["grant"].pc = "idle"
  /\ InTime("browser-permission")
  /\ Append("permission_granted") /\ Renews({runRecord})
  /\ UNCHANGED <<thread, rows, shown, inv>>

Grant(home) ==
  /\ proj.state = "awaiting-permission" /\ inv["grant"].pc = "idle"
  /\ InTime("browser-permission")
  /\ Append("permission_granted") /\ Renews({runRecord})
  /\ ResumeBy("grant", home, "approval")
  /\ UNCHANGED <<thread, rows, shown>>

(***************************************************************************)
(* Recovery of an approval nobody carried on.                              *)
(***************************************************************************)
\* Mutant: the scan looks for runs whose approval is still to come.
ClaimUnapproved(home) ==
  /\ inv["recover"].pc = "idle"
  /\ proj.state = "awaiting-plan-approval" /\ shown = "plan-approval"
  /\ {runRecord, graphRecord} \subseteq old
  /\ inv' = [inv EXCEPT !["recover"] = [Idle EXCEPT !.pc = "check", !.home = home]]
  /\ Renews({graphRecord})
  /\ RunUntouched /\ UNCHANGED <<thread, rows, shown, budget>>

\* listStalledApprovedPlanRunIds, and the update that claims what it found.
ClaimStalledApproval(home) ==
  /\ inv["recover"].pc = "idle"
  /\ proj.state = "awaiting-permission" /\ shown = "plan-approval"
  /\ {runRecord, graphRecord} \subseteq old
  /\ inv' = [inv EXCEPT !["recover"] = [Idle EXCEPT !.pc = "check", !.home = home]]
  /\ Renews({graphRecord})
  /\ RunUntouched /\ UNCHANGED <<thread, rows, shown, budget>>

CheckStalledApproval ==
  /\ inv["recover"].pc = "check"
  /\ IF /\ proj.state = "awaiting-permission" /\ shown = "plan-approval"
        /\ "plan_approved" \in events
       THEN ResumeBy("recover", inv["recover"].home, "approval")
       ELSE inv' = [inv EXCEPT !["recover"] = Idle]
  /\ RunUntouched /\ UNCHANGED <<thread, rows, shown, old, budget>>

(***************************************************************************)
(* The worker.                                                             *)
(***************************************************************************)
WorkerEvent == {"run_preparing", "run_started", "evidence_collecting"}

\* A run nobody has started the graph of: a job that overtakes the background start.
Bootstrap ==
  /\ inv["worker"].pc = "idle" /\ proj.state = "queued" /\ shown = "absent"
  /\ Spend("haste")
  /\ StartBy("worker", Background)
  /\ RunUntouched /\ UNCHANGED <<thread, rows, shown, old>>

\* executeQueuedRun; once the evidence is there it resumes the graph with the result.
\* An execution is long against the steps that bring the graph to its interrupt.
WorkerStep ==
  /\ inv["worker"].pc = "idle" /\ shown # "absent"
  /\ \E type \in WorkerEvent :
       /\ CanTransition(proj.state, type)
       /\ Append(type) /\ Renews({runRecord})
       /\ IF type = "evidence_collecting"
            THEN /\ ResumeBy("worker", Background, "result")
                 /\ IF \A c \in {"post", "grant"} : inv[c].pc = "idle"
                      THEN UNCHANGED budget ELSE Spend("stalls")
            ELSE UNCHANGED <<inv, budget>>
  /\ UNCHANGED <<thread, rows, shown>>

(***************************************************************************)
(* Time and failure.                                                       *)
(***************************************************************************)
Ages == {runRecord, graphRecord} \cup {row \in RowKey : rows[row] = "running"}

\* The work of a node may outlast every grace period, and nothing renews its row
\* meanwhile; the grace periods are long against the other steps of a live process: they
\* pass while nobody is in one, or somebody stalls.
Age ==
  /\ ~(Ages \subseteq old)
  /\ old' = old \cup Ages
  /\ IF \A c \in Caller : inv[c].pc \in {"idle", "operate"} THEN UNCHANGED budget ELSE Spend("stalls")
  /\ RunUntouched /\ UNCHANGED <<thread, rows, shown, inv>>

\* A process dies with the invocations it was running.
Crash(p) ==
  /\ Spend("crashes")
  /\ \E c \in Caller : inv[c].home = p
  /\ inv' = [c \in Caller |-> IF inv[c].home = p THEN Idle ELSE inv[c]]
  /\ RunUntouched /\ UNCHANGED <<thread, rows, shown, old>>

(***************************************************************************)
(* POST /v1/runs has answered; its background start is about to begin.  A  *)
(* confirmed execution was planned, approved and granted by the route.     *)
(***************************************************************************)
CreatedRun ==
  [DraftRun EXCEPT !.state = "planning", !.version = 1, !.kind = "validation",
                   !.executionStatus = "running"]

GrantedRun ==
  After(After(After(CreatedRun, "plan_generated"), "plan_approved"), "permission_granted")

\* The runs the route may have answered with, and what they went through.
AnsweredWith ==
  { <<CreatedRun, {}>>,
    <<GrantedRun, {"plan_generated", "plan_approved", "permission_granted"}>> }
  \cup { <<After(CreatedRun, type), {type}>> : type \in {"human_review_requested", "run_blocked"} }

FullBudget ==
  [crashes |-> MaxCrashes, stalls |-> MaxStalls, errors |-> MaxErrors, early |-> MaxEarly,
   haste |-> MaxHaste, all |-> MaxDisturbances]

Init ==
  /\ \E answer \in AnsweredWith :
       proj = answer[1] /\ events = {"run_created"} \cup answer[2]
  /\ thread = Fresh
  /\ rows = [row \in RowKey |-> "absent"]
  /\ shown = "absent" /\ old = {}
  /\ inv = [c \in Caller |->
              IF c = "post"
                THEN [Idle EXCEPT !.pc = "begin", !.home = Origin, !.starts = TRUE,
                                  !.in = StartInput(proj.state)]
              ELSE Idle]
  /\ budget = FullBudget

RecoverStep == CheckStalledApproval \/ \E p \in Process : ClaimStalledApproval(p)

Next ==
  \/ \E c \in Caller : InvocationStep(c) \/ OperationThrows(c)
  \/ \E p \in Api : Approve(p) \/ Grant(p)
  \/ Decide \/ RecoverStep \/ Bootstrap \/ WorkerStep \/ Age
  \/ \E p \in Process : Crash(p)

Spec == Init /\ [][Next]_vars

\* Invocations of live processes go on, the timers fire and the queue delivers; people
\* need not answer and failures need not come.
Fairness ==
  /\ \A c \in Caller : WF_vars(InvocationStep(c))
  /\ WF_vars(Decide) /\ WF_vars(RecoverStep) /\ WF_vars(WorkerStep) /\ WF_vars(Age)

FairSpec == Spec /\ Fairness

-----------------------------------------------------------------------------
(***************************************************************************)
(* Properties.                                                             *)
(***************************************************************************)
Invocation ==
  [ pc : {"idle", "join", "decide", "begin", "node", "reclaim", "operate", "settle", "leave",
          "inProgress", "block", "check"},
    home : Process \cup {None}, starts : BOOLEAN,
    answer : {"none", "approval", "result"}, in : Checkpoint, ended : BOOLEAN ]

\* Every variable has its type.
TypeOK ==
  /\ proj \in Projection /\ events \subseteq EventType
  /\ thread \in Checkpoint
  /\ rows \in [RowKey -> RowStatus]
  /\ shown \in Shown
  /\ old \subseteq {runRecord, graphRecord} \cup RowKey
  /\ inv \in [Caller -> Invocation]
  /\ budget \in [{"crashes", "stalls", "errors", "early", "haste", "all"} -> Nat]

\* "The next Graph boundary remains browser-permission, so a capability grant is still
\* explicitly required from the user": the graph never gets past that boundary on the
\* strength of the plan's approval, given once by the route and once by its recovery.
CapabilitiesAreGranted ==
  thread.at \in {executeNode, gateNode} => "permission_granted" \in events

\* A node that failed, or is worked on for longer than the limit, is taken over, and its
\* execution is completed by whoever comes first; however that goes, the graph never gets
\* to the plan's approval, or past it, without a plan the run has.
GraphHasItsPlan ==
  thread.at \in planApproval .. gateNode => "plan_generated" \in events

\* "Resume only an abandoned, already-approved planning interrupt": an approval whose
\* resume was lost does not keep the run waiting at that interrupt.
ApprovalIsStalled == proj.state = "awaiting-permission" /\ shown = "plan-approval"
StalledApprovalIsResumed == ApprovalIsStalled ~> ~ApprovalIsStalled

Answers ==
  /\ \A p \in Api : WF_vars(shown = "plan-approval" /\ Approve(p))
  /\ \A p \in Api : WF_vars(shown = "browser-permission" /\ Grant(p))

\* A run that meets no failure, and whose interrupts are answered once they are shown,
\* gets a verdict.
UndisturbedRunIsJudged ==
  Answers => ([](budget = FullBudget)
                => <>(proj.state \in TerminalState \cup {"judging", "awaiting-human-review"}))
=============================================================================
