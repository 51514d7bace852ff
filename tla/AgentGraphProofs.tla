--------------------------- MODULE AgentGraphProofs ---------------------------
(***************************************************************************)
(* What AgentGraph guarantees for any processes and bounds: its types;     *)
(* that the run it drives is an abstract run; that the graph never comes   *)
(* to the plan's approval without a plan, whoever takes over whose node;   *)
(* and, if nobody stalls, is early or hasty, that it passes the permission *)
(* boundary on a grant only.                                               *)
(***************************************************************************)
EXTENDS AgentGraph, RunLifecycleProofs

(***************************************************************************)
(* The invariant.                                                          *)
(***************************************************************************)
\* Callers in the middle of a node with work to do.
Hooked == {"reclaim", "operate", "settle", "leave", "inProgress"}

AtHooks == \A c \in Caller : inv[c].pc \in Hooked => inv[c].in.at \in HookNode

Typed == TypeOK /\ AtHooks

(***************************************************************************)
(* The run.                                                                *)
(***************************************************************************)
LEMMA AfterTyped ==
  ASSUME NEW p \in Projection, NEW type \in EventType, NEW to,
         <<p.state, type, to>> \in transitions, type # "run_resumed"
  PROVE  /\ After(p, type) \in Projection
         /\ <<p.state, type, After(p, type).state>> \in transitions
PROOF
  <1>1. to \in RunState
    BY DEF transitions, openTransitions, closedTransitions, RunState
  <1>2. CanTransition(p.state, type)
    BY <1>1 DEF CanTransition
  <1>3. NoPayload \in Payload
    BY DEF NoPayload, Payload
  <1> QED
    BY <1>2, <1>3, ApplyTyped, ApplyMoves DEF After

LEMMA AppendTyped ==
  ASSUME TypeOK, NEW type \in EventType \ {"run_resumed"}, NEW to,
         <<proj.state, type, to>> \in transitions, Append(type)
  PROVE  proj' \in Projection /\ events' \subseteq EventType
PROOF
  <1>1. proj \in Projection /\ events \subseteq EventType
    BY DEF TypeOK
  <1> QED
    BY <1>1, AfterTyped DEF Append

\* What planning, a background failure, the routes and the worker append, they may.
LEMMA EventsFit ==
  /\ \A type \in PlanOutcome : \E to : <<"planning", type, to>> \in transitions
  /\ \A state \in BlockableState : \E to : <<state, "run_blocked", to>> \in transitions
  /\ <<"collecting", "run_judging", "judging">> \in transitions
  /\ <<"awaiting-plan-approval", "plan_approved", "awaiting-permission">> \in transitions
  /\ <<"awaiting-permission", "permission_granted", "queued">> \in transitions
  /\ PlanOutcome \cup WorkerEvent
       \cup {"run_blocked", "run_judging", "plan_approved", "permission_granted"}
     \subseteq EventType \ {"run_resumed"}
PROOF
  <1>1. ASSUME NEW type \in PlanOutcome PROVE \E to : <<"planning", type, to>> \in transitions
    <2>1. /\ <<"planning", "plan_generated", "awaiting-plan-approval">> \in transitions
          /\ <<"planning", "human_review_requested", "awaiting-human-review">> \in transitions
          /\ <<"planning", "run_blocked", "blocked">> \in transitions
      BY DEF transitions, openTransitions
    <2> QED
      BY <2>1 DEF PlanOutcome
  <1>2. ASSUME NEW state \in BlockableState
        PROVE  \E to : <<state, "run_blocked", to>> \in transitions
    <2>1. <<state, "run_blocked", "blocked">> \in transitions
      BY DEF transitions, openTransitions, BlockableState
    <2> QED
      BY <2>1
  <1>3. /\ <<"collecting", "run_judging", "judging">> \in transitions
        /\ <<"awaiting-plan-approval", "plan_approved", "awaiting-permission">> \in transitions
        /\ <<"awaiting-permission", "permission_granted", "queued">> \in transitions
    BY DEF transitions, openTransitions
  <1>4. PlanOutcome \cup WorkerEvent
          \cup {"run_blocked", "run_judging", "plan_approved", "permission_granted"}
        \subseteq EventType \ {"run_resumed"}
    BY DEF PlanOutcome, WorkerEvent, EventType
  <1> QED
    BY <1>1, <1>2, <1>3, <1>4

(***************************************************************************)
(* The callers.                                                            *)
(***************************************************************************)
Pc == {"idle", "join", "decide", "begin", "node", "reclaim", "operate", "settle", "leave",
       "inProgress", "block", "check"}

\* Callers keep their type, and whoever is at a node's work came to it at that node.
CallersMove ==
  /\ inv' \in [Caller -> Invocation]
  /\ \A d \in Caller : inv'[d].pc \in Hooked =>
       inv'[d].in = inv[d].in /\ (inv[d].pc \in Hooked \/ AtNode(d, HookNode))

LEMMA RecordsTyped ==
  ASSUME TypeOK
  PROVE  /\ Fresh \in Checkpoint /\ Idle \in Invocation /\ Idle.in = Fresh
         /\ thread \in Checkpoint /\ Origin \in Process /\ Api \subseteq Process
         /\ \A state \in RunState : StartInput(state) \in Checkpoint
         /\ \A c \in Caller : inv[c] \in Invocation /\ inv[c].in \in Checkpoint
PROOF
  <1>1. Fresh \in Checkpoint /\ Idle \in Invocation /\ Idle.in = Fresh
    BY DEF Fresh, Checkpoint, Position, planNode, end, Idle, Invocation
  <1>2. \A state \in RunState : StartInput(state) \in Checkpoint
    BY <1>1 DEF StartInput, Checkpoint
  <1>3. \A c \in Caller : inv[c] \in Invocation /\ inv[c].in \in Checkpoint
    BY DEF TypeOK, Invocation
  <1> QED
    BY <1>1, <1>2, <1>3, GraphConstants DEF TypeOK, Process

LEMMA GotoMoves ==
  ASSUME TypeOK, NEW c \in Caller, NEW pc \in Pc, Goto(c, pc),
         pc \in Hooked => inv[c].pc \in Hooked \/ AtNode(c, HookNode)
  PROVE  /\ CallersMove
         /\ inv'[c].pc = pc /\ inv'[c].in = inv[c].in
         /\ \A d \in Caller \ {c} : inv'[d] = inv[d]
PROOF
  <1>1. inv \in [Caller -> Invocation] /\ inv[c] \in Invocation
    BY DEF TypeOK
  <1>2. [inv[c] EXCEPT !.pc = pc] \in Invocation
    BY <1>1 DEF Invocation, Pc
  <1>3. inv' = [inv EXCEPT ![c] = [inv[c] EXCEPT !.pc = pc]]
    BY <1>1 DEF Goto
  <1>4. inv'[c].pc = pc /\ inv'[c].in = inv[c].in
    BY <1>1, <1>3 DEF Invocation
  <1>5. inv' \in [Caller -> Invocation] /\ \A d \in Caller \ {c} : inv'[d] = inv[d]
    BY <1>1, <1>2, <1>3
  <1> QED
    BY <1>4, <1>5 DEF CallersMove

LEMMA GoOnMoves ==
  ASSUME TypeOK, NEW c \in Caller, NEW outcome, GoOn(c, outcome),
         inv[c].pc \in Hooked \/ AtNode(c, HookNode)
  PROVE  CallersMove
PROOF
  <1> DEFINE record == [inv[c] EXCEPT !.pc = "leave", !.ended = outcome = "completed-terminal"]
  <1>1. inv \in [Caller -> Invocation] /\ inv[c] \in Invocation
    BY DEF TypeOK
  <1>2. record \in Invocation /\ record.in = inv[c].in
    BY <1>1 DEF Invocation
  <1>3. inv' = [inv EXCEPT ![c] = record]
    BY <1>1 DEF GoOn
  <1> HIDE DEF record
  <1> QED
    BY <1>1, <1>2, <1>3 DEF CallersMove

\* One caller is left in a place where it does no node's work.
LEMMA TurnMoves ==
  ASSUME TypeOK, NEW c \in Caller, NEW record \in Invocation, record.pc \notin Hooked,
         inv' = [inv EXCEPT ![c] = record]
  PROVE  CallersMove
  BY DEF TypeOK, CallersMove, Hooked

LEMMA StartMoves ==
  ASSUME TypeOK, NEW c \in Caller, NEW home \in Process, StartBy(c, home)
  PROVE  CallersMove
PROOF
  <1> DEFINE record == [Idle EXCEPT !.pc = "begin", !.home = home, !.starts = TRUE,
                                    !.in = StartInput(proj.state)]
  <1>1. StartInput(proj.state) \in Checkpoint
    BY RecordsTyped DEF TypeOK, Projection
  <1>2. record \in Invocation /\ record.pc = "begin"
    BY <1>1, RecordsTyped DEF Invocation
  <1>3. inv' = [inv EXCEPT ![c] = record]
    BY DEF StartBy
  <1> QED
    BY <1>2, <1>3, TurnMoves DEF Hooked

LEMMA ResumeMoves ==
  ASSUME TypeOK, NEW c \in Caller, NEW home \in Process \cup {None},
         NEW answer \in {"approval", "result"}, ResumeBy(c, home, answer)
  PROVE  CallersMove
PROOF
  <1> DEFINE record == [Idle EXCEPT !.pc = "begin", !.home = home, !.answer = answer]
  <1>1. record \in Invocation /\ record.pc = "begin"
    BY RecordsTyped DEF Invocation
  <1>2. inv' = [inv EXCEPT ![c] = record]
    BY DEF ResumeBy
  <1> QED
    BY <1>1, <1>2, TurnMoves DEF Hooked

\* A caller that waits for a process to do something for it.
LEMMA WaitMoves ==
  ASSUME TypeOK, NEW c \in Caller, NEW home \in Process,
         NEW pc \in {"join", "decide", "check"},
         inv' = [inv EXCEPT ![c] = [Idle EXCEPT !.pc = pc, !.home = home]]
  PROVE  CallersMove
PROOF
  <1> DEFINE record == [Idle EXCEPT !.pc = pc, !.home = home]
  <1>1. record \in Invocation /\ record.pc = pc
    BY RecordsTyped DEF Invocation
  <1> QED
    BY <1>1, TurnMoves DEF Hooked

LEMMA IdleMoves ==
  ASSUME TypeOK, NEW c \in Caller, inv' = [inv EXCEPT ![c] = Idle]
  PROVE  CallersMove
  BY RecordsTyped, TurnMoves DEF Hooked, Idle

\* Every caller stays as it is or ends where it does no node's work.
LEMMA EachTurns ==
  ASSUME TypeOK, NEW f, inv' = [d \in Caller |-> f[d]],
         \A d \in Caller : f[d] = inv[d] \/ (f[d] \in Invocation /\ f[d].pc \notin Hooked)
  PROVE  CallersMove
  BY DEF TypeOK, CallersMove, Hooked

LEMMA ReturnedMoves ==
  ASSUME TypeOK, NEW c \in Caller, Returned(c)
  PROVE  CallersMove
PROOF
  <1> DEFINE decides == Joined(c) \cup {d \in {"approve"} : d = c /\ inv[d].starts}
             f == [d \in Caller |-> IF d \in decides THEN [inv[d] EXCEPT !.pc = "decide", !.in = Fresh]
                                    ELSE IF d = c THEN Idle ELSE inv[d]]
  <1>1. inv' = f
    BY DEF Returned
  <1>2. ASSUME NEW d \in Caller
        PROVE  [inv[d] EXCEPT !.pc = "decide", !.in = Fresh] \in Invocation
    BY RecordsTyped DEF Invocation
  <1>3. \A d \in Caller : f[d] = inv[d] \/ (f[d] \in Invocation /\ f[d].pc \notin Hooked)
    <2> SUFFICES ASSUME NEW d \in Caller
                 PROVE  f[d] = inv[d] \/ (f[d] \in Invocation /\ f[d].pc \notin Hooked)
      OBVIOUS
    <2>1. CASE d \in decides
      <3>1. f[d] = [inv[d] EXCEPT !.pc = "decide", !.in = Fresh]
        BY <2>1
      <3>2. f[d].pc = "decide"
        BY <3>1, RecordsTyped DEF Invocation
      <3> QED
        BY <1>2, <3>1, <3>2 DEF Hooked
    <2>2. CASE d \notin decides
      BY <2>2, RecordsTyped DEF Hooked, Idle
    <2> QED
      BY <2>1, <2>2
  <1>4. inv' = [d \in Caller |-> f[d]]
    BY <1>1
  <1> HIDE DEF f
  <1> QED
    BY <1>3, <1>4, EachTurns

LEMMA ThrewMoves ==
  ASSUME TypeOK, NEW c \in Caller, Threw(c)
  PROVE  CallersMove
PROOF
  <1> DEFINE f == [d \in Caller |->
                     IF d = c /\ c \in {"post", "grant"}
                       THEN [Idle EXCEPT !.pc = "block", !.home = inv[c].home]
                       ELSE IF d = c \/ d \in Joined(c) THEN Idle ELSE inv[d]]
  <1>1. inv' = f
    BY DEF Threw
  <1>2. /\ [Idle EXCEPT !.pc = "block", !.home = inv[c].home] \in Invocation
        /\ [Idle EXCEPT !.pc = "block", !.home = inv[c].home].pc = "block"
    BY RecordsTyped DEF Invocation
  <1>3. \A d \in Caller : f[d] = inv[d] \/ (f[d] \in Invocation /\ f[d].pc \notin Hooked)
    BY <1>2, RecordsTyped DEF Hooked, Idle
  <1>4. inv' = [d \in Caller |-> f[d]]
    BY <1>1
  <1> HIDE DEF f
  <1> QED
    BY <1>3, <1>4, EachTurns

LEMMA LeaveMoves ==
  ASSUME TypeOK, NEW c \in Caller, NEW to \in Position, NEW plan \in BOOLEAN,
         NEW capabilities \in BOOLEAN, Leave(c, to, plan, capabilities)
  PROVE  CallersMove /\ thread' \in Checkpoint
PROOF
  <1> DEFINE in == inv[c].in
             next == [at |-> to, plan |-> plan, capabilities |-> capabilities,
                      reached |-> IF to > in.reached THEN to ELSE in.reached]
             record == [inv[c] EXCEPT !.pc = "node", !.in = next, !.answer = "none",
                                  !.ended = FALSE]
  <1>1. inv[c] \in Invocation /\ in \in Checkpoint
    BY RecordsTyped
  <1>2. next \in Checkpoint
    BY <1>1 DEF Checkpoint
  <1>3. thread' = next /\ inv' = [inv EXCEPT ![c] = record]
    BY <1>1 DEF Leave, TypeOK
  <1> HIDE DEF next
  <1>4. record \in Invocation /\ record.pc = "node"
    BY <1>1, <1>2 DEF Invocation
  <1> QED
    BY <1>2, <1>3, <1>4, TurnMoves DEF Hooked

(***************************************************************************)
(* Types.                                                                  *)
(***************************************************************************)
LEMMA SpendTyped ==
  ASSUME TypeOK, NEW kind \in {"crashes", "stalls", "errors", "early", "haste"}, Spend(kind)
  PROVE  /\ budget' \in [{"crashes", "stalls", "errors", "early", "haste", "all"} -> Nat]
         /\ budget[kind] > 0
         /\ kind # "stalls" => budget'.stalls = budget.stalls
PROOF
  <1> DEFINE m == budget[kind]
             n == budget.all
  <1>1. m \in Nat /\ n \in Nat /\ m > 0 /\ n > 0
    BY DEF Spend, TypeOK
  <1>2. budget' = [budget EXCEPT ![kind] = m - 1, !.all = n - 1]
    BY DEF Spend
  <1>3. m = budget[kind]
    OBVIOUS
  <1> HIDE DEF m, n
  <1>4. m - 1 \in Nat /\ n - 1 \in Nat
    BY <1>1
  <1>5. budget \in [{"crashes", "stalls", "errors", "early", "haste", "all"} -> Nat]
    BY DEF TypeOK
  <1>6. kind # "stalls" => budget'.stalls = budget.stalls
    BY <1>2, <1>5
  <1> QED
    BY <1>1, <1>2, <1>3, <1>4, <1>5, <1>6

\* Where the parts of the state have their types, they do together.
LEMMA PartsTyped ==
  ASSUME Typed, CallersMove,
         proj' \in Projection, events' \subseteq EventType, thread' \in Checkpoint,
         rows' \in [RowKey -> RowStatus], shown' \in Shown,
         old' \subseteq {runRecord, graphRecord} \cup RowKey,
         budget' \in [{"crashes", "stalls", "errors", "early", "haste", "all"} -> Nat]
  PROVE  Typed'
PROOF
  <1>1. TypeOK'
    BY DEF TypeOK, CallersMove
  <1>2. AtHooks'
    BY DEF AtHooks, CallersMove, AtNode, Typed
  <1> QED
    BY <1>1, <1>2 DEF Typed

LEMMA RenewsTyped ==
  ASSUME TypeOK, NEW records, Renews(records)
  PROVE  old' \subseteq {runRecord, graphRecord} \cup RowKey /\ old' \subseteq old
         /\ \A r \in records : r \notin old'
  BY DEF TypeOK, Renews

LEMMA HookedRow ==
  ASSUME Typed, NEW c \in Caller, inv[c].pc \in Hooked \/ AtNode(c, HookNode)
  PROVE  /\ RowOf(c) \in RowKey /\ inv[c].in.at \in HookNode
         /\ inv[c].in \in Checkpoint
  BY RecordsTyped DEF Typed, AtHooks, AtNode, RowOf, RowKey, Checkpoint

LEMMA InterruptTyped ==
  ASSUME NEW n \in {planApproval, capabilityApproval, executeNode}
  PROVE  InterruptKind(n) \in Shown
  BY DEF InterruptKind, Shown, planApproval, capabilityApproval, executeNode

LEMMA InvocationTyped ==
  ASSUME Typed, NEW c \in Caller, InvocationStep(c) \/ OperationThrows(c)
  PROVE  Typed'
PROOF
  <1>0. /\ TypeOK /\ proj \in Projection /\ events \subseteq EventType /\ thread \in Checkpoint
        /\ rows \in [RowKey -> RowStatus] /\ shown \in Shown
        /\ old \subseteq {runRecord, graphRecord} \cup RowKey
        /\ budget \in [{"crashes", "stalls", "errors", "early", "haste", "all"} -> Nat]
        /\ inv[c] \in Invocation /\ inv[c].in \in Checkpoint
    BY RecordsTyped DEF Typed, TypeOK
  <1>1. ASSUME NEW pc \in Pc, Goto(c, pc), pc \in Hooked => inv[c].pc \in Hooked \/ AtNode(c, HookNode)
        PROVE  CallersMove
    BY <1>0, <1>1, GotoMoves
  <1>2. {"running", "failed", "absent", "plan-approval", "browser-permission", "execution-result"} = Shown
    BY DEF Shown
  <1>3. {"absent", "running", "failed", "completed", "completed-terminal"} = RowStatus
    BY DEF RowStatus, Completed
  <1>4. CASE Begin(c)
    <2> DEFINE from == IF inv[c].starts THEN [inv[c].in EXCEPT !.reached = thread.reached] ELSE thread
               record == [inv[c] EXCEPT !.pc = "node", !.in = from]
    <2>1. from \in Checkpoint
      BY <1>0 DEF Checkpoint
    <2>2. thread' = from /\ inv' = [inv EXCEPT ![c] = record]
      BY <1>0, <1>4 DEF Begin, TypeOK
    <2> HIDE DEF from
    <2>3. record \in Invocation /\ record.pc = "node"
      BY <1>0, <2>1 DEF Invocation
    <2>4. CallersMove
      BY <1>0, <2>2, <2>3, TurnMoves DEF Hooked
    <2> QED
      BY <1>0, <1>4, <2>1, <2>2, <2>4, PartsTyped DEF Begin, RunUntouched
  <1>5. CASE End(c)
    BY <1>0, <1>5, ReturnedMoves, PartsTyped DEF End, RunUntouched
  <1>6. CASE PassApproved(c)
    <2>1. inv[c].in.at + 1 \in Position
      BY <1>6 DEF PassApproved, AtNode, planApproval, capabilityApproval, Position, planNode, end
    <2>2. CallersMove /\ thread' \in Checkpoint
      BY <1>0, <1>6, <2>1, LeaveMoves DEF PassApproved, LeaveTo, Checkpoint
    <2> QED
      BY <1>0, <1>6, <2>2, PartsTyped DEF PassApproved, RunUntouched
  <1>7. ASSUME ShowInterrupt(c), Asking(c)
        PROVE  shown' \in Shown /\ old' \subseteq {runRecord, graphRecord} \cup RowKey
    BY <1>0, <1>7, InterruptTyped, RenewsTyped DEF ShowInterrupt, Save, Asking, AtNode
  <1>8. CASE Suspend(c)
    BY <1>0, <1>7, <1>8, ReturnedMoves, PartsTyped DEF Suspend, RunUntouched
  <1>9. CASE TakeAnswer(c)
    <2>1. inv[c].in.at + 1 \in Position
      BY <1>9 DEF TakeAnswer, Asking, AtNode, planApproval, capabilityApproval, executeNode, Position,
                  planNode, end
    <2>2. /\ (inv[c].in.plan \/ inv[c].in.at = planApproval) \in BOOLEAN
          /\ (inv[c].in.capabilities \/ inv[c].in.at = capabilityApproval) \in BOOLEAN
      BY <1>0 DEF Checkpoint
    <2>3. CallersMove /\ thread' \in Checkpoint
      BY <1>0, <1>9, <2>1, <2>2, LeaveMoves DEF TakeAnswer
    <2> QED
      BY <1>0, <1>7, <1>9, <2>3, PartsTyped DEF TakeAnswer, RunUntouched
  <1>10. CASE Reject(c)
    BY <1>0, <1>7, <1>10, ThrewMoves, PartsTyped DEF Reject, RunUntouched
  <1>11. CASE Claim(c)
    <2>1. RowOf(c) \in RowKey
      BY <1>11, HookedRow DEF Claim
    <2>2. rows' \in [RowKey -> RowStatus] /\ shown' \in Shown
      BY <1>0, <1>2, <1>3, <1>11 DEF Claim, Save
    <2>3. CallersMove
      <3>1. AtNode(c, HookNode)
        BY <1>11 DEF Claim
      <3>2. Goto(c, "operate") \/ Goto(c, "reclaim") \/ GoOn(c, rows[RowOf(c)])
        BY <1>11 DEF Claim
      <3> QED
        BY <1>0, <1>1, <3>1, <3>2, GoOnMoves DEF Pc
    <2>4. old' \subseteq {runRecord, graphRecord} \cup RowKey
      BY <1>0, <1>11, RenewsTyped DEF Claim
    <2> QED
      BY <1>0, <1>11, <2>2, <2>3, <2>4, PartsTyped DEF Claim, RunUntouched
  <1>12. CASE Reclaim(c)
    <2>1. rows' \in [RowKey -> RowStatus] /\ old' \subseteq {runRecord, graphRecord} \cup RowKey
      BY <1>0, <1>3, <1>12, RenewsTyped DEF Reclaim
    <2>2. CallersMove
      BY <1>1, <1>12 DEF Reclaim, Pc, Hooked
    <2> QED
      BY <1>0, <1>12, <2>1, <2>2, PartsTyped DEF Reclaim, RunUntouched
  <1>13. CASE Operate(c)
    <2>1. /\ proj' \in Projection /\ events' \subseteq EventType
          /\ old' \subseteq {runRecord, graphRecord} \cup RowKey
      <3>1. ASSUME NEW type \in PlanOutcome, proj.state = "planning", Append(type)
            PROVE  proj' \in Projection /\ events' \subseteq EventType
        BY <1>0, <3>1, AppendTyped, EventsFit
      <3>2. ASSUME proj.state = "collecting", Append("run_judging")
            PROVE  proj' \in Projection /\ events' \subseteq EventType
        BY <1>0, <3>2, AppendTyped, EventsFit
      <3> QED
        BY <1>0, <1>13, <3>1, <3>2, RenewsTyped DEF Operate, Effect, RunUntouched
    <2>2. CallersMove
      BY <1>1, <1>13 DEF Operate, Pc, Hooked
    <2> QED
      BY <1>0, <1>13, <2>1, <2>2, PartsTyped DEF Operate
  <1>14. CASE OperationThrows(c)
    <2>1. rows' \in [RowKey -> RowStatus]
      BY <1>0, <1>3, <1>14 DEF OperationThrows
    <2>2. CallersMove
      BY <1>1, <1>14 DEF OperationThrows, Pc, Hooked
    <2> QED
      BY <1>0, <1>14, <2>1, <2>2, SpendTyped, PartsTyped DEF OperationThrows, RunUntouched
  <1>15. CASE Settle(c)
    <2>1. PICK outcome \in Completed : rows' = [rows EXCEPT ![RowOf(c)] = outcome] /\ GoOn(c, outcome)
      BY <1>15 DEF Settle, Completed
    <2>2. rows' \in [RowKey -> RowStatus]
      BY <1>0, <2>1 DEF RowStatus
    <2>3. CallersMove
      BY <1>0, <1>15, <2>1, GoOnMoves DEF Settle, Hooked
    <2> QED
      BY <1>0, <1>15, <2>2, <2>3, PartsTyped DEF Settle, RunUntouched
  <1>16. CASE LeaveHook(c)
    <2>1. inv[c].in.at + 1 \in Position /\ end \in Position
      BY <1>16, HookedRow
      DEF LeaveHook, Hooked, HookNode, planNode, prepareNode, gateNode, Position, end
    <2>2. CallersMove /\ thread' \in Checkpoint
      BY <1>0, <1>16, <2>1, LeaveMoves DEF LeaveHook, LeaveTo, Checkpoint
    <2>3. shown' \in Shown /\ old' \subseteq {runRecord, graphRecord} \cup RowKey
      BY <1>0, <1>2, <1>16, RenewsTyped DEF LeaveHook, Save
    <2> QED
      BY <1>0, <1>16, <2>2, <2>3, PartsTyped DEF LeaveHook, RunUntouched
  <1>17. CASE HookFails(c)
    <2>1. shown' \in Shown /\ old' \subseteq {runRecord, graphRecord} \cup RowKey
      BY <1>0, <1>2, <1>17, RenewsTyped DEF HookFails, Save
    <2> QED
      BY <1>0, <1>17, <2>1, ThrewMoves, PartsTyped DEF HookFails, RunUntouched
  <1>18. CASE RecordBackgroundGraphFailure(c)
    <2>1. shown' \in Shown /\ old' \subseteq {runRecord, graphRecord} \cup RowKey
      BY <1>0, <1>2, <1>18, RenewsTyped DEF RecordBackgroundGraphFailure, Save
    <2>2. proj' \in Projection /\ events' \subseteq EventType
      <3>1. CASE proj.state \in BlockableState
        BY <1>0, <1>18, <3>1, AppendTyped, EventsFit DEF RecordBackgroundGraphFailure
      <3>2. CASE proj.state \notin BlockableState
        BY <1>0, <1>18, <3>2 DEF RecordBackgroundGraphFailure, RunUntouched
      <3> QED
        BY <3>1, <3>2
    <2>3. CallersMove
      BY <1>0, <1>18, IdleMoves DEF RecordBackgroundGraphFailure
    <2> QED
      BY <1>0, <1>18, <2>1, <2>2, <2>3, PartsTyped DEF RecordBackgroundGraphFailure
  <1> QED
    BY <1>4, <1>5, <1>6, <1>8, <1>9, <1>10, <1>11, <1>12, <1>13, <1>14, <1>15, <1>16, <1>17, <1>18
    DEF InvocationStep

LEMMA OthersTyped ==
  ASSUME Typed,
         \/ \E p \in Api : Approve(p) \/ Grant(p)
         \/ Decide \/ RecoverStep \/ Bootstrap \/ WorkerStep \/ Age
         \/ \E p \in Process : Crash(p)
  PROVE  Typed'
PROOF
  <1>0. /\ TypeOK /\ proj \in Projection /\ events \subseteq EventType /\ thread \in Checkpoint
        /\ rows \in [RowKey -> RowStatus] /\ shown \in Shown
        /\ old \subseteq {runRecord, graphRecord} \cup RowKey
        /\ budget \in [{"crashes", "stalls", "errors", "early", "haste", "all"} -> Nat]
        /\ \A c \in Caller : inv[c] \in Invocation
        /\ Api \subseteq Process
        /\ {"approve", "grant", "recover", "worker", "post"} = Caller
    BY RecordsTyped DEF Typed, TypeOK, Caller
  <1>1. CASE \E p \in Api : Approve(p)
    <2>1. PICK p \in Api : Approve(p)
      BY <1>1
    <2>2. CallersMove
      <3>1. CASE inv' = [inv EXCEPT !["approve"] = [Idle EXCEPT !.pc = "decide", !.home = p]]
        BY <1>0, <3>1, WaitMoves
      <3>2. CASE inv' = [inv EXCEPT !["approve"] = [Idle EXCEPT !.pc = "join", !.home = p]]
        BY <1>0, <3>2, WaitMoves
      <3>3. CASE StartBy("approve", p)
        BY <1>0, <3>3, StartMoves
      <3> QED
        BY <2>1, <3>1, <3>2, <3>3 DEF Approve
    <2>3. budget' \in [{"crashes", "stalls", "errors", "early", "haste", "all"} -> Nat]
      BY <1>0, <2>1, SpendTyped DEF Approve, InTime
    <2> QED
      BY <1>0, <2>1, <2>2, <2>3, PartsTyped DEF Approve, RunUntouched
  <1>2. CASE \E p \in Api : Grant(p)
    <2>1. PICK p \in Api : Grant(p)
      BY <1>2
    <2>2. CallersMove
      BY <1>0, <2>1, ResumeMoves DEF Grant
    <2>3. budget' \in [{"crashes", "stalls", "errors", "early", "haste", "all"} -> Nat]
      BY <1>0, <2>1, SpendTyped DEF Grant, InTime
    <2>4. proj' \in Projection /\ events' \subseteq EventType
      BY <1>0, <2>1, AppendTyped, EventsFit DEF Grant
    <2>5. old' \subseteq {runRecord, graphRecord} \cup RowKey
      BY <1>0, <2>1, RenewsTyped DEF Grant
    <2> QED
      BY <1>0, <2>1, <2>2, <2>3, <2>4, <2>5, PartsTyped DEF Grant
  <1>3. CASE Decide
    <2>1. CallersMove
      <3>1. inv["approve"].home \in Process \cup {None}
        BY <1>0 DEF Invocation
      <3> QED
        BY <1>0, <1>3, <3>1, ResumeMoves, IdleMoves DEF Decide
    <2>2. proj' \in Projection /\ events' \subseteq EventType
      BY <1>0, <1>3, AppendTyped, EventsFit DEF Decide, RunUntouched
    <2>3. old' \subseteq {runRecord, graphRecord} \cup RowKey
      BY <1>0, <1>3, RenewsTyped DEF Decide
    <2> QED
      BY <1>0, <1>3, <2>1, <2>2, <2>3, PartsTyped DEF Decide
  <1>4. CASE \E p \in Process : ClaimStalledApproval(p)
    <2>1. PICK p \in Process : ClaimStalledApproval(p)
      BY <1>4
    <2>2. CallersMove
      BY <1>0, <2>1, WaitMoves DEF ClaimStalledApproval
    <2>3. old' \subseteq {runRecord, graphRecord} \cup RowKey
      BY <1>0, <2>1, RenewsTyped DEF ClaimStalledApproval
    <2> QED
      BY <1>0, <2>1, <2>2, <2>3, PartsTyped DEF ClaimStalledApproval, RunUntouched
  <1>5. CASE CheckStalledApproval
    <2>1. CallersMove
      <3>1. inv["recover"].home \in Process \cup {None}
        BY <1>0 DEF Invocation
      <3> QED
        BY <1>0, <1>5, <3>1, ResumeMoves, IdleMoves DEF CheckStalledApproval
    <2> QED
      BY <1>0, <1>5, <2>1, PartsTyped DEF CheckStalledApproval, RunUntouched
  <1>6. CASE Bootstrap
    <2>1. CallersMove
      BY <1>0, <1>6, StartMoves DEF Bootstrap, Process
    <2>2. budget' \in [{"crashes", "stalls", "errors", "early", "haste", "all"} -> Nat]
      BY <1>0, <1>6, SpendTyped DEF Bootstrap
    <2> QED
      BY <1>0, <1>6, <2>1, <2>2, PartsTyped DEF Bootstrap, RunUntouched
  <1>7. CASE WorkerStep
    <2>1. PICK type \in WorkerEvent :
            /\ CanTransition(proj.state, type)
            /\ Append(type) /\ Renews({runRecord})
            /\ IF type = "evidence_collecting"
                 THEN /\ ResumeBy("worker", Background, "result")
                      /\ IF \A c \in {"post", "grant"} : inv[c].pc = "idle"
                           THEN UNCHANGED budget ELSE Spend("stalls")
                 ELSE UNCHANGED <<inv, budget>>
      BY <1>7 DEF WorkerStep
    <2>2. CallersMove
      <3>1. CASE UNCHANGED inv
        BY <1>0, <3>1 DEF CallersMove, TypeOK
      <3>2. CASE ResumeBy("worker", Background, "result")
        BY <1>0, <3>2, ResumeMoves DEF Process
      <3> QED
        BY <2>1, <3>1, <3>2
    <2>3. budget' \in [{"crashes", "stalls", "errors", "early", "haste", "all"} -> Nat]
      BY <1>0, <2>1, SpendTyped
    <2>4. proj' \in Projection /\ events' \subseteq EventType
      BY <1>0, <2>1, AppendTyped, EventsFit DEF CanTransition
    <2>5. old' \subseteq {runRecord, graphRecord} \cup RowKey
      BY <1>0, <2>1, RenewsTyped
    <2> QED
      BY <1>0, <1>7, <2>2, <2>3, <2>4, <2>5, PartsTyped DEF WorkerStep
  <1>8. CASE Age
    <2>1. CallersMove
      BY <1>0, <1>8 DEF Age, CallersMove, TypeOK
    <2>2. old' \subseteq {runRecord, graphRecord} \cup RowKey
      BY <1>0, <1>8 DEF Age, Ages
    <2>3. budget' \in [{"crashes", "stalls", "errors", "early", "haste", "all"} -> Nat]
      BY <1>0, <1>8, SpendTyped DEF Age
    <2> QED
      BY <1>0, <1>8, <2>1, <2>2, <2>3, PartsTyped DEF Age, RunUntouched
  <1>9. CASE \E p \in Process : Crash(p)
    <2>1. PICK p \in Process : Crash(p)
      BY <1>9
    <2> DEFINE f == [c \in Caller |-> IF inv[c].home = p THEN Idle ELSE inv[c]]
    <2>2. inv' = [c \in Caller |-> f[c]]
      BY <2>1 DEF Crash
    <2>3. \A c \in Caller : f[c] = inv[c] \/ (f[c] \in Invocation /\ f[c].pc \notin Hooked)
      BY <1>0, RecordsTyped DEF Idle, Hooked
    <2> HIDE DEF f
    <2>4. CallersMove
      BY <1>0, <2>2, <2>3, EachTurns
    <2>5. budget' \in [{"crashes", "stalls", "errors", "early", "haste", "all"} -> Nat]
      BY <1>0, <2>1, SpendTyped DEF Crash
    <2> QED
      BY <1>0, <2>1, <2>4, <2>5, PartsTyped DEF Crash, RunUntouched
  <1> QED
    BY <1>1, <1>2, <1>3, <1>4, <1>5, <1>6, <1>7, <1>8, <1>9 DEF RecoverStep

LEMMA TypedKept ==
  ASSUME Typed, [Next]_vars
  PROVE  Typed'
PROOF
  <1>1. CASE UNCHANGED vars
    BY <1>1 DEF vars, Typed, TypeOK, AtHooks
  <1> QED
    BY <1>1, InvocationTyped, OthersTyped DEF Next

(***************************************************************************)
(* The theorems.                                                           *)
(***************************************************************************)
\* What POST /v1/runs may have answered with is a run, and where it stands.
LEMMA AnswersStand ==
  \A answer \in AnsweredWith :
    /\ answer[1] \in Projection /\ answer[2] \subseteq EventType
    /\ \/ answer[1].state = "planning" /\ "permission_granted" \notin answer[2]
       \/ answer[1].state = "queued" /\ {"plan_generated", "permission_granted"} \subseteq answer[2]
       \/ /\ answer[1].state \in {"awaiting-human-review", "blocked"}
          /\ "permission_granted" \notin answer[2]
PROOF
  <1>1. CreatedRun \in Projection /\ CreatedRun.state = "planning"
    BY DEF CreatedRun, DraftRun, Projection, RunState, RunKind, ExecutionStatus
  <1>2. {"plan_generated", "plan_approved", "permission_granted", "human_review_requested",
         "run_blocked"} \subseteq EventType \ {"run_resumed"}
    BY DEF EventType
  <1>3. /\ <<"planning", "plan_generated", "awaiting-plan-approval">> \in transitions
        /\ \A to : <<"planning", "plan_generated", to>> \in transitions => to = "awaiting-plan-approval"
        /\ <<"awaiting-plan-approval", "plan_approved", "awaiting-permission">> \in transitions
        /\ \A to : <<"awaiting-plan-approval", "plan_approved", to>> \in transitions
             => to = "awaiting-permission"
        /\ <<"awaiting-permission", "permission_granted", "queued">> \in transitions
        /\ \A to : <<"awaiting-permission", "permission_granted", to>> \in transitions => to = "queued"
        /\ <<"planning", "human_review_requested", "awaiting-human-review">> \in transitions
        /\ \A to : <<"planning", "human_review_requested", to>> \in transitions
             => to = "awaiting-human-review"
        /\ <<"planning", "run_blocked", "blocked">> \in transitions
        /\ \A to : <<"planning", "run_blocked", to>> \in transitions => to = "blocked"
    BY DEF transitions, openTransitions, closedTransitions
  <1>4. \A type \in {"human_review_requested", "run_blocked"} :
          /\ After(CreatedRun, type) \in Projection
          /\ After(CreatedRun, type).state \in {"awaiting-human-review", "blocked"}
    BY <1>1, <1>2, <1>3, AfterTyped
  <1>5. GrantedRun \in Projection /\ GrantedRun.state = "queued"
    <2> DEFINE planned == After(CreatedRun, "plan_generated")
               approved == After(planned, "plan_approved")
    <2>1. planned \in Projection /\ planned.state = "awaiting-plan-approval"
      BY <1>1, <1>2, <1>3, AfterTyped
    <2> HIDE DEF planned
    <2>2. approved \in Projection /\ approved.state = "awaiting-permission"
      BY <1>2, <1>3, <2>1, AfterTyped
    <2>3. GrantedRun = After(approved, "permission_granted")
      BY DEF GrantedRun, planned
    <2> HIDE DEF approved
    <2> QED
      BY <1>2, <1>3, <2>2, <2>3, AfterTyped
  <1>6. \A answer \in AnsweredWith :
          \/ answer = <<CreatedRun, {}>>
          \/ answer = <<GrantedRun, {"plan_generated", "plan_approved", "permission_granted"}>>
          \/ \E type \in {"human_review_requested", "run_blocked"} :
               answer = <<After(CreatedRun, type), {type}>>
    BY DEF AnsweredWith
  <1> QED
    BY <1>1, <1>2, <1>4, <1>5, <1>6

LEMMA InitTyped == Init => Typed
PROOF
  <1> SUFFICES ASSUME Init PROVE Typed
    OBVIOUS
  <1>1. proj \in Projection /\ events \subseteq EventType
    BY AnswersStand DEF Init, EventType
  <1>2. Fresh \in Checkpoint /\ Idle \in Invocation
    BY DEF Fresh, Checkpoint, Position, planNode, end, Idle, Invocation
  <1>3. StartInput(proj.state) \in Checkpoint
    BY <1>2 DEF StartInput, Checkpoint
  <1>4. Origin \in Process
    BY GraphConstants DEF Process
  <1> DEFINE first == [Idle EXCEPT !.pc = "begin", !.home = Origin, !.starts = TRUE,
                                   !.in = StartInput(proj.state)]
  <1>5. first \in Invocation /\ first.pc = "begin" /\ Idle.pc = "idle"
    BY <1>2, <1>3, <1>4 DEF Invocation, Idle
  <1>6. inv = [c \in Caller |-> IF c = "post" THEN first ELSE Idle]
    BY DEF Init
  <1> HIDE DEF first
  <1>7. inv \in [Caller -> Invocation] /\ AtHooks
    BY <1>2, <1>5, <1>6 DEF AtHooks, Hooked
  <1>8. budget \in [{"crashes", "stalls", "errors", "early", "haste", "all"} -> Nat]
    BY GraphConstants DEF Init, FullBudget
  <1> QED
    BY <1>1, <1>2, <1>7, <1>8 DEF Typed, TypeOK, Init, RowStatus, Shown

\* Every variable has its type.
THEOREM TypeCorrect == Spec => []TypeOK
PROOF
  <1>1. Spec => []Typed
    BY InitTyped, TypedKept, PTL DEF Spec
  <1>2. Typed => TypeOK
    BY DEF Typed
  <1> QED
    BY <1>1, <1>2, PTL

(***************************************************************************)
(* Refinement.                                                             *)
(***************************************************************************)
\* What the graph, the routes and the worker append.
GraphEvent ==
  PlanOutcome \cup WorkerEvent
    \cup {"run_blocked", "run_judging", "plan_approved", "permission_granted"}

\* A step leaves the run alone or appends one event its table allows.
LEMMA RunMoves ==
  ASSUME [Next]_vars
  PROVE  \/ RunUntouched
         \/ \E type \in GraphEvent : CanTransition(proj.state, type) /\ Append(type)
PROOF
  <1>0. /\ \A type, to : <<proj.state, type, to>> \in transitions => CanTransition(proj.state, type)
        /\ {"run_blocked", "run_judging", "plan_approved", "permission_granted"} \subseteq GraphEvent
        /\ PlanOutcome \subseteq GraphEvent /\ WorkerEvent \subseteq GraphEvent
    <2>1. \A type, to : <<proj.state, type, to>> \in transitions => to \in RunState
      BY DEF transitions, openTransitions, closedTransitions, RunState
    <2> QED
      BY <2>1 DEF CanTransition, GraphEvent
  <1>1. ASSUME NEW c \in Caller, Operate(c)
        PROVE  RunUntouched \/ \E type \in GraphEvent : CanTransition(proj.state, type) /\ Append(type)
    BY <1>0, <1>1, EventsFit DEF Operate, Effect
  <1>2. ASSUME NEW c \in Caller, RecordBackgroundGraphFailure(c)
        PROVE  RunUntouched \/ \E type \in GraphEvent : CanTransition(proj.state, type) /\ Append(type)
    BY <1>0, <1>2, EventsFit DEF RecordBackgroundGraphFailure
  <1>3. ASSUME NEW c \in Caller, InvocationStep(c) \/ OperationThrows(c)
        PROVE  RunUntouched \/ Operate(c) \/ RecordBackgroundGraphFailure(c)
    BY <1>3 DEF InvocationStep, OperationThrows, Begin, End, PassApproved, Suspend, TakeAnswer,
                Reject, Claim, Reclaim, Settle, LeaveHook, HookFails
  <1>4. CASE \E p \in Api : Approve(p) \/ Grant(p)
    BY <1>0, <1>4, EventsFit DEF Approve, Grant
  <1>5. CASE Decide
    BY <1>0, <1>5, EventsFit DEF Decide
  <1>6. CASE WorkerStep
    BY <1>0, <1>6 DEF WorkerStep
  <1>7. CASE RecoverStep \/ Bootstrap \/ Age \/ \E p \in Process : Crash(p)
    BY <1>7 DEF RecoverStep, ClaimStalledApproval, CheckStalledApproval, Bootstrap, Age, Crash
  <1>8. CASE UNCHANGED vars
    BY <1>8 DEF vars, RunUntouched
  <1> QED
    BY <1>1, <1>2, <1>3, <1>4, <1>5, <1>6, <1>7, <1>8 DEF Next

Abstract == INSTANCE AbstractRun WITH run <- proj

LEMMA AppendIsAbstract ==
  ASSUME TypeOK, NEW type \in GraphEvent, CanTransition(proj.state, type), Append(type)
  PROVE  Abstract!Next
PROOF
  <1> DEFINE p == proj
             to == transitionRunState(p.state, type)
             q == applyEvent(p, type, NoPayload)
  <1>1. p \in Projection /\ proj' = q
    BY DEF TypeOK, Append, After
  <1>2. type \in EventType /\ NoPayload \in Payload
    BY EventsFit DEF GraphEvent, NoPayload, Payload
  <1>3. /\ <<p.state, type, to>> \in transitions
        /\ q.version = p.version + 1
        /\ type # "run_resumed" => q.state = to
        /\ type \notin {"run_started", "run_retrying"} =>
             q.attempt = p.attempt /\ q.generation = p.generation
        /\ q.gateStatus = NextGateStatus(p, type, NoPayload)
    BY <1>1, <1>2, ApplyMoves
  <1> HIDE DEF p, q, to
  <1> USE DEF p, Abstract!Next, Abstract!Move, Abstract!KeepOwner, Abstract!KeepGate,
              transitions, openTransitions, closedTransitions, NextGateStatus
  <1>4. CASE type \in {"plan_generated", "plan_approved", "permission_granted", "run_preparing"}
    <2>1. Abstract!Prepare
      BY <1>1, <1>3, <1>4 DEF Abstract!Prepare
    <2> QED
      BY <2>1
  <1>5. CASE type = "run_started"
    <2>1. Abstract!Start
      BY <1>1, <1>3, <1>5 DEF Abstract!Start
    <2> QED
      BY <2>1
  <1>6. CASE type \in {"evidence_collecting", "run_judging"}
    <2>1. Abstract!Judge
      BY <1>1, <1>3, <1>6 DEF Abstract!Judge
    <2> QED
      BY <2>1
  <1>7. CASE type = "human_review_requested"
    <2>1. Abstract!Review
      BY <1>1, <1>3, <1>7 DEF Abstract!Review
    <2> QED
      BY <2>1
  <1>8. CASE type = "run_blocked"
    <2>1. Abstract!Conclude
      BY <1>1, <1>3, <1>8 DEF Abstract!Conclude, Abstract!RunState, Abstract!TerminalState
    <2> QED
      BY <2>1
  <1> QED
    BY <1>4, <1>5, <1>6, <1>7, <1>8 DEF GraphEvent, PlanOutcome, WorkerEvent

\* The run that several invocations of one graph, the routes and the worker append to
\* takes only steps of the abstract run, whatever crashes, stalls or comes early.
THEOREM GraphImplementsAbstractRun == Spec => [][Abstract!Next]_proj
PROOF
  <1>1. TypeOK /\ [Next]_vars => [Abstract!Next]_proj
    BY RunMoves, AppendIsAbstract DEF RunUntouched
  <1> QED
    BY <1>1, TypeCorrect, PTL DEF Spec

LEMMA GotoEffect ==
  ASSUME TypeOK, NEW c \in Caller, NEW pc, Goto(c, pc)
  PROVE  /\ \A d \in Caller \ {c} : inv'[d] = inv[d]
         /\ inv'[c].pc = pc /\ inv'[c].in = inv[c].in
         /\ inv'[c].answer = inv[c].answer /\ inv'[c].starts = inv[c].starts
         /\ RowOf(c)' = RowOf(c)
PROOF
  <1>1. inv \in [Caller -> Invocation] /\ inv[c] \in Invocation
    BY DEF TypeOK
  <1>2. inv' = [inv EXCEPT ![c] = [inv[c] EXCEPT !.pc = pc]]
    BY <1>1 DEF Goto
  <1> QED
    BY <1>1, <1>2 DEF Invocation, RowOf

LEMMA GoOnEffect ==
  ASSUME TypeOK, NEW c \in Caller, NEW outcome, GoOn(c, outcome)
  PROVE  /\ \A d \in Caller \ {c} : inv'[d] = inv[d]
         /\ inv'[c].pc = "leave" /\ inv'[c].in = inv[c].in
         /\ inv'[c].answer = inv[c].answer /\ inv'[c].starts = inv[c].starts
         /\ inv'[c].ended = (outcome = "completed-terminal")
PROOF
  <1>1. inv \in [Caller -> Invocation] /\ inv[c] \in Invocation
    BY DEF TypeOK
  <1>2. inv' = [inv EXCEPT ![c] = [inv[c] EXCEPT !.pc = "leave", !.ended = outcome = "completed-terminal"]]
    BY <1>1 DEF GoOn
  <1> QED
    BY <1>1, <1>2 DEF Invocation

LEMMA LeaveEffect ==
  ASSUME TypeOK, NEW c \in Caller, NEW to, NEW plan, NEW capabilities,
         Leave(c, to, plan, capabilities)
  PROVE  /\ \A d \in Caller \ {c} : inv'[d] = inv[d]
         /\ thread'.at = to /\ thread'.capabilities = capabilities
         /\ inv'[c].pc = "node" /\ inv'[c].in = thread'
         /\ inv'[c].answer = "none" /\ inv'[c].starts = inv[c].starts
PROOF
  <1> DEFINE in == inv[c].in
             next == [at |-> to, plan |-> plan, capabilities |-> capabilities,
                      reached |-> IF to > in.reached THEN to ELSE in.reached]
  <1>1. inv \in [Caller -> Invocation] /\ inv[c] \in Invocation
    BY DEF TypeOK
  <1>2. /\ thread' = next
        /\ inv' = [inv EXCEPT ![c] = [inv[c] EXCEPT !.pc = "node", !.in = next, !.answer = "none",
                                                    !.ended = FALSE]]
    BY <1>1 DEF Leave
  <1>3. next.at = to /\ next.capabilities = capabilities
    OBVIOUS
  <1> HIDE DEF next
  <1> QED
    BY <1>1, <1>2, <1>3 DEF Invocation

\* A caller at the start of a turn.
LEMMA ResumeEffect ==
  ASSUME TypeOK, NEW c \in Caller, NEW home, NEW answer, ResumeBy(c, home, answer)
  PROVE  /\ \A d \in Caller \ {c} : inv'[d] = inv[d]
         /\ inv'[c].pc = "begin" /\ inv'[c].in = Fresh
         /\ inv'[c].answer = answer /\ ~inv'[c].starts
PROOF
  <1>1. inv \in [Caller -> Invocation]
    BY DEF TypeOK
  <1> QED
    BY <1>1 DEF ResumeBy, Idle

LEMMA WaitEffect ==
  ASSUME TypeOK, NEW c \in Caller, NEW home, NEW pc,
         inv' = [inv EXCEPT ![c] = [Idle EXCEPT !.pc = pc, !.home = home]]
  PROVE  /\ \A d \in Caller \ {c} : inv'[d] = inv[d]
         /\ inv'[c].pc = pc /\ inv'[c].in = Fresh
         /\ inv'[c].answer = "none" /\ ~inv'[c].starts
PROOF
  <1>1. inv \in [Caller -> Invocation]
    BY DEF TypeOK
  <1> QED
    BY <1>1 DEF Idle

(***************************************************************************)
(* The plan.  As long as the run has none, its planning goes on or has     *)
(* ended for good, no node's row and no caller says that planning is done, *)
(* and so neither the thread nor a caller gets to the plan's approval.     *)
(***************************************************************************)
Planned == "plan_generated" \in events

BeforePlan == {planNode, end}

\* A caller without a plan.
PlanlessCaller(c) ==
  /\ inv[c].in.at \in BeforePlan
  /\ inv[c].pc = "settle" => proj.state # "planning"
  /\ inv[c].pc = "leave" => inv[c].ended

Planless ==
  /\ proj.state \in {"planning"} \cup PlanningTerminalState
  /\ thread.at \in BeforePlan
  /\ \A r \in Position : rows[<<planNode, r>>] # "completed"
  /\ \A c \in Caller : PlanlessCaller(c)

PlanInv == Planned \/ Planless

\* Without a plan the run stays where it is, or its planning ends for good.
LEMMA PlanlessRun ==
  ASSUME TypeOK, Planless, ~Planned', [Next]_vars
  PROVE  proj' = proj \/ proj'.state \in PlanningTerminalState
PROOF
  <1>1. CASE RunUntouched
    BY <1>1 DEF RunUntouched
  <1>2. CASE \E type \in GraphEvent : CanTransition(proj.state, type) /\ Append(type)
    <2>1. PICK type \in GraphEvent : CanTransition(proj.state, type) /\ Append(type)
      BY <1>2
    <2>2. PICK to \in RunState : <<proj.state, type, to>> \in transitions
      BY <2>1 DEF CanTransition
    <2>3. type # "plan_generated"
      BY <2>1 DEF Append, Planned
    <2>4. \A q : <<proj.state, type, q>> \in transitions => q \in PlanningTerminalState
      BY <2>1, <2>3
      DEF Planless, PlanningTerminalState, GraphEvent, PlanOutcome, WorkerEvent, transitions,
          openTransitions, closedTransitions
    <2>5. type \in EventType \ {"run_resumed"} /\ proj \in Projection
      BY EventsFit DEF GraphEvent, TypeOK
    <2>6. <<proj.state, type, proj'.state>> \in transitions
      BY <2>1, <2>2, <2>5, AfterTyped DEF Append
    <2> QED
      BY <2>4, <2>6
  <1> QED
    BY <1>1, <1>2, RunMoves

\* Plan rows that a step leaves alone, or does not complete.
LEMMA PlanRows ==
  ASSUME TypeOK, Planless, NEW row \in RowKey, NEW status \in RowStatus,
         UNCHANGED rows \/ rows' = [rows EXCEPT ![row] = status],
         status = "completed" => row[1] # planNode
  PROVE  \A r \in Position : rows'[<<planNode, r>>] # "completed"
PROOF
  <1>1. rows \in [RowKey -> RowStatus]
    BY DEF TypeOK
  <1>2. \A r \in Position : <<planNode, r>> \in RowKey
    BY DEF RowKey, HookNode
  <1> QED
    BY <1>1, <1>2 DEF Planless

\* Where the run, the thread, the rows and whoever moves are without a plan, all is.
LEMMA PlanlessKept ==
  ASSUME TypeOK, Planless, ~Planned', [Next]_vars,
         thread'.at \in BeforePlan,
         \A r \in Position : rows'[<<planNode, r>>] # "completed",
         \A c \in Caller : inv'[c] = inv[c] \/ PlanlessCaller(c)'
  PROVE  Planless'
PROOF
  <1>1. proj' = proj \/ proj'.state \in PlanningTerminalState
    BY PlanlessRun
  <1>2. "planning" \notin PlanningTerminalState
    BY DEF PlanningTerminalState
  <1>3. \A c \in Caller : PlanlessCaller(c)'
    BY <1>1, <1>2 DEF Planless, PlanlessCaller
  <1> QED
    BY <1>1, <1>3 DEF Planless

\* A caller that begins, waits or is done works on nothing yet.
LEMMA FreshIsPlanless ==
  /\ Fresh.at \in BeforePlan /\ Idle.in = Fresh /\ Idle.pc = "idle"
  /\ \A state : StartInput(state).at \in BeforePlan
  BY DEF Fresh, Idle, StartInput, BeforePlan

LEMMA InvocationPlanless ==
  ASSUME Typed, Planless, ~Planned', NEW c \in Caller, InvocationStep(c) \/ OperationThrows(c)
  PROVE  Planless'
PROOF
  <1>0. /\ TypeOK /\ [Next]_vars /\ thread.at \in BeforePlan
        /\ inv \in [Caller -> Invocation] /\ inv[c] \in Invocation /\ inv[c].in \in Checkpoint
        /\ PlanlessCaller(c) /\ inv[c].in.at \in BeforePlan
        /\ \A r \in Position : rows[<<planNode, r>>] # "completed"
    BY RecordsTyped DEF Typed, TypeOK, Next, Planless, PlanlessCaller
  <1>1. ASSUME Returned(c) \/ Threw(c)
        PROVE  \A d \in Caller : inv'[d] = inv[d] \/ PlanlessCaller(d)'
    <2> SUFFICES ASSUME NEW d \in Caller, inv'[d] # inv[d] PROVE PlanlessCaller(d)'
      OBVIOUS
    <2>1. CASE Returned(c)
      <3>1. inv'[d] = [inv[d] EXCEPT !.pc = "decide", !.in = Fresh] \/ inv'[d] = Idle
        BY <2>1 DEF Returned
      <3>2. inv[d] \in Invocation
        BY <1>0
      <3>3. inv'[d].in = Fresh /\ inv'[d].pc \in {"idle", "decide"}
        BY <3>1, <3>2, FreshIsPlanless DEF Invocation
      <3> QED
        BY <3>3, FreshIsPlanless DEF PlanlessCaller
    <2>2. CASE Threw(c)
      <3> DEFINE blocks == [Idle EXCEPT !.pc = "block", !.home = inv[c].home]
      <3>1. inv'[d] = blocks \/ inv'[d] = Idle
        BY <2>2 DEF Threw
      <3>2. blocks.in = Fresh /\ blocks.pc = "block"
        BY DEF Idle
      <3> HIDE DEF blocks
      <3>3. inv'[d].in = Fresh /\ inv'[d].pc \in {"idle", "block"}
        BY <3>1, <3>2, FreshIsPlanless
      <3> QED
        BY <3>3, FreshIsPlanless DEF PlanlessCaller
    <2> QED
      BY <1>1, <2>1, <2>2
  <1>2. ASSUME NEW pc, Goto(c, pc), pc \notin {"settle", "leave"}
        PROVE  \A d \in Caller : inv'[d] = inv[d] \/ PlanlessCaller(d)'
    BY <1>0, <1>2, GotoEffect DEF PlanlessCaller
  <1>3. ASSUME NEW to, NEW plan, NEW capabilities, Leave(c, to, plan, capabilities), to \in BeforePlan
        PROVE  /\ thread'.at \in BeforePlan
               /\ \A d \in Caller : inv'[d] = inv[d] \/ PlanlessCaller(d)'
    BY <1>0, <1>3, LeaveEffect DEF PlanlessCaller
  <1>4. inv[c].pc \in Hooked \/ AtNode(c, HookNode) =>
          inv[c].in.at = planNode /\ RowOf(c) \in RowKey /\ RowOf(c)[1] = planNode
    BY <1>0, HookedRow DEF Typed, BeforePlan, HookNode, planNode, prepareNode, gateNode, end, RowOf
  <1>5. ~AtNode(c, {planApproval, capabilityApproval, executeNode})
    BY <1>0 DEF AtNode, BeforePlan, planNode, planApproval, capabilityApproval, executeNode, end
  <1>6. CASE Begin(c)
    <2> DEFINE from == IF inv[c].starts THEN [inv[c].in EXCEPT !.reached = thread.reached] ELSE thread
    <2>1. thread' = from /\ inv' = [inv EXCEPT ![c] = [inv[c] EXCEPT !.pc = "node", !.in = from]]
      BY <1>0, <1>6 DEF Begin
    <2>2. from.at \in BeforePlan
      BY <1>0 DEF Checkpoint
    <2> HIDE DEF from
    <2>3. inv'[c].pc = "node" /\ inv'[c].in = from /\ \A d \in Caller \ {c} : inv'[d] = inv[d]
      BY <1>0, <2>1 DEF Invocation
    <2> QED
      BY <1>0, <1>6, <2>1, <2>2, <2>3, PlanlessKept DEF Begin, PlanlessCaller
  <1>7. CASE End(c)
    BY <1>0, <1>1, <1>7, PlanlessKept DEF End
  <1>8. CASE PassApproved(c) \/ Suspend(c) \/ TakeAnswer(c) \/ Reject(c)
    BY <1>5, <1>8 DEF PassApproved, Suspend, TakeAnswer, Reject, Asking, AtNode
  <1>9. CASE Claim(c)
    <2>1. UNCHANGED rows \/ rows' = [rows EXCEPT ![RowOf(c)] = "running"]
      BY <1>9 DEF Claim
    <2>2. \A r \in Position : rows'[<<planNode, r>>] # "completed"
      BY <1>0, <1>4, <1>9, <2>1, PlanRows DEF Claim, RowStatus
    <2>3. \/ Goto(c, "operate") \/ Goto(c, "reclaim")
          \/ GoOn(c, rows[RowOf(c)]) /\ rows[RowOf(c)] \in Completed
      BY <1>9 DEF Claim
    <2>4. ASSUME GoOn(c, rows[RowOf(c)]), rows[RowOf(c)] \in Completed
          PROVE  \A d \in Caller : inv'[d] = inv[d] \/ PlanlessCaller(d)'
      <3>1. RowOf(c) = <<planNode, inv[c].in.reached>> /\ inv[c].in.reached \in Position
        BY <1>0, <1>4, <1>9 DEF RowOf, Checkpoint, Claim
      <3>2. rows[RowOf(c)] = "completed-terminal"
        BY <1>0, <2>4, <3>1 DEF Completed
      <3> QED
        BY <1>0, <2>4, <3>2, GoOnEffect DEF PlanlessCaller
    <2>5. \A d \in Caller : inv'[d] = inv[d] \/ PlanlessCaller(d)'
      BY <1>2, <2>3, <2>4
    <2> QED
      BY <1>0, <1>9, <2>2, <2>5, PlanlessKept DEF Claim
  <1>10. CASE Reclaim(c) \/ OperationThrows(c)
    <2>1. \/ UNCHANGED rows
          \/ \E status \in {"running", "failed"} : rows' = [rows EXCEPT ![RowOf(c)] = status]
      BY <1>10 DEF Reclaim, OperationThrows
    <2>2. \A r \in Position : rows'[<<planNode, r>>] # "completed"
      BY <1>0, <1>4, <1>10, <2>1, PlanRows DEF Reclaim, OperationThrows, RowStatus, Hooked
    <2>3. Goto(c, "operate") \/ Goto(c, "inProgress")
      BY <1>10 DEF Reclaim, OperationThrows
    <2>4. \A d \in Caller : inv'[d] = inv[d] \/ PlanlessCaller(d)'
      BY <1>2, <2>3
    <2> QED
      BY <1>0, <1>10, <2>2, <2>4, PlanlessKept DEF Reclaim, OperationThrows
  <1>11. CASE Operate(c)
    <2>1. proj'.state # "planning"
      <3>1. CASE proj.state = "planning"
        <4>1. PICK type \in PlanOutcome : Append(type)
          BY <1>4, <1>11, <3>1 DEF Operate, Effect, Hooked
        <4>2. proj'.state # proj.state
          <5>1. \A to : <<"planning", type, to>> \in transitions => to # "planning"
            BY DEF transitions, openTransitions, closedTransitions, PlanOutcome
          <5>2. \E to : <<"planning", type, to>> \in transitions
            BY EventsFit
          <5>3. type \in EventType \ {"run_resumed"} /\ proj \in Projection
            BY <1>0, EventsFit DEF TypeOK
          <5> QED
            BY <3>1, <4>1, <5>1, <5>2, <5>3, AfterTyped DEF Append
        <4> QED
          BY <3>1, <4>2
      <3>2. CASE proj.state # "planning"
        <4>1. "planning" \notin PlanningTerminalState
          BY DEF PlanningTerminalState
        <4> QED
          BY <1>0, <3>2, <4>1, PlanlessRun
      <3> QED
        BY <3>1, <3>2
    <2>2. Goto(c, "settle") /\ UNCHANGED <<thread, rows>>
      BY <1>11 DEF Operate
    <2>3. \A d \in Caller : inv'[d] = inv[d] \/ PlanlessCaller(d)'
      BY <1>0, <2>1, <2>2, GotoEffect DEF PlanlessCaller
    <2> QED
      BY <1>0, <2>2, <2>3, PlanlessKept
  \* Planning that settles without a plan has ended for good.
  <1>12. CASE Settle(c)
    <2>1. proj.state \in PlanningTerminalState /\ inv[c].in.at = planNode /\ RowOf(c) \in RowKey
      BY <1>0, <1>4, <1>12 DEF Settle, Planless, PlanlessCaller, Hooked
    <2>2. /\ rows' = [rows EXCEPT ![RowOf(c)] = "completed-terminal"]
          /\ GoOn(c, "completed-terminal") /\ UNCHANGED thread
      BY <1>12, <2>1 DEF Settle
    <2>3. \A r \in Position : rows'[<<planNode, r>>] # "completed"
      BY <1>0, <2>1, <2>2, PlanRows DEF RowStatus, Completed
    <2>4. \A d \in Caller : inv'[d] = inv[d] \/ PlanlessCaller(d)'
      BY <1>0, <2>2, GoOnEffect DEF PlanlessCaller
    <2> QED
      BY <1>0, <2>2, <2>3, <2>4, PlanlessKept
  <1>13. CASE LeaveHook(c)
    <2>1. inv[c].ended
      BY <1>0, <1>13 DEF LeaveHook, PlanlessCaller
    <2>2. Leave(c, end, inv[c].in.plan, inv[c].in.capabilities) /\ UNCHANGED rows
      BY <1>13, <2>1 DEF LeaveHook, LeaveTo
    <2>3. end \in BeforePlan
      BY DEF BeforePlan
    <2> QED
      BY <1>0, <1>3, <2>2, <2>3, PlanlessKept
  <1>14. CASE HookFails(c)
    BY <1>0, <1>1, <1>14, PlanlessKept DEF HookFails
  <1>15. CASE RecordBackgroundGraphFailure(c)
    <2>1. inv' = [inv EXCEPT ![c] = Idle] /\ UNCHANGED <<thread, rows>>
      BY <1>15 DEF RecordBackgroundGraphFailure
    <2>2. \A d \in Caller : inv'[d] = inv[d] \/ PlanlessCaller(d)'
      BY <1>0, <2>1, FreshIsPlanless DEF PlanlessCaller
    <2> QED
      BY <1>0, <2>1, <2>2, PlanlessKept
  <1> QED
    BY <1>6, <1>7, <1>8, <1>9, <1>10, <1>11, <1>12, <1>13, <1>14, <1>15 DEF InvocationStep

\* The routes, the recovery, the worker and time only start and end invocations.
LEMMA OthersPlanless ==
  ASSUME Typed, Planless, ~Planned',
         \/ \E p \in Api : Approve(p) \/ Grant(p)
         \/ Decide \/ RecoverStep \/ Bootstrap \/ WorkerStep \/ Age
         \/ \E p \in Process : Crash(p)
  PROVE  Planless'
PROOF
  <1>0. /\ TypeOK /\ [Next]_vars /\ thread.at \in BeforePlan
        /\ inv \in [Caller -> Invocation]
        /\ \A r \in Position : rows[<<planNode, r>>] # "completed"
    BY DEF Typed, TypeOK, Next, Planless
  <1>1. UNCHANGED <<thread, rows>>
    BY DEF Approve, Grant, Decide, RecoverStep, ClaimStalledApproval, CheckStalledApproval, Bootstrap,
           WorkerStep, Age, Crash
  <1>2. ASSUME NEW d \in Caller
        PROVE  \/ inv'[d] = inv[d]
               \/ /\ inv'[d].in = Fresh \/ inv'[d].in = StartInput(proj.state)
                  /\ inv'[d].pc \in {"idle", "join", "decide", "begin", "check"}
    <2>1. ASSUME NEW c \in Caller, NEW home, StartBy(c, home)
          PROVE  \/ inv'[d] = inv[d]
                 \/ inv'[d].in = StartInput(proj.state) /\ inv'[d].pc = "begin"
      BY <1>0, <2>1 DEF StartBy, Idle
    <2>2. ASSUME NEW c \in Caller, NEW home, NEW pc,
                 inv' = [inv EXCEPT ![c] = [Idle EXCEPT !.pc = pc, !.home = home]]
          PROVE  inv'[d] = inv[d] \/ (inv'[d].in = Fresh /\ inv'[d].pc = pc)
      BY <1>0, <2>2, WaitEffect
    <2>3. ASSUME NEW c \in Caller, NEW home, NEW answer, ResumeBy(c, home, answer)
          PROVE  inv'[d] = inv[d] \/ (inv'[d].in = Fresh /\ inv'[d].pc = "begin")
      BY <1>0, <2>3, ResumeEffect
    <2>4. ASSUME NEW c \in Caller, inv' = [inv EXCEPT ![c] = Idle]
          PROVE  inv'[d] = inv[d] \/ (inv'[d].in = Fresh /\ inv'[d].pc = "idle")
      BY <1>0, <2>4, FreshIsPlanless
    <2>5. {"approve", "grant", "recover", "worker"} \subseteq Caller
      BY DEF Caller
    <2>6. CASE \E p \in Api : Approve(p)
      <3>1. PICK p \in Api : Approve(p)
        BY <2>6
      <3>2. \/ \E pc \in {"decide", "join"} :
                 inv' = [inv EXCEPT !["approve"] = [Idle EXCEPT !.pc = pc, !.home = p]]
            \/ StartBy("approve", p)
        BY <3>1 DEF Approve
      <3>3. CASE StartBy("approve", p)
        BY <2>1, <2>5, <3>3
      <3>4. CASE \E pc \in {"decide", "join"} :
                   inv' = [inv EXCEPT !["approve"] = [Idle EXCEPT !.pc = pc, !.home = p]]
        BY <2>2, <2>5, <3>4
      <3> QED
        BY <3>2, <3>3, <3>4
    <2>7. CASE \E p \in Api : Grant(p)
      BY <2>3, <2>5, <2>7 DEF Grant
    <2>8. CASE Decide
      BY <2>3, <2>4, <2>5, <2>8 DEF Decide
    <2>9. CASE RecoverStep
      <3>1. CASE CheckStalledApproval
        BY <2>3, <2>4, <2>5, <3>1 DEF CheckStalledApproval
      <3>2. CASE \E p \in Process : ClaimStalledApproval(p)
        <4>1. PICK p \in Process : ClaimStalledApproval(p)
          BY <3>2
        <4> QED
          BY <2>2, <2>5, <4>1 DEF ClaimStalledApproval
      <3> QED
        BY <2>9, <3>1, <3>2 DEF RecoverStep
    <2>10. CASE Bootstrap
      BY <2>1, <2>5, <2>10 DEF Bootstrap
    <2>11. CASE WorkerStep
      BY <2>3, <2>5, <2>11 DEF WorkerStep
    <2>12. CASE Age \/ \E p \in Process : Crash(p)
      BY <2>12, FreshIsPlanless DEF Age, Crash
    <2> QED
      BY <2>6, <2>7, <2>8, <2>9, <2>10, <2>11, <2>12
  <1>3. \A d \in Caller : inv'[d] = inv[d] \/ PlanlessCaller(d)'
    BY <1>2, FreshIsPlanless DEF PlanlessCaller
  <1> QED
    BY <1>0, <1>1, <1>3, PlanlessKept

\* The graph gets to the plan's approval, or past it, only with a plan the run has: over
\* any number of invocations, take-overs of failed or old executions, crashes and stalls
\* (executeAgentNodeIdempotently, appendPlanningEvent).
THEOREM PlanComesFirst == Spec => []GraphHasItsPlan
PROOF
  <1>1. PlanInv => GraphHasItsPlan
    BY DEF PlanInv, Planned, Planless, BeforePlan, GraphHasItsPlan, planNode, planApproval, gateNode, end
  <1>2. Init => Typed /\ PlanInv
    <2> SUFFICES ASSUME Init, ~Planned PROVE Planless
      BY InitTyped DEF PlanInv
    <2>1. PICK answer \in AnsweredWith : proj = answer[1] /\ events = {"run_created"} \cup answer[2]
      BY DEF Init
    <2>2. proj.state \in {"planning"} \cup PlanningTerminalState
      BY <2>1, AnswersStand DEF PlanningTerminalState, Planned
    <2>3. /\ inv = [c \in Caller |-> IF c = "post"
                      THEN [Idle EXCEPT !.pc = "begin", !.home = Origin, !.starts = TRUE,
                                        !.in = StartInput(proj.state)]
                      ELSE Idle]
          /\ thread = Fresh /\ rows = [row \in RowKey |-> "absent"]
      BY DEF Init
    <2>4. \A r \in Position : <<planNode, r>> \in RowKey
      BY DEF RowKey, HookNode
    <2>5. \A c \in Caller : PlanlessCaller(c)
      BY <2>3, FreshIsPlanless DEF PlanlessCaller, Idle
    <2> QED
      BY <2>2, <2>3, <2>4, <2>5, FreshIsPlanless DEF Planless
  <1>3. Typed /\ PlanInv /\ [Next]_vars => (Typed /\ PlanInv)'
    <2> SUFFICES ASSUME Typed, PlanInv, [Next]_vars, ~Planned' PROVE Planless'
      BY TypedKept DEF PlanInv
    <2>1. ~Planned /\ Planless
      BY RunMoves DEF RunUntouched, Append, Planned, PlanInv
    <2>2. CASE UNCHANGED vars
      BY <2>1, <2>2 DEF vars, Planless, PlanlessCaller
    <2> QED
      BY <2>1, <2>2, InvocationPlanless, OthersPlanless DEF Next
  <1> QED
    BY <1>1, <1>2, <1>3, PTL DEF Spec

(***************************************************************************)
(* The permission boundary.  Where nobody stalls, comes early or answers   *)
(* what was not asked, the callers take turns, and what a caller may still *)
(* bring to the graph follows from where the run and its thread stand.     *)
(***************************************************************************)
Unhurried == budget.stalls = 0 /\ budget.early = 0 /\ budget.haste = 0

Granted == "permission_granted" \in events

\* A run that planning has ended: its plan node never completes as one to go on from.
Ended ==
  /\ proj.state \in {"awaiting-human-review", "blocked"}
  /\ thread.at \in {planNode, end}
  /\ \A r \in Position : rows[<<planNode, r>>] # "completed"

\* The graph rests at a question: a person may answer it, or the recovery may.
Awaited ==
  \/ proj.state = "awaiting-plan-approval" /\ shown = "plan-approval"
  \/ proj.state = "awaiting-permission" /\ shown = "browser-permission"
  \/ /\ proj.state = "awaiting-permission" /\ shown = "plan-approval"
     /\ {runRecord, graphRecord} \subseteq old

Approvers == {"approve", "recover"}
Invoking == {"node"} \cup Hooked

\* The run's state tells whether the permission has been granted.
RunFits ==
  /\ Granted => proj.state \notin {"draft", "planning", "awaiting-plan-approval", "awaiting-permission"}
  /\ proj.state \in {"queued", "preparing", "running", "collecting", "judging"} => Granted

\* What the graph shows tells where its thread stands; a thread that believes the
\* capabilities granted is right, or has nowhere to go.
ThreadFits ==
  /\ shown = "plan-approval" => thread.at \in {planApproval, prepareNode}
  /\ thread.capabilities => Granted \/ Ended
  /\ CapabilitiesAreGranted

\* Where c is, and what it brings.
InPlace(c) ==
  /\ inv[c].pc \notin {"idle", "join"}
  /\ inv[c].pc = "decide" => c = "approve" /\ shown = "plan-approval"
  /\ inv[c].pc = "check" => c = "recover" /\ shown = "plan-approval"
  /\ inv[c].pc = "block" => c \in {"post", "grant"}
  /\ inv[c].pc \in Invoking => inv[c].in = thread
  /\ inv[c].pc \in Hooked => shown = "running"
  /\ inv[c].pc = "leave" /\ inv[c].in.at = planNode /\ Ended => inv[c].ended
  /\ inv[c].starts => c = "post"
  /\ inv[c].starts /\ inv[c].pc = "begin" => shown = "absent" /\ inv[c].in.at = planNode
  /\ inv[c].answer = "result" => c = "worker"
  /\ inv[c].answer = "approval" => c \in Approvers \cup {"grant"}

\* What entitles c to be there.  An approval is carried no further than the node
\* behind its boundary.
Entitled(c) ==
  /\ inv[c].pc = "decide" => proj.state = "awaiting-plan-approval"
  /\ inv[c].pc # "decide" => ~Awaited /\ (c \in Approvers => proj.state = "awaiting-permission")
  /\ c \in Approvers /\ inv[c].answer = "approval" => thread.at \in {planApproval, prepareNode}
  /\ c \in {"grant", "worker"} => Granted
  /\ inv[c].in.capabilities => Granted \/ Ended

Resting(callers) == \A c \in callers : inv[c] = Idle

TakesTurn(c) == inv[c] # Idle => Resting(Caller \ {c}) /\ InPlace(c) /\ Entitled(c)

GrantInv == Unhurried /\ RunFits /\ ThreadFits /\ \A c \in Caller : TakesTurn(c)

\* One caller has the turn before and after the step.
LEMMA TurnKept ==
  ASSUME GrantInv, NEW c \in Caller, inv[c] # Idle,
         \A d \in Caller \ {c} : inv'[d] = inv[d],
         Unhurried', RunFits', ThreadFits', inv'[c] = Idle \/ (InPlace(c)' /\ Entitled(c)')
  PROVE  GrantInv'
PROOF
  <1>1. Resting(Caller \ {c}) /\ Resting(Caller \ {c})'
    BY DEF GrantInv, TakesTurn, Resting
  <1>2. TakesTurn(c)'
    BY <1>1 DEF TakesTurn
  <1>3. \A d \in Caller \ {c} : TakesTurn(d)'
    BY <1>1 DEF TakesTurn, Resting
  <1> QED
    BY <1>2, <1>3 DEF GrantInv

\* Everybody rests, and c takes the turn.
LEMMA TurnTaken ==
  ASSUME Resting(Caller), NEW c \in Caller, \A d \in Caller \ {c} : inv'[d] = inv[d],
         Unhurried', RunFits', ThreadFits', inv'[c] = Idle \/ (InPlace(c)' /\ Entitled(c)')
  PROVE  GrantInv'
PROOF
  <1>1. Resting(Caller \ {c})'
    BY DEF Resting
  <1>2. TakesTurn(c)'
    BY <1>1 DEF TakesTurn
  <1>3. \A d \in Caller \ {c} : TakesTurn(d)'
    BY <1>1 DEF TakesTurn, Resting
  <1> QED
    BY <1>2, <1>3 DEF GrantInv

\* Whoever does something has the turn, and nobody else waits for him.
LEMMA TurnOf ==
  ASSUME GrantInv, NEW c \in Caller, inv[c].pc # "idle"
  PROVE  /\ inv[c] # Idle /\ InPlace(c) /\ Entitled(c)
         /\ Resting(Caller \ {c}) /\ Joined(c) = {}
         /\ Unhurried /\ RunFits /\ ThreadFits
PROOF
  <1>1. inv[c] # Idle
    BY DEF Idle
  <1>2. InPlace(c) /\ Entitled(c) /\ Resting(Caller \ {c})
    BY <1>1 DEF GrantInv, TakesTurn
  <1>3. \A d \in Caller : inv[d].pc # "join"
    BY <1>2 DEF Resting, InPlace, Idle
  <1> QED
    BY <1>1, <1>2, <1>3 DEF GrantInv, Joined

LEMMA AllRest ==
  ASSUME GrantInv, \A c \in Caller : inv[c].pc = "idle"
  PROVE  Resting(Caller)
  BY DEF GrantInv, TakesTurn, InPlace, Resting

\* An invocation that returns, or throws, ends its caller's turn; the failure of a
\* background one is still to be recorded.
LEMMA EndEffect ==
  ASSUME TypeOK, GrantInv, NEW c \in Caller, inv[c].pc # "idle", Returned(c) \/ Threw(c)
  PROVE  /\ \A d \in Caller \ {c} : inv'[d] = inv[d]
         /\ \/ inv'[c] = Idle
            \/ /\ Threw(c) /\ c \in {"post", "grant"} /\ inv'[c].pc = "block"
               /\ inv'[c].in = Fresh /\ inv'[c].answer = "none" /\ ~inv'[c].starts
PROOF
  <1>1. Joined(c) = {} /\ (inv[c].starts => c = "post")
    BY TurnOf DEF InPlace
  <1>2. CASE Returned(c)
    BY <1>1, <1>2 DEF Returned
  <1>3. CASE Threw(c)
    BY <1>1, <1>3 DEF Threw, Idle
  <1> QED
    BY <1>2, <1>3

LEMMA HurryKept ==
  ASSUME TypeOK, Unhurried, UNCHANGED budget \/ Spend("errors") \/ Spend("crashes")
  PROVE  Unhurried'
PROOF
  <1>1. budget \in [{"crashes", "stalls", "errors", "early", "haste", "all"} -> Nat]
    BY DEF TypeOK
  <1> QED
    BY <1>1 DEF Spend, Unhurried

LEMMA RunKept ==
  ASSUME RunUntouched
  PROVE  (Granted' <=> Granted) /\ (RunFits => RunFits')
  BY DEF RunUntouched, Granted, RunFits

\* A planned run stays ended while the thread stands and no plan node completes.
LEMMA EndedKept ==
  ASSUME Ended, RunUntouched, UNCHANGED thread,
         \A r \in Position : rows'[<<planNode, r>>] = "completed" => rows[<<planNode, r>>] = "completed"
  PROVE  Ended'
  BY DEF Ended, RunUntouched

LEMMA ClaimKeepsGrant ==
  ASSUME Typed, GrantInv, NEW c \in Caller, Claim(c) \/ Reclaim(c) \/ OperationThrows(c)
  PROVE  GrantInv'
PROOF
  <1>0. /\ TypeOK /\ rows \in [RowKey -> RowStatus] /\ inv[c].pc \in Invoking /\ inv[c].pc # "idle"
        /\ RowOf(c) \in RowKey
    BY HookedRow DEF Typed, TypeOK, Claim, Reclaim, OperationThrows, AtNode, Hooked, Invoking
  <1>1. inv[c] # Idle /\ InPlace(c) /\ Entitled(c) /\ Unhurried /\ RunFits /\ ThreadFits
    BY <1>0, TurnOf
  <1>2. RunUntouched /\ UNCHANGED thread /\ (UNCHANGED budget \/ Spend("errors"))
    BY DEF Claim, Reclaim, OperationThrows
  <1>3. \/ \E pc \in {"operate", "reclaim", "inProgress"} : Goto(c, pc)
        \/ GoOn(c, rows[RowOf(c)]) /\ UNCHANGED rows /\ rows[RowOf(c)] \in Completed
    BY DEF Claim, Reclaim, OperationThrows
  <1>4. /\ \A d \in Caller \ {c} : inv'[d] = inv[d]
        /\ inv'[c].pc \in {"operate", "reclaim", "inProgress", "leave"} /\ inv'[c].in = inv[c].in
        /\ inv'[c].answer = inv[c].answer /\ inv'[c].starts = inv[c].starts
    BY <1>0, <1>3, GotoEffect, GoOnEffect
  <1>5. shown' = "running"
    BY <1>1 DEF Claim, Reclaim, OperationThrows, Save, InPlace, Hooked
  <1>6. \/ UNCHANGED rows
        \/ \E status \in {"running", "failed"} : rows' = [rows EXCEPT ![RowOf(c)] = status]
    BY DEF Claim, Reclaim, OperationThrows
  <1>7. \A row \in RowKey : rows'[row] = "completed" => rows[row] = "completed"
    BY <1>0, <1>6
  <1>8. Ended => Ended'
    <2>1. \A r \in Position : <<planNode, r>> \in RowKey
      BY DEF RowKey, HookNode
    <2> QED
      BY <1>2, <1>7, <2>1, EndedKept
  <1>9. ASSUME inv'[c].pc = "leave", inv[c].in.at = planNode, Ended'
        PROVE  inv'[c].ended
    <2>1. GoOn(c, rows[RowOf(c)]) /\ UNCHANGED rows /\ rows[RowOf(c)] \in Completed
      <3>1. ~\E pc \in {"operate", "reclaim", "inProgress"} : Goto(c, pc)
        BY <1>0, <1>9, GotoEffect
      <3> QED
        BY <1>3, <3>1
    <2>2. RowOf(c) = <<planNode, inv[c].in.reached>> /\ inv[c].in.reached \in Position
      BY <1>0, <1>9 DEF RowOf, RowKey
    <2>3. rows[RowOf(c)] = "completed-terminal"
      BY <1>9, <2>1, <2>2 DEF Ended, Completed
    <2> QED
      BY <1>0, <2>1, <2>3, GoOnEffect
  <1>10. Unhurried' /\ RunFits' /\ (Granted' <=> Granted) /\ proj' = proj
    BY <1>0, <1>1, <1>2, HurryKept, RunKept DEF RunUntouched
  <1>11. ThreadFits'
    BY <1>1, <1>2, <1>5, <1>8, <1>10 DEF ThreadFits, CapabilitiesAreGranted, Granted
  <1>12. InPlace(c)'
    BY <1>0, <1>1, <1>2, <1>4, <1>5, <1>9 DEF InPlace, Invoking, Hooked
  <1>13. Entitled(c)'
    <2>1. ~Awaited'
      BY <1>5 DEF Awaited
    <2> QED
      BY <1>0, <1>1, <1>2, <1>4, <1>8, <1>10, <2>1 DEF Entitled, Invoking, Hooked
  <1> QED
    BY <1>1, <1>4, <1>10, <1>11, <1>12, <1>13, TurnKept

LEMMA OperateKeepsGrant ==
  ASSUME Typed, GrantInv, NEW c \in Caller, Operate(c)
  PROVE  GrantInv'
PROOF
  <1>0. /\ TypeOK /\ inv[c].pc = "operate" /\ Goto(c, "settle")
        /\ UNCHANGED <<thread, rows, shown, budget>>
    BY DEF Typed, Operate
  <1>1. inv[c] # Idle /\ InPlace(c) /\ Entitled(c) /\ Unhurried /\ RunFits /\ ThreadFits
    BY <1>0, TurnOf
  <1>2. /\ \A d \in Caller \ {c} : inv'[d] = inv[d]
        /\ inv'[c].pc = "settle" /\ inv'[c].in = inv[c].in
        /\ inv'[c].answer = inv[c].answer /\ inv'[c].starts = inv[c].starts
    BY <1>0, GotoEffect
  <1>3. shown = "running" /\ inv[c].in = thread
    BY <1>0, <1>1 DEF InPlace, Invoking, Hooked
  <1>4. Unhurried'
    BY <1>0, <1>1, HurryKept
  <1>5. InPlace(c)'
    BY <1>0, <1>1, <1>2 DEF InPlace, Invoking, Hooked
  <1>6. ~Awaited'
    BY <1>0, <1>3 DEF Awaited
  <1>7. ASSUME RunUntouched
        PROVE  RunFits' /\ ThreadFits' /\ Entitled(c)'
    <2>1. (Granted' <=> Granted) /\ RunFits' /\ proj' = proj /\ (Ended' <=> Ended)
      BY <1>0, <1>1, <1>7, RunKept DEF RunUntouched, Ended
    <2> QED
      BY <1>0, <1>1, <1>2, <1>6, <2>1 DEF ThreadFits, CapabilitiesAreGranted, Granted, Entitled
  \* Nobody who came after the approval is planning, and no graph that plans believes
  \* the capabilities granted.
  <1>8. ASSUME NEW type \in PlanOutcome, proj.state = "planning", Append(type)
        PROVE  RunFits' /\ ThreadFits' /\ Entitled(c)'
    <2>1. proj'.state \in {"awaiting-plan-approval", "awaiting-human-review", "blocked"}
      <3>1. /\ \A to : <<"planning", "plan_generated", to>> \in transitions => to = "awaiting-plan-approval"
            /\ \A to : <<"planning", "human_review_requested", to>> \in transitions
                 => to = "awaiting-human-review"
            /\ \A to : <<"planning", "run_blocked", to>> \in transitions => to = "blocked"
        BY DEF transitions, openTransitions, closedTransitions
      <3> QED
        BY <1>0, <1>8, <3>1, EventsFit, AfterTyped DEF TypeOK, Append, PlanOutcome
    <2>2. Granted' <=> Granted
      BY <1>8 DEF Append, Granted, PlanOutcome
    <2>3. ~Granted /\ ~Ended /\ c \notin Approvers \cup {"grant", "worker"}
      BY <1>0, <1>1, <1>8 DEF RunFits, Ended, Entitled
    <2> QED
      BY <1>0, <1>1, <1>2, <1>6, <2>1, <2>2, <2>3
      DEF RunFits, ThreadFits, CapabilitiesAreGranted, Granted, Entitled
  <1>9. ASSUME proj.state = "collecting", Append("run_judging")
        PROVE  RunFits' /\ ThreadFits' /\ Entitled(c)'
    <2>1. proj'.state = "judging"
      <3>1. \A to : <<"collecting", "run_judging", to>> \in transitions => to = "judging"
        BY DEF transitions, openTransitions, closedTransitions
      <3> QED
        BY <1>0, <1>9, <3>1, EventsFit, AfterTyped DEF TypeOK, Append
    <2>2. Granted /\ Granted'
      BY <1>1, <1>9 DEF RunFits, Append, Granted
    <2>3. c \notin Approvers
      BY <1>0, <1>1, <1>9 DEF Entitled
    <2> QED
      BY <1>0, <1>1, <1>2, <1>6, <2>1, <2>2, <2>3
      DEF RunFits, ThreadFits, CapabilitiesAreGranted, Granted, Entitled
  <1> QED
    BY <1>1, <1>2, <1>4, <1>5, <1>7, <1>8, <1>9, TurnKept DEF Operate, Effect

LEMMA SettleKeepsGrant ==
  ASSUME Typed, GrantInv, NEW c \in Caller, Settle(c)
  PROVE  GrantInv'
PROOF
  <1>0. /\ TypeOK /\ inv[c].pc = "settle" /\ RunUntouched
        /\ UNCHANGED <<thread, shown, old, budget>>
        /\ rows \in [RowKey -> RowStatus] /\ RowOf(c) \in RowKey
    BY HookedRow DEF Typed, TypeOK, Settle, Hooked
  <1>1. inv[c] # Idle /\ InPlace(c) /\ Entitled(c) /\ Unhurried /\ RunFits /\ ThreadFits
    BY <1>0, TurnOf
  <1>3. shown = "running" /\ inv[c].in = thread
    BY <1>0, <1>1 DEF InPlace, Invoking, Hooked
  <1>4. PICK status \in Completed :
          /\ rows' = [rows EXCEPT ![RowOf(c)] = status] /\ GoOn(c, status)
          /\ inv[c].in.at = planNode /\ proj.state \in PlanningTerminalState => status = "completed-terminal"
    BY DEF Settle, Completed
  <1>2. /\ \A d \in Caller \ {c} : inv'[d] = inv[d]
        /\ inv'[c].pc = "leave" /\ inv'[c].in = inv[c].in
        /\ inv'[c].answer = inv[c].answer /\ inv'[c].starts = inv[c].starts
        /\ inv'[c].ended = (status = "completed-terminal")
    BY <1>0, <1>4, GoOnEffect
  <1>5. Ended => Ended'
    <2> SUFFICES ASSUME Ended PROVE Ended'
      OBVIOUS
    <2>1. inv[c].in.at = planNode
      BY <1>0, <1>3, HookedRow DEF Ended, Hooked, HookNode, planNode, prepareNode, gateNode, end
    <2>2. status = "completed-terminal"
      BY <1>4, <2>1 DEF Ended, PlanningTerminalState
    <2>3. \A row \in RowKey : rows'[row] = "completed" => rows[row] = "completed"
      BY <1>0, <1>4, <2>2
    <2>4. \A r \in Position : <<planNode, r>> \in RowKey
      BY DEF RowKey, HookNode
    <2> QED
      BY <1>0, <2>3, <2>4, EndedKept
  <1>6. Unhurried' /\ RunFits' /\ (Granted' <=> Granted) /\ proj' = proj
    BY <1>0, <1>1, HurryKept, RunKept DEF RunUntouched
  <1>7. ThreadFits'
    BY <1>0, <1>1, <1>5, <1>6 DEF ThreadFits, CapabilitiesAreGranted, Granted
  <1>8. InPlace(c)'
    <2>1. inv[c].in.at = planNode /\ Ended' => inv'[c].ended
      BY <1>2, <1>4, <1>6 DEF Ended, PlanningTerminalState
    <2> QED
      BY <1>0, <1>1, <1>2, <1>3, <2>1 DEF InPlace, Invoking, Hooked
  <1>9. Entitled(c)'
    <2>1. ~Awaited'
      BY <1>0, <1>3 DEF Awaited
    <2> QED
      BY <1>0, <1>1, <1>2, <1>5, <1>6, <2>1 DEF Entitled
  <1> QED
    BY <1>1, <1>2, <1>6, <1>7, <1>8, <1>9, TurnKept

LEMMA BeginKeepsGrant ==
  ASSUME Typed, GrantInv, NEW c \in Caller, Begin(c)
  PROVE  GrantInv'
PROOF
  <1>0. /\ TypeOK /\ inv[c].pc = "begin" /\ RunUntouched
        /\ UNCHANGED <<rows, shown, old, budget>>
        /\ inv \in [Caller -> Invocation] /\ inv[c] \in Invocation /\ inv[c].in \in Checkpoint
    BY RecordsTyped DEF Typed, TypeOK, Begin
  <1>1. inv[c] # Idle /\ InPlace(c) /\ Entitled(c) /\ Unhurried /\ RunFits /\ ThreadFits
    BY <1>0, TurnOf
  <1> DEFINE from == IF inv[c].starts THEN [inv[c].in EXCEPT !.reached = thread.reached] ELSE thread
  <1>2. thread' = from /\ inv' = [inv EXCEPT ![c] = [inv[c] EXCEPT !.pc = "node", !.in = from]]
    BY <1>0 DEF Begin
  <1>3. /\ inv[c].starts => /\ from.at = planNode /\ shown = "absent" /\ c = "post"
                            /\ from.capabilities = inv[c].in.capabilities
        /\ ~inv[c].starts => from = thread
    BY <1>0, <1>1 DEF InPlace, Checkpoint
  <1> HIDE DEF from
  <1>4. /\ \A d \in Caller \ {c} : inv'[d] = inv[d]
        /\ inv'[c].pc = "node" /\ inv'[c].in = from
        /\ inv'[c].answer = inv[c].answer /\ inv'[c].starts = inv[c].starts
    BY <1>0, <1>2 DEF Invocation
  <1>5. Unhurried' /\ RunFits' /\ (Granted' <=> Granted) /\ proj' = proj
    BY <1>0, <1>1, HurryKept, RunKept DEF RunUntouched
  <1>6. Ended => Ended'
    BY <1>0, <1>2, <1>3, <1>5 DEF Ended
  <1>7. ThreadFits'
    <2>1. planNode \notin {executeNode, gateNode}
      BY DEF planNode, executeNode, gateNode
    <2> QED
      BY <1>0, <1>1, <1>2, <1>3, <1>5, <1>6, <2>1
      DEF ThreadFits, Entitled, CapabilitiesAreGranted, Granted
  <1>8. InPlace(c)'
    BY <1>0, <1>1, <1>2, <1>4 DEF InPlace, Invoking, Hooked
  <1>9. Entitled(c)'
    <2>1. ~Awaited'
      BY <1>0, <1>1, <1>5 DEF Awaited, Entitled
    <2> QED
      BY <1>0, <1>1, <1>2, <1>3, <1>4, <1>5, <1>6, <1>7, <2>1 DEF Entitled, ThreadFits, Approvers
  <1> QED
    BY <1>1, <1>4, <1>5, <1>7, <1>8, <1>9, TurnKept

\* A plan that ended leads to the end of the graph.
LEMMA LeaveHookKeepsGrant ==
  ASSUME Typed, GrantInv, NEW c \in Caller, LeaveHook(c)
  PROVE  GrantInv'
PROOF
  <1>0. /\ TypeOK /\ inv[c].pc = "leave" /\ RunUntouched /\ UNCHANGED <<rows, budget>>
        /\ inv[c].in.at \in HookNode /\ inv[c].in \in Checkpoint /\ shown' = "running"
    BY HookedRow DEF Typed, LeaveHook, Hooked, Save
  <1>1. inv[c] # Idle /\ InPlace(c) /\ Entitled(c) /\ Unhurried /\ RunFits /\ ThreadFits
    BY <1>0, TurnOf
  <1> DEFINE to == IF inv[c].ended THEN end ELSE inv[c].in.at + 1
  <1>2. Leave(c, to, inv[c].in.plan, inv[c].in.capabilities)
    BY DEF LeaveHook, LeaveTo
  <1>3. inv[c].in = thread /\ (inv[c].in.at = planNode /\ Ended => inv[c].ended)
    BY <1>0, <1>1 DEF InPlace, Invoking, Hooked
  <1>4. to \notin {executeNode, gateNode}
    BY <1>0 DEF HookNode, planNode, prepareNode, gateNode, executeNode, end
  <1>5. Ended => to = end
    <2> SUFFICES ASSUME Ended PROVE to = end
      OBVIOUS
    <2>1. inv[c].in.at = planNode
      BY <1>0, <1>3 DEF Ended, HookNode, planNode, prepareNode, gateNode, end
    <2> QED
      BY <1>3, <2>1
  <1> HIDE DEF to
  <1>6. /\ \A d \in Caller \ {c} : inv'[d] = inv[d]
        /\ thread'.at = to /\ thread'.capabilities = inv[c].in.capabilities
        /\ inv'[c].pc = "node" /\ inv'[c].in = thread'
        /\ inv'[c].answer = "none" /\ inv'[c].starts = inv[c].starts
    BY <1>0, <1>2, LeaveEffect
  <1>7. Unhurried' /\ RunFits' /\ (Granted' <=> Granted) /\ proj' = proj
    BY <1>0, <1>1, HurryKept, RunKept DEF RunUntouched
  <1>8. Ended => Ended'
    BY <1>0, <1>5, <1>6, <1>7 DEF Ended
  <1>9. ThreadFits'
    BY <1>0, <1>1, <1>3, <1>4, <1>6, <1>7, <1>8 DEF ThreadFits, CapabilitiesAreGranted
  <1>10. InPlace(c)'
    BY <1>1, <1>6 DEF InPlace, Invoking, Hooked
  <1>11. Entitled(c)'
    <2>1. ~Awaited'
      BY <1>0 DEF Awaited
    <2> QED
      BY <1>0, <1>1, <1>6, <1>7, <1>8, <2>1 DEF Entitled
  <1> QED
    BY <1>1, <1>6, <1>7, <1>9, <1>10, <1>11, TurnKept

\* The boundary itself: it is passed by who knows of the grant, or brings it.
LEMMA AnswerKeepsGrant ==
  ASSUME Typed, GrantInv, NEW c \in Caller, PassApproved(c) \/ TakeAnswer(c)
  PROVE  GrantInv'
PROOF
  <1>0. /\ TypeOK /\ inv[c].pc = "node" /\ RunUntouched /\ UNCHANGED <<rows, budget>>
        /\ inv[c].in \in Checkpoint
        /\ inv[c].in.at \in {planApproval, capabilityApproval, executeNode}
    BY RecordsTyped DEF Typed, PassApproved, TakeAnswer, Asking, AtNode
  <1>1. inv[c] # Idle /\ InPlace(c) /\ Entitled(c) /\ Unhurried /\ RunFits /\ ThreadFits
    BY <1>0, TurnOf
  <1> DEFINE at == inv[c].in.at
  <1>2. inv[c].in = thread
    BY <1>0, <1>1 DEF InPlace, Invoking
  <1>3. at \in {capabilityApproval, executeNode} => Granted
    <2>1. CASE at = executeNode
      BY <1>1, <1>2, <2>1 DEF ThreadFits, CapabilitiesAreGranted, Granted
    <2>2. CASE at = capabilityApproval /\ PassApproved(c)
      <3>1. thread.capabilities
        BY <1>2, <2>2 DEF PassApproved, Approved, planApproval, capabilityApproval
      <3>2. ~Ended
        BY <1>2, <2>2 DEF Ended, capabilityApproval, planNode, end
      <3> QED
        BY <1>1, <3>1, <3>2 DEF ThreadFits
    <2>3. CASE at = capabilityApproval /\ TakeAnswer(c)
      <3>1. inv[c].answer = "approval"
        BY <2>3 DEF TakeAnswer, Fits, capabilityApproval, executeNode
      <3>2. thread.at \notin {planApproval, prepareNode}
        BY <1>2, <2>3 DEF planApproval, prepareNode, capabilityApproval
      <3>3. c = "grant"
        BY <1>1, <3>1, <3>2 DEF InPlace, Entitled
      <3> QED
        BY <1>1, <3>3 DEF Entitled
    <2> QED
      BY <2>1, <2>2, <2>3
  <1>4. ~Ended
    BY <1>0, <1>2 DEF Ended, planApproval, capabilityApproval, executeNode, planNode, end
  <1> HIDE DEF at
  <1>5. /\ \A d \in Caller \ {c} : inv'[d] = inv[d]
        /\ thread'.at = at + 1 /\ (thread'.capabilities => Granted)
        /\ inv'[c].pc = "node" /\ inv'[c].in = thread'
        /\ inv'[c].answer = "none" /\ inv'[c].starts = inv[c].starts
    <2>1. thread.capabilities => Granted
      BY <1>1, <1>4 DEF ThreadFits
    <2>2. CASE PassApproved(c)
      <3>1. Leave(c, at + 1, inv[c].in.plan, thread.capabilities)
        BY <1>2, <2>2 DEF PassApproved, LeaveTo, at
      <3> QED
        BY <1>0, <2>1, <3>1, LeaveEffect
    <2>3. CASE TakeAnswer(c)
      <3> DEFINE plan == inv[c].in.plan \/ at = planApproval
                 capabilities == thread.capabilities \/ at = capabilityApproval
      <3>1. Leave(c, at + 1, plan, capabilities) /\ (capabilities => Granted)
        BY <1>2, <1>3, <2>3, <2>1 DEF TakeAnswer, at
      <3> HIDE DEF plan, capabilities
      <3> QED
        BY <1>0, <3>1, LeaveEffect
    <2> QED
      BY <2>2, <2>3
  <1>6. Unhurried' /\ RunFits' /\ (Granted' <=> Granted) /\ proj' = proj
    BY <1>0, <1>1, HurryKept, RunKept DEF RunUntouched
  <1>7. /\ shown' = "plan-approval" => at = planApproval
        /\ thread'.at \in {executeNode, gateNode} => Granted
        /\ at = planApproval => thread'.at = prepareNode
    <2>1. /\ at = planApproval => thread'.at = prepareNode
          /\ at # planApproval => at \in {capabilityApproval, executeNode}
          /\ prepareNode \notin {executeNode, gateNode}
      BY <1>0, <1>5 DEF planApproval, prepareNode, capabilityApproval, executeNode, gateNode, at
    <2>2. shown' = "plan-approval" => at = planApproval
      <3>1. CASE PassApproved(c)
        BY <1>0, <1>1, <1>2, <3>1
        DEF PassApproved, ThreadFits, planApproval, prepareNode, capabilityApproval, executeNode, at
      <3>2. CASE TakeAnswer(c)
        BY <1>0, <3>2 DEF TakeAnswer, ShowInterrupt, Save, InterruptKind,
                          planApproval, capabilityApproval, executeNode, at
      <3> QED
        BY <3>1, <3>2
    <2> QED
      BY <1>3, <2>1, <2>2
  <1>8. ThreadFits'
    BY <1>5, <1>6, <1>7 DEF ThreadFits, CapabilitiesAreGranted, Granted
  <1>9. InPlace(c)'
    BY <1>1, <1>5 DEF InPlace, Invoking, Hooked
  \* Whoever answers is past the step of a person that the graph waits for.
  <1>10. ~Awaited'
    <2>1. CASE PassApproved(c)
      BY <1>0, <1>1, <1>6, <2>1 DEF PassApproved, Awaited, Entitled
    <2>2. CASE TakeAnswer(c)
      <3>1. graphRecord \notin old'
        BY <1>0, <2>2, RenewsTyped DEF TakeAnswer, ShowInterrupt
      <3>2. ASSUME proj.state = "awaiting-plan-approval", at = planApproval PROVE FALSE
        <4>1. inv[c].answer = "approval"
          BY <2>2, <3>2 DEF TakeAnswer, Fits, planApproval, executeNode, at
        <4>2. c \in Approvers \cup {"grant"}
          BY <1>1, <4>1 DEF InPlace
        <4>3. c \notin Approvers
          BY <1>0, <1>1, <3>2 DEF Entitled
        <4>4. ~Granted
          BY <1>1, <3>2 DEF RunFits
        <4> QED
          BY <1>1, <4>2, <4>3, <4>4 DEF Entitled
      <3>3. ASSUME proj.state = "awaiting-permission", shown' = "browser-permission" PROVE FALSE
        <4>1. at # planApproval
          BY <2>2, <3>3 DEF TakeAnswer, ShowInterrupt, Save, InterruptKind, planApproval,
                            capabilityApproval, executeNode, at
        <4> QED
          BY <1>0, <1>1, <1>3, <3>3, <4>1 DEF RunFits, at
      <3> QED
        BY <1>6, <1>7, <3>1, <3>2, <3>3 DEF Awaited
    <2> QED
      BY <2>1, <2>2
  <1>11. Entitled(c)'
    BY <1>0, <1>1, <1>5, <1>6, <1>10 DEF Entitled
  <1> QED
    BY <1>1, <1>5, <1>6, <1>8, <1>9, <1>11, TurnKept

\* A caller's turn ends.
LEMMA EndKeepsGrant ==
  ASSUME Typed, GrantInv, NEW c \in Caller, End(c) \/ Suspend(c) \/ Reject(c) \/ HookFails(c)
  PROVE  GrantInv'
PROOF
  <1>0. /\ TypeOK /\ RunUntouched /\ UNCHANGED <<thread, rows, budget>>
        /\ inv[c].pc \in Invoking /\ inv[c].pc # "idle" /\ (Returned(c) \/ Threw(c))
        /\ Fresh.capabilities = FALSE
    BY DEF Typed, End, Suspend, Reject, HookFails, Asking, AtNode, Invoking, Hooked, Fresh
  <1>1. inv[c] # Idle /\ InPlace(c) /\ Entitled(c) /\ Unhurried /\ RunFits /\ ThreadFits
    BY <1>0, TurnOf
  <1>2. /\ \A d \in Caller \ {c} : inv'[d] = inv[d]
        /\ \/ inv'[c] = Idle
           \/ /\ Threw(c) /\ c \in {"post", "grant"} /\ inv'[c].pc = "block"
              /\ inv'[c].in = Fresh /\ inv'[c].answer = "none" /\ ~inv'[c].starts
    BY <1>0, EndEffect
  <1>3. inv[c].in = thread
    BY <1>0, <1>1 DEF InPlace
  <1>4. Unhurried' /\ RunFits' /\ (Granted' <=> Granted) /\ proj' = proj /\ (Ended' <=> Ended)
    BY <1>0, <1>1, HurryKept, RunKept DEF RunUntouched, Ended
  <1>5. \/ shown' = shown
        \/ shown' = "failed"
        \/ Asking(c) /\ shown' = InterruptKind(thread.at)
    BY <1>3 DEF End, Suspend, Reject, HookFails, ShowInterrupt, Save
  <1>6. Asking(c) /\ InterruptKind(thread.at) = "plan-approval" => thread.at = planApproval
    BY <1>3 DEF Asking, AtNode, InterruptKind, planApproval, capabilityApproval, executeNode
  <1>7. ThreadFits'
    BY <1>0, <1>1, <1>4, <1>5, <1>6 DEF ThreadFits, CapabilitiesAreGranted, Granted
  <1>8. ASSUME inv'[c] # Idle
        PROVE  InPlace(c)' /\ Entitled(c)'
    <2>1. /\ c \in {"post", "grant"} /\ inv'[c].pc = "block"
          /\ inv'[c].in = Fresh /\ inv'[c].answer = "none" /\ ~inv'[c].starts
      BY <1>2, <1>8
    <2>2. ~Awaited'
      <3>1. CASE HookFails(c)
        BY <3>1 DEF HookFails, Save, Awaited
      <3>2. CASE Reject(c)
        <4>1. c = "grant"
          <5>1. inv[c].answer \in {"approval", "result"}
            BY <1>0, <3>2 DEF Reject, TypeOK, Invocation
          <5> QED
            BY <1>1, <2>1, <5>1 DEF InPlace, Approvers
        <4> QED
          BY <1>1, <1>4, <4>1 DEF Entitled, RunFits, Awaited
      <3>3. CASE End(c) \/ Suspend(c)
        <4>1. Returned(c) /\ Joined(c) = {} /\ (inv[c].starts => c = "post")
          BY <1>0, <1>1, <3>3, TurnOf DEF End, Suspend, InPlace
        <4>2. inv'[c] = Idle
          BY <4>1 DEF Returned
        <4> QED
          BY <1>8, <4>2
      <3> QED
        BY <3>1, <3>2, <3>3
    <2>3. InPlace(c)'
      BY <2>1 DEF InPlace, Invoking, Hooked
    <2>4. Entitled(c)'
      BY <1>0, <1>1, <1>4, <2>1, <2>2 DEF Entitled, Approvers
    <2> QED
      BY <2>3, <2>4
  <1>9. inv'[c] = Idle \/ (InPlace(c)' /\ Entitled(c)')
    BY <1>8
  <1> QED
    BY <1>1, <1>2, <1>4, <1>7, <1>9, TurnKept

LEMMA BlockKeepsGrant ==
  ASSUME Typed, GrantInv, NEW c \in Caller, RecordBackgroundGraphFailure(c)
  PROVE  GrantInv'
PROOF
  <1>0. /\ TypeOK /\ UNCHANGED <<thread, rows, budget>> /\ shown' = "failed"
        /\ inv[c].pc = "block" /\ inv \in [Caller -> Invocation]
        /\ inv' = [inv EXCEPT ![c] = Idle]
    BY DEF Typed, TypeOK, RecordBackgroundGraphFailure, Save
  <1>1. inv[c] # Idle /\ Unhurried /\ RunFits /\ ThreadFits
    BY <1>0, TurnOf
  <1>2. (Granted' <=> Granted) /\ RunFits' /\ (Ended => Ended')
    <2>1. CASE proj.state \in BlockableState
      <3>1. Append("run_blocked")
        BY <2>1 DEF RecordBackgroundGraphFailure
      <3>2. proj'.state = "blocked"
        <4>1. \A from, to : <<from, "run_blocked", to>> \in transitions => to = "blocked"
          BY DEF transitions, openTransitions, closedTransitions
        <4> QED
          BY <1>0, <2>1, <3>1, <4>1, EventsFit, AfterTyped DEF TypeOK, Append
      <3> QED
        BY <1>0, <1>1, <3>1, <3>2 DEF Append, Granted, RunFits, Ended
    <2>2. CASE proj.state \notin BlockableState
      <3>1. RunUntouched
        BY <2>2 DEF RecordBackgroundGraphFailure
      <3> QED
        BY <1>0, <1>1, <3>1, RunKept DEF RunUntouched, Ended
    <2> QED
      BY <2>1, <2>2
  <1>3. Unhurried' /\ ThreadFits'
    BY <1>0, <1>1, <1>2, HurryKept DEF ThreadFits, CapabilitiesAreGranted, Granted
  <1>4. /\ \A d \in Caller \ {c} : inv'[d] = inv[d]
        /\ inv'[c] = Idle \/ (InPlace(c)' /\ Entitled(c)')
    BY <1>0
  <1> QED
    BY <1>1, <1>2, <1>3, <1>4, TurnKept

LEMMA NothingToSpend ==
  ASSUME Unhurried, NEW kind \in {"stalls", "early", "haste"}
  PROVE  ~Spend(kind)
PROOF
  <1>1. budget[kind] = 0
    BY DEF Unhurried
  <1>2. ~(0 > 0)
    OBVIOUS
  <1> QED
    BY <1>1, <1>2 DEF Spend

\* Whoever acts while the graph rests at a question finds everybody at rest; the
\* approval route alone comes back to it.
LEMMA AwaitedRests ==
  ASSUME GrantInv, Awaited, inv["approve"].pc # "decide"
  PROVE  Resting(Caller)
PROOF
  <1> SUFFICES ASSUME NEW c \in Caller, inv[c] # Idle PROVE FALSE
    BY DEF Resting
  <1>1. InPlace(c) /\ Entitled(c)
    BY DEF GrantInv, TakesTurn
  <1> QED
    BY <1>1 DEF InPlace, Entitled

LEMMA ApproveKeepsGrant ==
  ASSUME Typed, GrantInv, NEW home \in Api, Approve(home)
  PROVE  GrantInv'
PROOF
  <1>0. /\ TypeOK /\ RunUntouched /\ UNCHANGED <<thread, rows, shown, old>>
        /\ inv["approve"].pc = "idle" /\ "approve" \in Caller
        /\ Unhurried /\ RunFits /\ ThreadFits /\ Fresh.capabilities = FALSE
    BY DEF Typed, Approve, Caller, GrantInv, Fresh
  <1>1. ~Spend("early") /\ ~Spend("haste")
    BY <1>0, NothingToSpend
  <1>2. /\ proj.state = "awaiting-plan-approval" /\ shown = "plan-approval" /\ UNCHANGED budget
        /\ inv' = [inv EXCEPT !["approve"] = [Idle EXCEPT !.pc = "decide", !.home = home]]
    BY <1>1 DEF Approve, InTime
  <1>3. Resting(Caller)
    BY <1>0, <1>2, AwaitedRests DEF Awaited
  <1>4. /\ \A d \in Caller \ {"approve"} : inv'[d] = inv[d]
        /\ inv'["approve"].pc = "decide" /\ inv'["approve"].in = Fresh
        /\ inv'["approve"].answer = "none" /\ ~inv'["approve"].starts
    BY <1>0, <1>2, WaitEffect
  <1>5. Unhurried' /\ RunFits' /\ (Granted' <=> Granted) /\ proj' = proj /\ (Ended' <=> Ended)
    BY <1>0, <1>2, HurryKept, RunKept DEF RunUntouched, Ended
  <1>6. ThreadFits'
    BY <1>0, <1>5 DEF ThreadFits, CapabilitiesAreGranted, Granted
  <1>7. InPlace("approve")'
    BY <1>0, <1>2, <1>4 DEF InPlace, Invoking, Hooked
  <1>8. Entitled("approve")'
    BY <1>0, <1>2, <1>4, <1>5 DEF Entitled
  <1> QED
    BY <1>0, <1>3, <1>4, <1>5, <1>6, <1>7, <1>8, TurnTaken

LEMMA DecideKeepsGrant ==
  ASSUME Typed, GrantInv, Decide
  PROVE  GrantInv'
PROOF
  <1>0. /\ TypeOK /\ UNCHANGED <<thread, rows, shown, budget>>
        /\ inv["approve"].pc = "decide" /\ "approve" \in Caller /\ Fresh.capabilities = FALSE
    BY DEF Typed, Decide, Caller, Fresh
  <1>1. /\ inv["approve"] # Idle /\ InPlace("approve") /\ Entitled("approve")
        /\ Unhurried /\ RunFits /\ ThreadFits
    BY <1>0, TurnOf
  <1>2. proj.state = "awaiting-plan-approval" /\ shown = "plan-approval"
    BY <1>0, <1>1 DEF InPlace, Entitled
  <1>3. /\ Append("plan_approved") /\ Renews({runRecord})
        /\ ResumeBy("approve", inv["approve"].home, "approval")
    BY <1>2 DEF Decide
  <1>4. /\ \A d \in Caller \ {"approve"} : inv'[d] = inv[d]
        /\ inv'["approve"].pc = "begin" /\ inv'["approve"].in = Fresh
        /\ inv'["approve"].answer = "approval" /\ ~inv'["approve"].starts
    BY <1>0, <1>3, ResumeEffect
  <1>5. proj'.state = "awaiting-permission"
    <2>1. \A to : <<"awaiting-plan-approval", "plan_approved", to>> \in transitions
            => to = "awaiting-permission"
      BY DEF transitions, openTransitions, closedTransitions
    <2> QED
      BY <1>0, <1>2, <1>3, <2>1, EventsFit, AfterTyped DEF TypeOK, Append
  <1>6. ~Granted /\ ~Granted' /\ ~Ended
    BY <1>1, <1>2, <1>3 DEF RunFits, Granted, Append, Ended
  <1>7. Unhurried' /\ RunFits' /\ ThreadFits'
    BY <1>0, <1>1, <1>5, <1>6, HurryKept
    DEF RunFits, ThreadFits, CapabilitiesAreGranted, Granted
  <1>8. InPlace("approve")'
    BY <1>0, <1>4 DEF InPlace, Invoking, Hooked, Approvers
  <1>9. Entitled("approve")'
    <2>1. runRecord \notin old'
      BY <1>3 DEF Renews
    <2>2. ~Awaited'
      BY <1>0, <1>2, <1>5, <2>1 DEF Awaited
    <2>3. thread'.at \in {planApproval, prepareNode}
      BY <1>0, <1>1, <1>2 DEF ThreadFits
    <2> QED
      BY <1>0, <1>4, <1>5, <2>2, <2>3 DEF Entitled
  <1> QED
    BY <1>0, <1>1, <1>4, <1>7, <1>8, <1>9, TurnKept

\* The grant is asked for once everybody rests at the permission boundary.
LEMMA GrantKeepsGrant ==
  ASSUME Typed, GrantInv, NEW home \in Api, Grant(home)
  PROVE  GrantInv'
PROOF
  <1>0. /\ TypeOK /\ UNCHANGED <<thread, rows, shown>> /\ proj.state = "awaiting-permission"
        /\ Append("permission_granted") /\ ResumeBy("grant", home, "approval")
        /\ "grant" \in Caller /\ "approve" \in Caller /\ Fresh.capabilities = FALSE
        /\ Unhurried /\ RunFits /\ ThreadFits
    BY DEF Typed, Grant, Caller, GrantInv, Fresh
  <1>1. ~Spend("haste")
    BY <1>0, NothingToSpend
  <1>2. shown = "browser-permission" /\ UNCHANGED budget
    BY <1>1 DEF Grant, InTime
  <1>3. Resting(Caller)
    <2>1. inv["approve"].pc # "decide"
      BY <1>0, TurnOf DEF Entitled
    <2> QED
      BY <1>0, <1>2, <2>1, AwaitedRests DEF Awaited
  <1>4. /\ \A d \in Caller \ {"grant"} : inv'[d] = inv[d]
        /\ inv'["grant"].pc = "begin" /\ inv'["grant"].in = Fresh
        /\ inv'["grant"].answer = "approval" /\ ~inv'["grant"].starts
    BY <1>0, ResumeEffect
  <1>5. proj'.state = "queued"
    <2>1. \A to : <<"awaiting-permission", "permission_granted", to>> \in transitions => to = "queued"
      BY DEF transitions, openTransitions, closedTransitions
    <2> QED
      BY <1>0, <2>1, EventsFit, AfterTyped DEF TypeOK, Append
  <1>6. Granted'
    BY <1>0 DEF Append, Granted
  <1>7. Unhurried' /\ RunFits' /\ ThreadFits'
    BY <1>0, <1>2, <1>5, <1>6, HurryKept DEF RunFits, ThreadFits, CapabilitiesAreGranted, Granted
  <1>8. InPlace("grant")' /\ Entitled("grant")'
    BY <1>0, <1>4, <1>5, <1>6 DEF InPlace, Entitled, Invoking, Hooked, Approvers, Awaited
  <1> QED
    BY <1>0, <1>3, <1>4, <1>7, <1>8, TurnTaken

LEMMA RecoverKeepsGrant ==
  ASSUME Typed, GrantInv, RecoverStep
  PROVE  GrantInv'
PROOF
  <1>0. /\ TypeOK /\ RunUntouched /\ UNCHANGED <<thread, rows, shown, budget>>
        /\ "recover" \in Caller /\ "approve" \in Caller /\ Fresh.capabilities = FALSE
        /\ Unhurried /\ RunFits /\ ThreadFits
    BY DEF Typed, RecoverStep, ClaimStalledApproval, CheckStalledApproval, Caller, GrantInv, Fresh
  <1>1. Unhurried' /\ RunFits' /\ (Granted' <=> Granted) /\ proj' = proj /\ (Ended' <=> Ended)
    BY <1>0, HurryKept, RunKept DEF RunUntouched, Ended
  <1>2. ThreadFits'
    BY <1>0, <1>1 DEF ThreadFits, CapabilitiesAreGranted, Granted
  <1>3. CASE \E home \in Process : ClaimStalledApproval(home)
    <2>1. PICK home \in Process : ClaimStalledApproval(home)
      BY <1>3
    <2>2. /\ proj.state = "awaiting-permission" /\ shown = "plan-approval"
          /\ {runRecord, graphRecord} \subseteq old /\ graphRecord \notin old'
      BY <2>1 DEF ClaimStalledApproval, Renews
    <2>3. Resting(Caller)
      <3>1. inv["approve"].pc # "decide"
        BY <1>0, <2>2, TurnOf DEF Entitled
      <3> QED
        BY <2>2, <3>1, AwaitedRests DEF Awaited
    <2>4. /\ \A d \in Caller \ {"recover"} : inv'[d] = inv[d]
          /\ inv'["recover"].pc = "check" /\ inv'["recover"].in = Fresh
          /\ inv'["recover"].answer = "none" /\ ~inv'["recover"].starts
      BY <1>0, <2>1, WaitEffect DEF ClaimStalledApproval
    <2>5. InPlace("recover")' /\ Entitled("recover")'
      <3>1. ~Awaited'
        BY <1>0, <1>1, <2>2 DEF Awaited
      <3> QED
        BY <1>0, <1>1, <2>2, <2>4, <3>1 DEF InPlace, Entitled, Invoking, Hooked
    <2> QED
      BY <1>0, <1>1, <1>2, <2>3, <2>4, <2>5, TurnTaken
  <1>4. CASE CheckStalledApproval
    <2>1. inv["recover"].pc = "check" /\ UNCHANGED old
      BY <1>4 DEF CheckStalledApproval
    <2>2. inv["recover"] # Idle /\ InPlace("recover") /\ Entitled("recover")
      BY <1>0, <2>1, TurnOf
    <2>3. CASE ResumeBy("recover", inv["recover"].home, "approval")
      <3>1. /\ \A d \in Caller \ {"recover"} : inv'[d] = inv[d]
            /\ inv'["recover"].pc = "begin" /\ inv'["recover"].in = Fresh
            /\ inv'["recover"].answer = "approval" /\ ~inv'["recover"].starts
        BY <1>0, <2>3, ResumeEffect
      <3>2. thread'.at \in {planApproval, prepareNode}
        BY <1>0, <2>1, <2>2 DEF InPlace, ThreadFits
      <3>3. ~Awaited' /\ proj'.state = "awaiting-permission"
        BY <1>0, <1>1, <2>1, <2>2 DEF Entitled, Awaited, Approvers
      <3>4. InPlace("recover")' /\ Entitled("recover")'
        BY <1>0, <3>1, <3>2, <3>3 DEF InPlace, Entitled, Invoking, Hooked, Approvers
      <3> QED
        BY <1>0, <1>1, <1>2, <2>2, <3>1, <3>4, TurnKept
    <2>4. CASE inv' = [inv EXCEPT !["recover"] = Idle]
      <3>1. inv'["recover"] = Idle /\ \A d \in Caller \ {"recover"} : inv'[d] = inv[d]
        BY <1>0, <2>4 DEF TypeOK
      <3> QED
        BY <1>0, <1>1, <1>2, <2>2, <3>1, TurnKept
    <2> QED
      BY <1>4, <2>3, <2>4 DEF CheckStalledApproval
  <1> QED
    BY <1>3, <1>4 DEF RecoverStep

LEMMA WorkerKeepsGrant ==
  ASSUME Typed, GrantInv, WorkerStep
  PROVE  GrantInv'
PROOF
  <1>0. /\ TypeOK /\ UNCHANGED <<thread, rows, shown>> /\ inv["worker"].pc = "idle"
        /\ Caller = {"post", "approve", "grant", "recover", "worker"} /\ Fresh.capabilities = FALSE
        /\ Unhurried /\ RunFits /\ ThreadFits
    BY DEF Typed, WorkerStep, Caller, GrantInv, Fresh
  <1>1. PICK type \in WorkerEvent :
          /\ CanTransition(proj.state, type)
          /\ Append(type)
          /\ IF type = "evidence_collecting"
               THEN /\ ResumeBy("worker", Background, "result")
                    /\ IF \A c \in {"post", "grant"} : inv[c].pc = "idle"
                         THEN UNCHANGED budget ELSE Spend("stalls")
               ELSE UNCHANGED <<inv, budget>>
    BY DEF WorkerStep
  <1>2. /\ proj.state \in {"queued", "preparing", "running"}
        /\ proj'.state \in {"preparing", "running", "collecting"}
    <2>1. ASSUME NEW from, NEW to, <<from, type, to>> \in transitions
          PROVE  /\ from \in {"queued", "preparing", "running"}
                 /\ to \in {"preparing", "running", "collecting"}
      BY <2>1 DEF transitions, openTransitions, closedTransitions, WorkerEvent
    <2>2. PICK to \in RunState : <<proj.state, type, to>> \in transitions
      BY <1>1 DEF CanTransition
    <2>3. type \in EventType /\ type # "run_resumed"
      BY EventsFit
    <2> QED
      BY <1>0, <1>1, <2>1, <2>2, <2>3, AfterTyped DEF TypeOK, Append
  <1>3. Granted /\ Granted'
    BY <1>0, <1>1, <1>2 DEF RunFits, Granted, Append
  <1>4. UNCHANGED budget
    <2>1. ~Spend("stalls")
      BY <1>0, NothingToSpend
    <2> QED
      BY <1>1, <2>1
  <1>5. Unhurried' /\ RunFits' /\ ThreadFits'
    BY <1>0, <1>2, <1>3, <1>4, HurryKept DEF RunFits, ThreadFits, CapabilitiesAreGranted, Granted
  <1>6. ~Awaited'
    BY <1>2 DEF Awaited
  <1>7. \A c \in Approvers : inv[c] = Idle
    BY <1>0, <1>2 DEF GrantInv, TakesTurn, Entitled, Approvers
  <1>8. CASE UNCHANGED inv
    <2>1. ASSUME NEW c \in Caller, inv[c] # Idle
          PROVE  InPlace(c)' /\ Entitled(c)'
      <3>1. InPlace(c) /\ Entitled(c)
        BY <2>1 DEF GrantInv, TakesTurn
      <3>2. inv[c].pc # "decide" /\ c \notin Approvers
        BY <1>2, <1>7, <2>1, <3>1 DEF Entitled
      <3> QED
        BY <1>0, <1>2, <1>3, <1>6, <1>8, <3>1, <3>2 DEF InPlace, Entitled, Ended
    <2>2. \A c \in Caller : TakesTurn(c)'
      BY <1>8, <2>1 DEF GrantInv, TakesTurn, Resting
    <2> QED
      BY <1>5, <2>2 DEF GrantInv
  <1>9. CASE ResumeBy("worker", Background, "result")
    <2>1. CASE \A c \in {"post", "grant"} : inv[c].pc = "idle"
      <3>1. Resting(Caller)
        <4>1. \A c \in Caller : inv[c].pc = "idle"
          BY <1>0, <1>7, <2>1 DEF Approvers, Idle
        <4> QED
          BY <4>1, AllRest
      <3>2. /\ \A d \in Caller \ {"worker"} : inv'[d] = inv[d]
            /\ inv'["worker"].pc = "begin" /\ inv'["worker"].in = Fresh
            /\ inv'["worker"].answer = "result" /\ ~inv'["worker"].starts
        BY <1>0, <1>9, ResumeEffect
      <3>3. InPlace("worker")' /\ Entitled("worker")'
        BY <1>0, <1>3, <1>6, <3>2 DEF InPlace, Entitled, Invoking, Hooked, Approvers
      <3> QED
        BY <1>0, <1>5, <3>1, <3>2, <3>3, TurnTaken
    <2>2. CASE ~\A c \in {"post", "grant"} : inv[c].pc = "idle"
      <3>1. ~Spend("stalls")
        BY <1>0, NothingToSpend
      <3>2. UNCHANGED inv
        BY <1>1, <2>2, <3>1
      <3> QED
        BY <1>8, <3>2
    <2> QED
      BY <2>1, <2>2
  <1> QED
    BY <1>1, <1>8, <1>9

\* Time and death take nobody's turn.
LEMMA TimeKeepsGrant ==
  ASSUME Typed, GrantInv, Age \/ \E p \in Process : Crash(p)
  PROVE  GrantInv'
PROOF
  <1>0. /\ TypeOK /\ RunUntouched /\ UNCHANGED <<thread, rows, shown>>
        /\ Unhurried /\ RunFits /\ ThreadFits
    BY DEF Typed, Age, Crash, GrantInv
  <1>1. ~Spend("stalls")
    BY <1>0, NothingToSpend
  <1>2. UNCHANGED budget \/ Spend("crashes")
    BY <1>1 DEF Age, Crash
  <1>3. Unhurried' /\ RunFits' /\ (Granted' <=> Granted) /\ proj' = proj /\ (Ended' <=> Ended)
    BY <1>0, <1>2, HurryKept, RunKept DEF RunUntouched, Ended
  <1>4. ThreadFits'
    BY <1>0, <1>3 DEF ThreadFits, CapabilitiesAreGranted, Granted
  <1>5. CASE Age
    <2>1. UNCHANGED inv /\ \A c \in Caller : inv[c].pc \in {"idle", "operate"}
      BY <1>1, <1>5 DEF Age
    <2>2. ASSUME NEW c \in Caller, inv'[c] # Idle
          PROVE  (InPlace(c) /\ Entitled(c) /\ Resting(Caller \ {c}))'
      <3>1. InPlace(c) /\ Entitled(c) /\ Resting(Caller \ {c}) /\ inv[c].pc = "operate"
        BY <2>1, <2>2 DEF GrantInv, TakesTurn, InPlace
      <3>2. InPlace(c)' /\ Resting(Caller \ {c})'
        BY <1>0, <2>1, <3>1 DEF InPlace, Resting
      <3>3. ~Awaited'
        BY <1>0, <3>1 DEF InPlace, Hooked, Awaited
      <3> QED
        BY <1>0, <1>3, <2>1, <3>1, <3>2, <3>3 DEF Entitled
    <2>3. \A c \in Caller : TakesTurn(c)'
      BY <2>2 DEF TakesTurn
    <2> QED
      BY <1>3, <1>4, <2>3 DEF GrantInv
  <1>6. CASE \E p \in Process : Crash(p)
    <2>1. UNCHANGED old /\ \A c \in Caller : inv'[c] = Idle \/ inv'[c] = inv[c]
      BY <1>6 DEF Crash
    <2>2. ASSUME NEW c \in Caller, inv'[c] # Idle
          PROVE  (InPlace(c) /\ Entitled(c) /\ Resting(Caller \ {c}))'
      <3>1. inv'[c] = inv[c] /\ InPlace(c) /\ Entitled(c) /\ Resting(Caller \ {c})
        BY <2>1, <2>2 DEF GrantInv, TakesTurn
      <3>2. InPlace(c)' /\ Resting(Caller \ {c})'
        BY <1>0, <1>3, <2>1, <3>1 DEF InPlace, Resting
      <3>3. Awaited' <=> Awaited
        BY <1>0, <1>3, <2>1 DEF Awaited
      <3> QED
        BY <1>0, <1>3, <3>1, <3>2, <3>3 DEF Entitled
    <2>3. \A c \in Caller : TakesTurn(c)'
      BY <2>2 DEF TakesTurn
    <2> QED
      BY <1>3, <1>4, <2>3 DEF GrantInv
  <1> QED
    BY <1>5, <1>6

LEMMA InitGrant ==
  ASSUME MaxStalls = 0, MaxEarly = 0, MaxHaste = 0
  PROVE  Init => GrantInv
PROOF
  <1> SUFFICES ASSUME Init PROVE GrantInv
    OBVIOUS
  <1>1. PICK answer \in AnsweredWith : proj = answer[1] /\ events = {"run_created"} \cup answer[2]
    BY DEF Init
  <1>2. /\ inv = [c \in Caller |-> IF c = "post"
                    THEN [Idle EXCEPT !.pc = "begin", !.home = Origin, !.starts = TRUE,
                                      !.in = StartInput(proj.state)]
                    ELSE Idle]
        /\ thread = Fresh /\ rows = [row \in RowKey |-> "absent"] /\ shown = "absent"
    BY DEF Init
  <1>3. \/ proj.state = "planning" /\ ~Granted
        \/ proj.state = "queued" /\ Granted
        \/ proj.state \in {"awaiting-human-review", "blocked"} /\ ~Granted
    BY <1>1, AnswersStand DEF Granted
  <1>4. Unhurried
    BY DEF Init, FullBudget, Unhurried
  <1>5. proj.state \in {"awaiting-human-review", "blocked"} => Ended
    <2>1. \A r \in Position : <<planNode, r>> \in RowKey
      BY DEF RowKey, HookNode
    <2> QED
      BY <1>2, <2>1 DEF Ended, Fresh
  <1>6. Fresh.at = planNode /\ Fresh.capabilities = FALSE /\ planNode \notin {executeNode, gateNode}
    BY DEF Fresh, planNode, executeNode, gateNode
  <1>7. RunFits /\ ThreadFits
    BY <1>2, <1>3, <1>6 DEF RunFits, ThreadFits, CapabilitiesAreGranted
  <1> DEFINE input == StartInput(proj.state)
  <1>8. input.at = planNode /\ (input.capabilities => Granted \/ Ended)
    BY <1>3, <1>5 DEF StartInput, Fresh
  <1>9. /\ inv["post"].pc = "begin" /\ inv["post"].starts /\ inv["post"].in = input
        /\ inv["post"].answer = "none"
    BY <1>2 DEF Caller, Idle
  <1> HIDE DEF input
  <1>10. InPlace("post") /\ Entitled("post")
    BY <1>2, <1>8, <1>9 DEF InPlace, Entitled, Invoking, Hooked, Approvers, Awaited
  <1>11. Resting(Caller \ {"post"})
    BY <1>2 DEF Resting
  <1>12. \A c \in Caller : TakesTurn(c)
    BY <1>10, <1>11 DEF TakesTurn, Resting
  <1> QED
    BY <1>4, <1>7, <1>12 DEF GrantInv

LEMMA GrantKept ==
  ASSUME Typed, GrantInv, [Next]_vars
  PROVE  GrantInv'
PROOF
  <1>1. CASE UNCHANGED vars
    BY <1>1 DEF vars, GrantInv, Unhurried, RunFits, Granted, ThreadFits, CapabilitiesAreGranted, Ended,
                TakesTurn, Resting, InPlace, Entitled, Awaited, RowOf
  <1>2. ~Bootstrap
    BY NothingToSpend DEF Bootstrap, GrantInv
  <1>3. ASSUME NEW c \in Caller, InvocationStep(c) \/ OperationThrows(c)
        PROVE  GrantInv'
    BY <1>3, BeginKeepsGrant, EndKeepsGrant, AnswerKeepsGrant, ClaimKeepsGrant, OperateKeepsGrant,
       SettleKeepsGrant, LeaveHookKeepsGrant, BlockKeepsGrant
    DEF InvocationStep
  <1> QED
    BY <1>1, <1>2, <1>3, ApproveKeepsGrant, GrantKeepsGrant, DecideKeepsGrant, RecoverKeepsGrant,
       WorkerKeepsGrant, TimeKeepsGrant
    DEF Next

\* The graph passes the permission boundary only once the permission is granted,
\* whoever dies and whatever throws, as long as no process stalls past a grace period,
\* no plan is approved while it is made and no answer is given before the graph shows
\* that it waits for one.  graph_permission shows what the code does without the last.
THEOREM PermissionBoundaryHolds ==
  ASSUME MaxStalls = 0, MaxEarly = 0, MaxHaste = 0
  PROVE  Spec => []CapabilitiesAreGranted
PROOF
  <1>1. GrantInv => CapabilitiesAreGranted
    BY DEF GrantInv, ThreadFits
  <1>2. Init => Typed /\ GrantInv
    BY InitTyped, InitGrant
  <1>3. Typed /\ GrantInv /\ [Next]_vars => (Typed /\ GrantInv)'
    BY TypedKept, GrantKept
  <1> QED
    BY <1>1, <1>2, <1>3, PTL DEF Spec
=============================================================================
