--------------------------- MODULE RunEventStore ----------------------------
(***************************************************************************)
(* agent/src/runEventStore.ts, the PostgreSQL store: per run an append-    *)
(* only event log, the materialized row of run_projections, and the        *)
(* execution rows of event_outbox_v1 written in the same transaction.      *)
(*                                                                         *)
(* Callers run concurrently.  append() looks the idempotency key up before *)
(* it locks the run's row, so the two are separate steps; from the row     *)
(* lock to COMMIT no other caller can touch the run, so the rest is one.   *)
(* A unique index on the key is all that orders callers of different runs. *)
(*                                                                         *)
(* `get` replays the log.  A log entry here keeps, beside the event, the   *)
(* projection replay gives through it; ReplayAgrees shows that this memo   *)
(* is what replayRunEvents computes.                                       *)
(***************************************************************************)
EXTENDS RunLifecycle, Sequences, FiniteSets

CONSTANTS
  Run,          \* run ids
  Client,       \* concurrent callers of the store
  UserKey,      \* idempotency keys chosen by HTTP callers
  Request,      \* what callers may ask: [type, payload] records
  MaxEvents     \* bound: events in all the logs together

ASSUME ConstantsOK ==
  /\ MaxEvents \in Nat
  /\ Request \subseteq [type : EventType, payload : Payload]

VARIABLES
  log,      \* log[r]: sequence of [event, after]
  row,      \* row[r]: run_projections, DraftRun when there is none
  outbox,   \* rows <<run, version>> of topic run.execute
  pc,       \* pc[c]: where the call of c stands
  call,     \* call[c]: the arguments of the call
  reply     \* reply[c]: how the last call of c ended

vars == <<log, row, outbox, pc, call, reply>>

AppendAttempts == 4    \* appendSystemRunEvent's bound on re-reads

NoCall  == [op |-> "none"]
NoReply == [kind |-> "none"]

\* appendSystemRunEvent derives its key from what it read.
SystemKey(r, type, version) == <<r, type, version>>

Created(r) == log[r] # <<>>

\* replayRunEvents of the whole log, and through the i-th event.
Through(r, i) == IF i = 0 THEN DraftRun ELSE log[r][i].after
Current(r) == Through(r, Len(log[r]))

KeyAt(r, i, key) == i \in DOMAIN log[r] /\ log[r][i].event.key = key
KeyUsed(key) == \E r \in Run : \E i \in DOMAIN log[r] : log[r][i].event.key = key

(***************************************************************************)
(* Ends of a call.                                                         *)
(***************************************************************************)
Return(c, answer) ==
  /\ pc' = [pc EXCEPT ![c] = "idle"]
  /\ call' = [call EXCEPT ![c] = NoCall]
  /\ reply' = [reply EXCEPT ![c] = answer]

\* Mutant: the row of the projection is saved before the event is applied.
CommitSavesRowBefore(r, type, key, pay) ==
  LET after == applyEvent(Current(r), type, pay)
      event == [type |-> type, key |-> key, payload |-> pay, version |-> after.version]
  IN  /\ log' = [log EXCEPT ![r] = Append(@, [event |-> event, after |-> after])]
      /\ row' = [row EXCEPT ![r] = Current(r)]
      /\ outbox' = IF Dispatches(after, type)
                     THEN outbox \cup {<<r, after.version>>}
                     ELSE outbox

\* The event, the row and the outbox row of one transaction.
Commit(r, type, key, pay) ==
  LET after == applyEvent(Current(r), type, pay)
      event == [type |-> type, key |-> key, payload |-> pay, version |-> after.version]
  IN  /\ log' = [log EXCEPT ![r] = Append(@, [event |-> event, after |-> after])]
      /\ row' = [row EXCEPT ![r] = after]
      /\ outbox' = IF Dispatches(after, type)
                     THEN outbox \cup {<<r, after.version>>}
                     ELSE outbox

NothingWritten == UNCHANGED <<log, row, outbox>>

\* Bound of the instance: calls begin only while every call in flight may commit.
EventCount == Cardinality(UNION {{r} \X DOMAIN log[r] : r \in Run})
Room == EventCount + Cardinality({c \in Client : pc[c] # "idle"}) < MaxEvents

(***************************************************************************)
(* create(): returns the run if it is there, or the run the key made.      *)
(***************************************************************************)
CreateBegin(c) ==
  /\ pc[c] = "idle" /\ Room
  /\ \E r \in Run, key \in UserKey, q \in Request :
       /\ q.type = "run_created"
       /\ call' = [call EXCEPT ![c] =
            [op |-> "create", run |-> r, type |-> q.type, expected |-> 0, key |-> key,
             payload |-> q.payload, tries |-> 1]]
  /\ pc' = [pc EXCEPT ![c] = "create"]
  /\ UNCHANGED reply
  /\ NothingWritten

\* get(runId), then the lookup of the key.
CreateCheck(c) ==
  /\ pc[c] = "create"
  /\ \/ /\ Created(call[c].run) \/ KeyUsed(call[c].key)
        /\ Return(c, [kind |-> "existing"])
     \/ /\ ~Created(call[c].run) /\ ~KeyUsed(call[c].key)
        /\ pc' = [pc EXCEPT ![c] = "insert"]
        /\ UNCHANGED <<call, reply>>
  /\ NothingWritten

\* Mutant: the insert of a new run does not meet the unique key.
InsertMeetsRunOnly(c) ==
  /\ pc[c] = "insert"
  /\ IF Created(call[c].run)
       THEN NothingWritten /\ Return(c, [kind |-> "unique_violation"])
       ELSE /\ Commit(call[c].run, "run_created", call[c].key, call[c].payload)
            /\ Return(c, [kind |-> "committed"])

\* The insert; a caller that lost the race meets a unique index and throws.
CreateInsert(c) ==
  /\ pc[c] = "insert"
  /\ IF Created(call[c].run) \/ KeyUsed(call[c].key)
       THEN NothingWritten /\ Return(c, [kind |-> "unique_violation"])
       ELSE /\ Commit(call[c].run, "run_created", call[c].key, call[c].payload)
            /\ Return(c, [kind |-> "committed"])

(***************************************************************************)
(* append() and appendSystemRunEvent().                                    *)
(***************************************************************************)
\* A caller that states the version it has seen, which may be any so far.
AppendBegin(c) ==
  /\ pc[c] = "idle" /\ Room
  /\ \E r \in Run, key \in UserKey, q \in Request :
       /\ q.type # "run_created"
       /\ \E expected \in 1 .. Len(log[r]) + 1 :
            call' = [call EXCEPT ![c] =
              [op |-> "append", run |-> r, type |-> q.type, expected |-> expected,
               key |-> key, payload |-> q.payload, tries |-> 1]]
  /\ pc' = [pc EXCEPT ![c] = "lookup"]
  /\ UNCHANGED reply
  /\ NothingWritten

\* appendSystemRunEvent reads the run and derives version and key from it.
SystemCall(r, q, tries) ==
  [op |-> "system", run |-> r, type |-> q.type, expected |-> Len(log[r]),
   key |-> SystemKey(r, q.type, Len(log[r]) + 1), payload |-> q.payload, tries |-> tries]

SystemBegin(c) ==
  /\ pc[c] = "idle" /\ Room
  /\ \E r \in Run, q \in Request :
       /\ q.type # "run_created"
       /\ Created(r)
       /\ call' = [call EXCEPT ![c] = SystemCall(r, q, 1)]
  /\ pc' = [pc EXCEPT ![c] = "lookup"]
  /\ UNCHANGED reply
  /\ NothingWritten

\* The key lookup, before any lock.  The key alone identifies the event: the
\* caller gets the projection as that event left it, of whichever run it is.
LookupKey(c) ==
  /\ pc[c] = "lookup"
  /\ \/ \E r \in Run : \E i \in DOMAIN log[r] :
          /\ log[r][i].event.key = call[c].key
          /\ Return(c, [kind |-> "replayed", view |-> Through(r, i)])
     \/ /\ ~KeyUsed(call[c].key)
        /\ pc' = [pc EXCEPT ![c] = "lock"]
        /\ UNCHANGED <<call, reply>>
  /\ NothingWritten

\* run_version_conflict: append() throws it; appendSystemRunEvent reads the run
\* again, derives version and key again, and gives up after its last attempt.
Conflict(c) ==
  IF call[c].op = "system" /\ call[c].tries < AppendAttempts
    THEN /\ pc' = [pc EXCEPT ![c] = "lookup"]
         /\ call' = [call EXCEPT ![c] = SystemCall(call[c].run, call[c], call[c].tries + 1)]
         /\ UNCHANGED reply
    ELSE Return(c, [kind |-> "conflict"])

\* Row lock, replay, version check, transition, inserts, COMMIT.
LockedAppend(c) ==
  LET r == call[c].run
      current == Current(r)
      ok == current.version = call[c].expected
      valid == CanTransition(current.state, call[c].type)
  IN  /\ pc[c] = "lock"
      /\ \/ ~Created(r) /\ Return(c, [kind |-> "run_not_found"]) /\ NothingWritten
         \/ Created(r) /\ ~ok /\ Conflict(c) /\ NothingWritten
         \/ Created(r) /\ ok /\ ~valid /\ Return(c, [kind |-> "invalid"]) /\ NothingWritten
         \/ /\ Created(r) /\ ok /\ valid /\ KeyUsed(call[c].key)
            /\ Return(c, [kind |-> "unique_violation"]) /\ NothingWritten
         \/ /\ Created(r) /\ ok /\ valid /\ ~KeyUsed(call[c].key)
            /\ Commit(r, call[c].type, call[c].key, call[c].payload)
            /\ Return(c, [kind |-> "committed"])

(***************************************************************************)
(* The specification.                                                      *)
(***************************************************************************)
Init ==
  /\ log = [r \in Run |-> <<>>]
  /\ row = [r \in Run |-> DraftRun]
  /\ outbox = {}
  /\ pc = [c \in Client |-> "idle"]
  /\ call = [c \in Client |-> NoCall]
  /\ reply = [c \in Client |-> NoReply]

Next == \E c \in Client :
  \/ CreateBegin(c) \/ CreateCheck(c) \/ CreateInsert(c)
  \/ AppendBegin(c) \/ SystemBegin(c) \/ LookupKey(c) \/ LockedAppend(c)

Spec == Init /\ [][Next]_vars

-----------------------------------------------------------------------------
(***************************************************************************)
(* Properties.                                                             *)
(***************************************************************************)
\* Every variable has its type.
Key   == UserKey \cup (Run \X EventType \X Nat)
Event == [type : EventType, key : Key, payload : Payload, version : Nat]
Entry == [event : Event, after : Projection]
Call  == [op : {"create", "append", "system"}, run : Run, type : EventType, expected : Nat,
          key : Key, payload : Payload, tries : Nat]

TypeOK ==
  /\ log \in [Run -> Seq(Entry)]
  /\ row \in [Run -> Projection]
  /\ outbox \subseteq Run \X Nat
  /\ pc \in [Client -> {"idle", "create", "insert", "lookup", "lock"}]
  /\ call \in [Client -> Call \cup {NoCall}]
  /\ \A c \in Client : pc[c] # "idle" => call[c] \in Call

\* Event sourcing: versions have no gap, each entry follows from the one before
\* it by a legal transition and the reducer, and the row other readers scan is
\* the projection of the log (replayRunEvents, append).
LogChained ==
  \A r \in Run :
    /\ row[r] = Current(r)
    /\ \A i \in DOMAIN log[r] :
         LET event == log[r][i].event
             before == Through(r, i - 1)
         IN  /\ event.version = i
             /\ log[r][i].after.version = i
             /\ CanTransition(before.state, event.type)
             /\ log[r][i].after = applyEvent(before, event.type, event.payload)

\* The projection replay computes from the events alone.
Replay(entries) ==
  LET through[i \in 0 .. Len(entries)] ==
        IF i = 0 THEN DraftRun
        ELSE applyEvent(through[i - 1], entries[i].event.type, entries[i].event.payload)
  IN  through[Len(entries)]

\* Rebuilding a run from its log gives what was materialized for it.
ReplayAgrees == \A r \in Run : row[r] = Replay(log[r])

\* An idempotency key commits at most one event, whichever runs its callers
\* name and however their lookups and commits interleave.
KeyCommitsOnce ==
  \A r, s \in Run : \A i \in DOMAIN log[r], j \in DOMAIN log[s] :
    log[r][i].event.key = log[s][j].event.key => r = s /\ i = j

\* Transactional outbox: whichever event put a run in the queue, a delivery of
\* exactly its present version has been promised, or no worker would take it.
QueuedRunIsDispatched ==
  \A r \in Run :
    /\ Current(r).state = "queued"
    /\ Current(r).kind # "dynamic-path"
    => <<r, Current(r).version>> \in outbox

\* A run that waits to be executed is owned by no attempt: whatever an earlier
\* attempt still sends cannot carry the attempt the projection expects.
UnboundState ==
  {"draft", "planning", "awaiting-plan-approval", "awaiting-permission",
   "queued", "preparing"}

WaitingRunHasNoOwner ==
  \A r \in Run : Current(r).state \in UnboundState => Current(r).attempt = None

ConclusionType ==
  {"run_completed", "run_failed", "run_blocked", "run_cancelled",
   "parent_aggregate_completed", "parent_aggregate_blocked"}

\* However many graphs, recoverers and people conclude a run at once, its log
\* holds at most one conclusion.
OneConclusion ==
  \A r \in Run : \A i, j \in DOMAIN log[r] :
    /\ log[r][i].event.type \in ConclusionType
    /\ log[r][j].event.type \in ConclusionType
    => i = j

\* "Never infer a pass during replay": a passing gate is traced to a conclusion
\* that says pass, or to a human override of a passing machine gate.
PassIsNeverInferred ==
  \A r \in Run : Current(r).gateStatus = "pass" =>
    \E i \in DOMAIN log[r] :
      \/ /\ log[r][i].event.type \in {"run_completed", "parent_aggregate_completed"}
         /\ log[r][i].event.payload.finalStatus = "pass"
      \/ /\ log[r][i].event.type = "decision_overridden"
         /\ log[r][i].after.machineGate = "pass"

\* Every run implements the abstract run.
Abstract(r) == INSTANCE AbstractRun WITH run <- Current(r)
ImplementsAbstractRun ==
  /\ \A r \in Run : Abstract(r)!Init
  /\ [][\A r \in Run : [Abstract(r)!Next]_(Current(r))]_vars

\* resolveFinalStatus: the review of a judged run becomes a pass only by a
\* decision that approves or accepts the risk.
ReviewPassesByApproval ==
  \A r \in Run : \A i \in DOMAIN log[r] :
    /\ log[r][i].event.type = "decision_overridden"
    /\ \E j \in 1 .. i : log[r][j].event.type = "run_judging"
    /\ Through(r, i - 1).gateStatus = "needs-human-review"
    /\ log[r][i].after.gateStatus = "pass"
    => log[r][i].event.payload.decision \in {"approved", "accepted-risk"}
=============================================================================
