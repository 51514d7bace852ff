-------------------------- MODULE MCRunEventStore ---------------------------
(***************************************************************************)
(* Instances of RunEventStore for TLC.                                     *)
(***************************************************************************)
EXTENDS RunEventStore, TLC

C == INSTANCE RunCallers

CONSTANTS a1, c1, c2, r1, r2, k1, k2

Attempts == {a1}
Clients  == {c1, c2}
OneClient == {c1}
Runs     == {r1, r2}
OneRun   == {r1}
Keys     == {k1, k2}
OneKey   == {k1}

\* The clients run the same code, and no property names one.
ClientSymmetry == Permutations(Clients)

\* Creation and two kinds of conclusion, of two runs whose callers compete for
\* two keys.
RaceRequests ==
  { C!Ask("run_created"), C!ParentConclusion("pass", "pass") }
  \cup C!BlockRequests

\* One run through its whole life, with a request of every phase.
LifecycleRequests ==
  { [type |-> "run_created", payload |-> [NoPayload EXCEPT !.kind = k]] :
      k \in {"path", "dynamic-path"} }
  \cup
  { C!Ask("plan_generated"), C!Ask("plan_approved"), C!Ask("permission_granted"),
    C!Ask("run_paused"), C!Ask("run_resumed"), C!Ask("run_cancelled") }
  \cup C!WorkerRequests(Attempts, {1})
  \cup C!JudgingRequests({"pass"})
  \cup C!FinalizeRequests({"pass"}, {"pass", "needs-human-review"})
  \cup C!RetryRequests \cup C!BlockRequests
  \cup { [type |-> "decision_overridden", payload |-> [NoPayload EXCEPT !.decision = "approved"]] }

\* A reviewed run, and the repair plan route beside it.
RepairPlanRequests ==
  { [type |-> "run_created", payload |-> [NoPayload EXCEPT !.kind = "path"]],
    C!Ask("plan_generated"), C!Ask("plan_approved"), C!Ask("permission_granted") }
  \cup C!WorkerRequests(Attempts, {1})
  \cup C!JudgingRequests({"pass"})
  \cup C!FinalizeRequests({"pass"}, {"pass", "needs-human-review"})
  \cup C!RepairPlanRequests

(***************************************************************************)
(* One run of TLC looks at two parts of the system: two clients that race  *)
(* for two runs with two keys, and one client that takes one run through   *)
(* its whole life.                                                         *)
(***************************************************************************)
VARIABLE alone    \* the client that has the store for itself, or None: a race

StoreRequests == RaceRequests \cup LifecycleRequests
RaceEvents == 4

MayBegin(c) ==
  IF alone = None
    THEN EventCount + Cardinality({d \in Client : pc[d] # "idle"}) < RaceEvents
    ELSE c = alone

Permitted(c) ==
  LET asked == [type |-> call'[c].type, payload |-> call'[c].payload]
  IN  IF alone = None
        THEN asked \in RaceRequests
        ELSE /\ call'[c].run = r1
             /\ call'[c].op = "system" \/ call'[c].key = k1
             /\ asked \in LifecycleRequests

PartsInit == Init /\ alone \in Client \cup {None}

PartsNext == \E c \in Client :
  \/ MayBegin(c) /\ CreateBegin(c) /\ Permitted(c) /\ UNCHANGED alone
  \/ MayBegin(c) /\ AppendBegin(c) /\ Permitted(c) /\ UNCHANGED alone
  \/ MayBegin(c) /\ SystemBegin(c) /\ Permitted(c) /\ UNCHANGED alone
  \/ CreateCheck(c) /\ UNCHANGED alone
  \/ CreateInsert(c) /\ UNCHANGED alone
  \/ LookupKey(c) /\ UNCHANGED alone
  \/ LockedAppend(c) /\ UNCHANGED alone

SoleSpec == (Init /\ alone \in Client) /\ [][Next /\ UNCHANGED alone]_<<vars, alone>>

PartsSpec == PartsInit /\ [][PartsNext]_<<vars, alone>>
=============================================================================
