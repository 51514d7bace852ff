----------------------------- MODULE Trajectory -----------------------------
(***************************************************************************)
(* The trajectory of a tree of runs: what the processes emit               *)
(* (trajectoryEmitter.ts), the events lifecycle transitions add to it      *)
(* (emitTrajectory in runEventStore.ts), and the numbers the PostgreSQL    *)
(* store gives them (trajectoryEventStore.ts): seq within the run, rootSeq *)
(* within the tree the event was filed under.                              *)
(***************************************************************************)
EXTENDS Integers, Sequences, FiniteSets

CONSTANTS
  Emitter,          \* the processes
  TreeRun,          \* the runs
  TreeRoot,         \* TreeRoot[r]: the run that r descends from, or r itself
  CreationRoot,     \* CreationRoot[r]: the run that the creation of r names as its root
  EventKey,         \* idempotency keys
  MaxTrajectory,    \* bound: emissions
  MaxRestarts,      \* bound: processes restarted
  NoAppend          \* no transaction is open

ASSUME TrajectoryAssumption ==
  /\ TreeRoot \in [TreeRun -> TreeRun]
  /\ CreationRoot \in [TreeRun -> TreeRun]
  /\ \A r \in TreeRun : TreeRoot[TreeRoot[r]] = TreeRoot[r] /\ TreeRoot[CreationRoot[r]] = TreeRoot[r]
  /\ MaxTrajectory \in Nat /\ MaxRestarts \in Nat

(***************************************************************************)
(* What names the root in an emission.  A creation and its link name       *)
(* CreationRoot: the root that the payload names (a child the coverage     *)
(* dispatch creates), else the payload's parent (a validation run, a side  *)
(* of a differential run), else the run.  A later transition names its own *)
(* run, and everything else (model calls, tools, evidence) names none.     *)
(***************************************************************************)
EmissionKind == {"creation", "transition", "telemetry"}
Emission == [kind : EmissionKind, key : EventKey]

VARIABLES
  trajectory,   \* trajectory[r]: the rows of trajectory_events of run r, in the order of commits
  rootCount,    \* rootCount[r]: trajectory_root_sequences, 0 without a row
  waiting,      \* waiting[p][r]: what process p has emitted for run r and not yet begun to store
  runRoots,     \* runRoots[p]: the roots process p remembers, a function on some of the runs
  appending,    \* appending[p][r]: the open transaction, or NoAppend
  emissions,    \* how much has been emitted
  restarts      \* what is left of the bound

trajectoryVars == <<trajectory, rootCount, waiting, runRoots, appending, emissions, restarts>>

Stored == [key : EventKey, seq : Nat, root : TreeRun, rootSeq : Nat]
OpenAppend == [key : EventKey, seq : Nat, root : TreeRun]

TrajectoryTypeOK ==
  /\ trajectory \in [TreeRun -> Seq(Stored)]
  /\ rootCount \in [TreeRun -> Nat]
  /\ waiting \in [Emitter -> [TreeRun -> Seq(Emission)]]
  /\ runRoots \in [Emitter -> UNION {[S -> TreeRun] : S \in SUBSET TreeRun}]
  /\ appending \in [Emitter -> [TreeRun -> OpenAppend \cup {NoAppend}]]
  /\ emissions \in 0 .. MaxTrajectory /\ restarts \in 0 .. MaxRestarts

NothingWaiting == [r \in TreeRun |-> <<>>]
NothingOpen == [r \in TreeRun |-> NoAppend]
NothingKnown == <<>>

TrajectoryInit ==
  /\ trajectory = [r \in TreeRun |-> <<>>]
  /\ rootCount = [r \in TreeRun |-> 0]
  /\ waiting = [p \in Emitter |-> NothingWaiting]
  /\ runRoots = [p \in Emitter |-> NothingKnown]
  /\ appending = [p \in Emitter |-> NothingOpen]
  /\ emissions = 0 /\ restarts = MaxRestarts

Keys(r) == {trajectory[r][i].key : i \in DOMAIN trajectory[r]}

\* emit: the process' queue of the run.  A run is created before anything else
\* is told of it.
Emit(p, r) ==
  /\ emissions < MaxTrajectory /\ emissions' = emissions + 1
  /\ \E e \in Emission :
       /\ e.kind # "creation" => trajectory[r] # <<>>
       /\ waiting' = [waiting EXCEPT ![p][r] = Append(@, e)]
  /\ UNCHANGED <<trajectory, rootCount, runRoots, appending, restarts>>

RootNamed(p, r, kind) ==
  CASE kind = "creation"   -> CreationRoot[r]
    [] kind = "transition" -> r
    [] kind = "telemetry"  -> IF r \in DOMAIN runRoots[p] THEN runRoots[p][r] ELSE r

\* pg_advisory_xact_lock of a run and of a root are the same lock.
LockedByAnother(name, p, r) ==
  \E q \in Emitter, s \in TreeRun : <<q, s>> # <<p, r>> /\ s = name /\ appending[q][s] # NoAppend

\* What emitOne remembers and, unless the key is stored, the transaction it
\* opens with the next seq of the run.
Open(p, r) ==
  LET e == Head(waiting[p][r])
      root == RootNamed(p, r, e.kind)
  IN /\ appending[p][r] = NoAppend /\ waiting[p][r] # <<>>
     /\ waiting' = [waiting EXCEPT ![p][r] = Tail(@)]
     /\ runRoots' = [runRoots EXCEPT ![p] = [s \in DOMAIN @ \cup {r} |-> IF s = r THEN root ELSE @[s]]]
     /\ IF e.key \in Keys(r) THEN UNCHANGED appending
        ELSE appending' = [appending EXCEPT ![p][r] =
               [key |-> e.key, seq |-> Len(trajectory[r]) + 1, root |-> root]]
     /\ UNCHANGED <<trajectory, rootCount, emissions, restarts>>

\* Mutant: the append does not take the run's lock.
BeginUnlocked(p, r) == Open(p, r)

BeginAppend(p, r) == ~LockedByAnother(r, p, r) /\ Open(p, r)

\* A row whose key or seq the run has already is refused by a unique index.
Refused(r, tx) == tx.key \in Keys(r) \/ tx.seq \in {trajectory[r][i].seq : i \in DOMAIN trajectory[r]}

Row(tx, n) == [key |-> tx.key, seq |-> tx.seq, root |-> tx.root, rootSeq |-> n]

\* Mutant: the counter of the run is advanced, not the root's.
CommitOwnCount(p, r) ==
  LET tx == appending[p][r]
  IN /\ tx # NoAppend /\ ~LockedByAnother(tx.root, p, r)
     /\ rootCount' = [rootCount EXCEPT ![r] = @ + 1]
     /\ trajectory' = [trajectory EXCEPT ![r] = Append(@, Row(tx, rootCount[r] + 1))]
     /\ appending' = [appending EXCEPT ![p][r] = NoAppend]
     /\ UNCHANGED <<waiting, runRoots, emissions, restarts>>

\* The root's lock is held from here to COMMIT.
CommitAppend(p, r) ==
  LET tx == appending[p][r]
  IN /\ tx # NoAppend /\ ~LockedByAnother(tx.root, p, r)
     /\ IF Refused(r, tx)
          THEN UNCHANGED <<trajectory, rootCount>>
          ELSE /\ rootCount' = [rootCount EXCEPT ![tx.root] = @ + 1]
               /\ trajectory' = [trajectory EXCEPT ![r] = Append(@, Row(tx, rootCount[tx.root] + 1))]
     /\ appending' = [appending EXCEPT ![p][r] = NoAppend]
     /\ UNCHANGED <<waiting, runRoots, emissions, restarts>>

\* An open transaction rolls back with its process, what waits and what is
\* remembered is gone.
Restart(p) ==
  /\ restarts > 0 /\ restarts' = restarts - 1
  /\ waiting' = [waiting EXCEPT ![p] = NothingWaiting]
  /\ runRoots' = [runRoots EXCEPT ![p] = NothingKnown]
  /\ appending' = [appending EXCEPT ![p] = NothingOpen]
  /\ UNCHANGED <<trajectory, rootCount, emissions>>

TrajectoryNext ==
  \E p \in Emitter :
    \/ Restart(p)
    \/ \E r \in TreeRun : Emit(p, r) \/ BeginAppend(p, r) \/ CommitAppend(p, r)

TrajectorySpec == TrajectoryInit /\ [][TrajectoryNext]_trajectoryVars

---------------------------------------------------------------------------
(* Properties *)

\* "Concurrent emitters cannot both claim the same sequence number": from the
\* moment an append has read the latest seq until it commits, nobody of any
\* process takes its number or its key, so nothing emitted is refused
\* (the locks of PostgresTrajectoryEventStore.append).
OpenAppendIsNotRefused ==
  \A p \in Emitter, r \in TreeRun :
    appending[p][r] # NoAppend =>
      ~Refused(r, appending[p][r]) /\ appending[p][r].seq = Len(trajectory[r]) + 1

Filed(root) ==
  UNION {{r} \X {i \in DOMAIN trajectory[r] : trajectory[r][i].root = root} : r \in TreeRun}

\* The events filed under a root are numbered 1, 2, 3 ... over all its runs, so
\* a cursor on rootSeq neither skips an event nor meets two with one number,
\* whatever processes append and restart.
RootNumbersAreDense ==
  \A root \in TreeRun :
    /\ rootCount[root] = Cardinality(Filed(root))
    /\ {trajectory[e[1]][e[2]].rootSeq : e \in Filed(root)} = 1 .. rootCount[root]

\* "scope=tree shows the root run and all its descendants": every event of a
\* run is filed under the run it descends from.
TreeShowsItsRuns ==
  \A r \in TreeRun : \A i \in DOMAIN trajectory[r] : trajectory[r][i].root = TreeRoot[r]
=============================================================================
