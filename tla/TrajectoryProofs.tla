-------------------------- MODULE TrajectoryProofs --------------------------
(***************************************************************************)
(* What the trajectory store guarantees for any number of processes, runs, *)
(* keys, emissions and restarts.                                           *)
(*                                                                         *)
(* The argument: the i-th row of a run has seq i, and the run's lock lets  *)
(* one append at a time be open for it, so the number and the key that an  *)
(* append has read are still free when it commits.  Every committed row    *)
(* takes the next number of the root it is filed under.                    *)
(***************************************************************************)
EXTENDS Trajectory, SequenceTheorems, FiniteSetTheorems, TLAPS

\* The rows of a run are numbered from 1.
RowsNumbered ==
  \A r \in TreeRun : \A i \in DOMAIN trajectory[r] : trajectory[r][i].seq = i

\* No two processes have an append open for the same run.
OneOpenAppend ==
  \A p, q \in Emitter, r \in TreeRun :
    appending[p][r] # NoAppend /\ appending[q][r] # NoAppend => p = q

\* The rows filed under a root are finitely many.
FiledIsFinite == \A root \in TreeRun : IsFiniteSet(Filed(root))

TrajectoryInv ==
  /\ TrajectoryTypeOK
  /\ RowsNumbered /\ OneOpenAppend /\ OpenAppendIsNotRefused
  /\ FiledIsFinite /\ RootNumbersAreDense

LEMMA TrajectoryInitially == TrajectoryInit => TrajectoryInv
PROOF
  <1> SUFFICES ASSUME TrajectoryInit PROVE TrajectoryInv
    OBVIOUS
  <1> USE DEF TrajectoryInit
  <1>1. TrajectoryTypeOK
    <2>1. NothingKnown \in [{} -> TreeRun]
      BY DEF NothingKnown
    <2>2. runRoots \in [Emitter -> UNION {[S -> TreeRun] : S \in SUBSET TreeRun}]
      BY <2>1
    <2> QED
      BY <2>2, TrajectoryAssumption DEF TrajectoryTypeOK, NothingWaiting, NothingOpen
  <1>2. \A r \in TreeRun : DOMAIN trajectory[r] = {}
    OBVIOUS
  <1>3. \A root \in TreeRun : Filed(root) = {}
    BY <1>2 DEF Filed
  <1>4. RowsNumbered
    BY <1>2 DEF RowsNumbered
  <1>5. OneOpenAppend /\ OpenAppendIsNotRefused
    BY DEF OneOpenAppend, OpenAppendIsNotRefused, NothingOpen
  <1>6. FiledIsFinite /\ RootNumbersAreDense
    <2>1. IsFiniteSet({}) /\ Cardinality({}) = 0
      BY FS_EmptySet
    <2>2. 1 .. 0 = {}
      OBVIOUS
    <2> QED
      BY <1>3, <2>1, <2>2 DEF FiledIsFinite, RootNumbersAreDense
  <1> QED
    BY <1>1, <1>4, <1>5, <1>6 DEF TrajectoryInv

\* What does not touch the rows keeps what the invariant says of them.
LEMMA RowsUntouched ==
  ASSUME TrajectoryInv, UNCHANGED <<trajectory, rootCount>>
  PROVE  RowsNumbered' /\ FiledIsFinite' /\ RootNumbersAreDense'
PROOF
  <1>1. \A root \in TreeRun : Filed(root)' = Filed(root)
    BY DEF Filed
  <1> QED
    BY <1>1 DEF TrajectoryInv, RowsNumbered, FiledIsFinite, RootNumbersAreDense

\* The effect of a commit on the rows of its run and of the others.
LEMMA RowAdded ==
  ASSUME TrajectoryInv, NEW p \in Emitter, NEW r \in TreeRun, appending[p][r] # NoAppend,
         NEW row \in Stored, row.seq = Len(trajectory[r]) + 1,
         trajectory' = [trajectory EXCEPT ![r] = Append(@, row)]
  PROVE  LET n == Len(trajectory[r]) + 1
         IN  /\ trajectory' \in [TreeRun -> Seq(Stored)]
             /\ DOMAIN trajectory'[r] = DOMAIN trajectory[r] \cup {n}
             /\ n \notin DOMAIN trajectory[r]
             /\ trajectory'[r][n] = row
             /\ \A i \in DOMAIN trajectory[r] : trajectory'[r][i] = trajectory[r][i]
             /\ \A s \in TreeRun : s # r => trajectory'[s] = trajectory[s]
             /\ RowsNumbered'
PROOF
  <1> DEFINE n == Len(trajectory[r]) + 1
  <1>1. trajectory \in [TreeRun -> Seq(Stored)]
    BY DEF TrajectoryInv, TrajectoryTypeOK
  <1>2. trajectory[r] \in Seq(Stored) /\ DOMAIN trajectory[r] = 1 .. Len(trajectory[r])
    BY <1>1, LenProperties
  <1>3. trajectory'[r] = Append(trajectory[r], row)
    BY <1>1
  <1>4. trajectory'[r] \in Seq(Stored) /\ DOMAIN trajectory'[r] = 1 .. n
    BY <1>2, <1>3, AppendProperties
  <1>5. /\ trajectory'[r][n] = row
        /\ \A i \in DOMAIN trajectory[r] : trajectory'[r][i] = trajectory[r][i]
    BY <1>2, <1>3
  <1>6. \A s \in TreeRun : s # r => trajectory'[s] = trajectory[s]
    BY <1>1
  <1>7. DOMAIN trajectory'[r] = DOMAIN trajectory[r] \cup {n} /\ n \notin DOMAIN trajectory[r]
    BY <1>2, <1>4
  <1>8. trajectory' \in [TreeRun -> Seq(Stored)]
    BY <1>1, <1>2, AppendProperties
  <1>9. RowsNumbered'
    <2> SUFFICES ASSUME NEW s \in TreeRun, NEW i \in DOMAIN trajectory'[s]
                 PROVE  trajectory'[s][i].seq = i
      BY DEF RowsNumbered
    <2>1. CASE s = r /\ i = n
      BY <1>5, <2>1
    <2>2. CASE s = r /\ i # n
      BY <1>5, <1>7, <2>2 DEF TrajectoryInv, RowsNumbered
    <2>3. CASE s # r
      BY <1>6, <2>3 DEF TrajectoryInv, RowsNumbered
    <2> QED
      BY <2>1, <2>2, <2>3
  <1> QED
    BY <1>5, <1>6, <1>7, <1>8, <1>9

\* A committed row takes the next number of the root it is filed under.
LEMMA RowCounted ==
  ASSUME TrajectoryInv, NEW p \in Emitter, NEW r \in TreeRun, appending[p][r] # NoAppend,
         NEW root \in TreeRun, NEW row \in Stored,
         row.seq = Len(trajectory[r]) + 1, row.root = root, row.rootSeq = rootCount[root] + 1,
         trajectory' = [trajectory EXCEPT ![r] = Append(@, row)],
         rootCount' = [rootCount EXCEPT ![root] = @ + 1]
  PROVE  FiledIsFinite' /\ RootNumbersAreDense'
PROOF
  <1> DEFINE n == Len(trajectory[r]) + 1
  <1>1. /\ DOMAIN trajectory'[r] = DOMAIN trajectory[r] \cup {n}
        /\ n \notin DOMAIN trajectory[r]
        /\ trajectory'[r][n] = row
        /\ \A i \in DOMAIN trajectory[r] : trajectory'[r][i] = trajectory[r][i]
        /\ \A s \in TreeRun : s # r => trajectory'[s] = trajectory[s]
    BY RowAdded, ZenonT(60)
  <1> HIDE DEF n
  <1>2. ASSUME NEW other \in TreeRun, other # root
        PROVE  /\ Filed(other)' = Filed(other)
               /\ rootCount'[other] = rootCount[other]
               /\ {trajectory'[e[1]][e[2]].rootSeq : e \in Filed(other)'}
                    = {trajectory[e[1]][e[2]].rootSeq : e \in Filed(other)}
    <2>1. Filed(other)' = Filed(other)
      BY <1>1, <1>2 DEF Filed
    <2>2. \A e \in Filed(other) : trajectory'[e[1]][e[2]] = trajectory[e[1]][e[2]]
      BY <1>1 DEF Filed
    <2>3. rootCount'[other] = rootCount[other]
      BY <1>2 DEF TrajectoryInv, TrajectoryTypeOK
    <2>4. {trajectory'[e[1]][e[2]].rootSeq : e \in Filed(other)}
            = {trajectory[e[1]][e[2]].rootSeq : e \in Filed(other)}
      BY <2>2
    <2> QED
      BY <2>1, <2>3, <2>4
  <1>3. Filed(root)' = Filed(root) \cup {<<r, n>>} /\ <<r, n>> \notin Filed(root)
    BY <1>1 DEF Filed
  <1>4. IsFiniteSet(Filed(root)) /\ Cardinality(Filed(root)) = rootCount[root]
        /\ rootCount[root] \in Nat /\ rootCount'[root] = rootCount[root] + 1
    BY DEF TrajectoryInv, FiledIsFinite, RootNumbersAreDense, TrajectoryTypeOK
  <1>5. IsFiniteSet(Filed(root)') /\ Cardinality(Filed(root)') = rootCount'[root]
    <2>1. /\ IsFiniteSet(Filed(root) \cup {<<r, n>>})
          /\ Cardinality(Filed(root) \cup {<<r, n>>}) = Cardinality(Filed(root)) + 1
      BY <1>3, <1>4, FS_AddElement
    <2> QED
      BY <1>3, <1>4, <2>1
  <1>6. {trajectory'[e[1]][e[2]].rootSeq : e \in Filed(root)'} = 1 .. rootCount'[root]
    <2>1. \A e \in Filed(root) : trajectory'[e[1]][e[2]] = trajectory[e[1]][e[2]]
      BY <1>1 DEF Filed
    <2>2. trajectory'[r][n].rootSeq = rootCount[root] + 1
      BY <1>1
    <2>3. {trajectory[e[1]][e[2]].rootSeq : e \in Filed(root)} = 1 .. rootCount[root]
      BY DEF TrajectoryInv, RootNumbersAreDense
    <2>4. {trajectory'[e[1]][e[2]].rootSeq : e \in Filed(root)'}
            = {trajectory[e[1]][e[2]].rootSeq : e \in Filed(root)} \cup {rootCount[root] + 1}
      <3>1. {trajectory'[e[1]][e[2]].rootSeq : e \in Filed(root) \cup {<<r, n>>}}
              = {trajectory'[e[1]][e[2]].rootSeq : e \in Filed(root)} \cup {trajectory'[r][n].rootSeq}
        <4> DEFINE new == <<r, n>>
        <4>1. new[1] = r /\ new[2] = n
          OBVIOUS
        <4> HIDE DEF new
        <4>2. {trajectory'[e[1]][e[2]].rootSeq : e \in Filed(root) \cup {new}}
                = {trajectory'[e[1]][e[2]].rootSeq : e \in Filed(root)}
                    \cup {trajectory'[new[1]][new[2]].rootSeq}
          OBVIOUS
        <4> QED
          BY <4>1, <4>2 DEF new
      <3>2. {trajectory'[e[1]][e[2]].rootSeq : e \in Filed(root)}
              = {trajectory[e[1]][e[2]].rootSeq : e \in Filed(root)}
        BY <2>1
      <3> QED
        BY <1>3, <2>2, <3>1, <3>2
    <2>5. 1 .. rootCount[root] + 1 = (1 .. rootCount[root]) \cup {rootCount[root] + 1}
      BY <1>4
    <2> QED
      BY <1>4, <2>3, <2>4, <2>5
  <1>7. FiledIsFinite'
    BY <1>2, <1>5 DEF FiledIsFinite, TrajectoryInv
  <1>8. RootNumbersAreDense'
    BY <1>2, <1>5, <1>6 DEF RootNumbersAreDense, TrajectoryInv
  <1> QED
    BY <1>7, <1>8

LEMMA EmitStep ==
  ASSUME TrajectoryInv, NEW p \in Emitter, NEW r \in TreeRun, Emit(p, r)
  PROVE  TrajectoryInv'
PROOF
  <1>1. UNCHANGED <<trajectory, rootCount, runRoots, appending, restarts>>
    BY DEF Emit
  <1>2. TrajectoryTypeOK'
    <2>1. emissions' \in 0 .. MaxTrajectory
      BY TrajectoryAssumption DEF Emit, TrajectoryInv, TrajectoryTypeOK
    <2>2. PICK e \in Emission : waiting' = [waiting EXCEPT ![p][r] = Append(@, e)]
      BY DEF Emit
    <2>3. waiting[p][r] \in Seq(Emission)
      BY DEF TrajectoryInv, TrajectoryTypeOK
    <2>4. Append(waiting[p][r], e) \in Seq(Emission)
      BY <2>3, AppendProperties
    <2>5. waiting' \in [Emitter -> [TreeRun -> Seq(Emission)]]
      BY <2>2, <2>4 DEF TrajectoryInv, TrajectoryTypeOK
    <2> QED
      BY <1>1, <2>1, <2>5 DEF TrajectoryInv, TrajectoryTypeOK
  <1>3. OneOpenAppend' /\ OpenAppendIsNotRefused'
    BY <1>1 DEF TrajectoryInv, OneOpenAppend, OpenAppendIsNotRefused, Refused, Keys
  <1> QED
    BY <1>1, <1>2, <1>3, RowsUntouched DEF TrajectoryInv

LEMMA BeginStep ==
  ASSUME TrajectoryInv, NEW p \in Emitter, NEW r \in TreeRun, BeginAppend(p, r)
  PROVE  TrajectoryInv'
PROOF
  <1> DEFINE e == Head(waiting[p][r])
             root == RootNamed(p, r, e.kind)
             tx == [key |-> e.key, seq |-> Len(trajectory[r]) + 1, root |-> root]
  <1>1. /\ ~LockedByAnother(r, p, r) /\ appending[p][r] = NoAppend /\ waiting[p][r] # <<>>
        /\ waiting' = [waiting EXCEPT ![p][r] = Tail(@)]
        /\ runRoots' = [runRoots EXCEPT ![p] =
             [s \in DOMAIN @ \cup {r} |-> IF s = r THEN root ELSE @[s]]]
        /\ IF e.key \in Keys(r) THEN UNCHANGED appending
           ELSE appending' = [appending EXCEPT ![p][r] = tx]
        /\ UNCHANGED <<trajectory, rootCount, emissions, restarts>>
    BY DEF BeginAppend, Open
  <1>2. /\ trajectory[r] \in Seq(Stored) /\ waiting[p][r] \in Seq(Emission)
        /\ DOMAIN runRoots[p] \subseteq TreeRun /\ runRoots[p] \in [DOMAIN runRoots[p] -> TreeRun]
    BY DEF TrajectoryInv, TrajectoryTypeOK
  <1>3. e \in Emission /\ Tail(waiting[p][r]) \in Seq(Emission)
    BY <1>1, <1>2, HeadTailProperties
  <1>4. root \in TreeRun
    BY <1>2, <1>3, TrajectoryAssumption DEF RootNamed, Emission, EmissionKind
  <1>5. tx \in OpenAppend
    BY <1>2, <1>3, <1>4, LenProperties DEF OpenAppend, Emission
  <1> HIDE DEF e, root, tx
  <1>6. TrajectoryTypeOK'
    <2>1. waiting' \in [Emitter -> [TreeRun -> Seq(Emission)]]
      BY <1>1, <1>3 DEF TrajectoryInv, TrajectoryTypeOK
    <2>2. runRoots' \in [Emitter -> UNION {[S -> TreeRun] : S \in SUBSET TreeRun}]
      <3> DEFINE known == [s \in DOMAIN runRoots[p] \cup {r} |-> IF s = r THEN root ELSE runRoots[p][s]]
      <3>1. known \in [DOMAIN runRoots[p] \cup {r} -> TreeRun]
        BY <1>2, <1>4
      <3>2. known \in UNION {[S -> TreeRun] : S \in SUBSET TreeRun}
        BY <1>2, <3>1
      <3>3. runRoots' = [runRoots EXCEPT ![p] = known]
        BY <1>1
      <3> HIDE DEF known
      <3> QED
        BY <3>2, <3>3 DEF TrajectoryInv, TrajectoryTypeOK
    <2>3. appending' \in [Emitter -> [TreeRun -> OpenAppend \cup {NoAppend}]]
      <3>1. CASE UNCHANGED appending
        BY <3>1 DEF TrajectoryInv, TrajectoryTypeOK
      <3>2. CASE appending' = [appending EXCEPT ![p][r] = tx]
        BY <1>5, <3>2 DEF TrajectoryInv, TrajectoryTypeOK
      <3> QED
        BY <1>1, <3>1, <3>2
    <2> QED
      BY <1>1, <2>1, <2>2, <2>3 DEF TrajectoryInv, TrajectoryTypeOK
  <1>7. \A q \in Emitter, s \in TreeRun :
          <<q, s>> # <<p, r>> => appending'[q][s] = appending[q][s]
    BY <1>1 DEF TrajectoryInv, TrajectoryTypeOK
  <1>8. \A q \in Emitter : q # p => appending[q][r] = NoAppend
    BY <1>1 DEF LockedByAnother
  <1>9. OneOpenAppend'
    BY <1>7, <1>8 DEF TrajectoryInv, OneOpenAppend
  <1>10. OpenAppendIsNotRefused'
    <2> SUFFICES ASSUME NEW q \in Emitter, NEW s \in TreeRun, appending'[q][s] # NoAppend
                 PROVE  /\ ~Refused(s, appending'[q][s])
                        /\ appending'[q][s].seq = Len(trajectory[s]) + 1
      BY <1>1 DEF OpenAppendIsNotRefused, Refused, Keys
    <2>1. CASE <<q, s>> # <<p, r>>
      BY <1>7, <2>1 DEF TrajectoryInv, OpenAppendIsNotRefused
    <2>2. CASE q = p /\ s = r
      <3>1. appending'[p][r] = tx /\ e.key \notin Keys(r)
        BY <1>1, <2>2 DEF TrajectoryInv, TrajectoryTypeOK
      <3>2. tx.key = e.key /\ tx.seq = Len(trajectory[r]) + 1
        BY DEF tx
      <3>3. tx.seq \notin {trajectory[r][i].seq : i \in DOMAIN trajectory[r]}
        BY <1>2, <3>2, LenProperties DEF TrajectoryInv, RowsNumbered
      <3> QED
        BY <2>2, <3>1, <3>2, <3>3 DEF Refused
    <2> QED
      BY <2>1, <2>2
  <1> QED
    BY <1>1, <1>6, <1>9, <1>10, RowsUntouched DEF TrajectoryInv

LEMMA CommitStep ==
  ASSUME TrajectoryInv, NEW p \in Emitter, NEW r \in TreeRun, CommitAppend(p, r)
  PROVE  TrajectoryInv'
PROOF
  <1> DEFINE tx == appending[p][r]
             row == Row(tx, rootCount[tx.root] + 1)
  <1>1. tx # NoAppend /\ tx \in OpenAppend /\ trajectory[r] \in Seq(Stored)
    BY DEF CommitAppend, TrajectoryInv, TrajectoryTypeOK
  <1>2. ~Refused(r, tx) /\ tx.seq = Len(trajectory[r]) + 1
    BY <1>1 DEF TrajectoryInv, OpenAppendIsNotRefused
  <1>3. /\ rootCount' = [rootCount EXCEPT ![tx.root] = @ + 1]
        /\ trajectory' = [trajectory EXCEPT ![r] = Append(@, row)]
        /\ appending' = [appending EXCEPT ![p][r] = NoAppend]
        /\ UNCHANGED <<waiting, runRoots, emissions, restarts>>
    BY <1>2 DEF CommitAppend
  <1>4. /\ tx.root \in TreeRun /\ rootCount[tx.root] \in Nat
        /\ row \in Stored /\ row.seq = Len(trajectory[r]) + 1
        /\ row.root = tx.root /\ row.rootSeq = rootCount[tx.root] + 1
    BY <1>1, <1>2 DEF TrajectoryInv, TrajectoryTypeOK, OpenAppend, Stored, Row
  <1> HIDE DEF tx, row
  <1>5. /\ trajectory' \in [TreeRun -> Seq(Stored)] /\ RowsNumbered'
        /\ \A s \in TreeRun : s # r => trajectory'[s] = trajectory[s]
    BY <1>1, <1>3, <1>4, RowAdded DEF tx
  <1>6. FiledIsFinite' /\ RootNumbersAreDense'
    BY <1>1, <1>3, <1>4, RowCounted DEF tx
  <1>7. /\ appending' \in [Emitter -> [TreeRun -> OpenAppend \cup {NoAppend}]]
        /\ appending'[p][r] = NoAppend
        /\ \A q \in Emitter, s \in TreeRun :
             <<q, s>> # <<p, r>> => appending'[q][s] = appending[q][s]
    BY <1>3 DEF TrajectoryInv, TrajectoryTypeOK
  <1>8. TrajectoryTypeOK'
    BY <1>3, <1>4, <1>5, <1>7, SMTT(40) DEF TrajectoryInv, TrajectoryTypeOK
  <1>9. OneOpenAppend'
    BY <1>7 DEF TrajectoryInv, OneOpenAppend
  <1>10. OpenAppendIsNotRefused'
    <2> SUFFICES ASSUME NEW q \in Emitter, NEW s \in TreeRun, appending'[q][s] # NoAppend
                 PROVE  /\ ~Refused(s, appending[q][s])'
                        /\ appending'[q][s].seq = Len(trajectory'[s]) + 1
      BY DEF OpenAppendIsNotRefused
    <2>1. <<q, s>> # <<p, r>> /\ appending[q][s] = appending'[q][s]
      BY <1>7
    <2>2. s # r
      BY <1>1, <2>1 DEF TrajectoryInv, OneOpenAppend, tx
    <2> QED
      BY <1>5, <2>1, <2>2, SMTT(40) DEF TrajectoryInv, OpenAppendIsNotRefused, Refused, Keys
  <1> QED
    BY <1>5, <1>6, <1>8, <1>9, <1>10 DEF TrajectoryInv

LEMMA RestartStep ==
  ASSUME TrajectoryInv, NEW p \in Emitter, Restart(p)
  PROVE  TrajectoryInv'
PROOF
  <1>1. /\ appending' = [appending EXCEPT ![p] = NothingOpen]
        /\ UNCHANGED <<trajectory, rootCount, emissions>>
    BY DEF Restart
  <1>2. TrajectoryTypeOK'
    <2>1. NothingKnown \in [{} -> TreeRun]
      BY DEF NothingKnown
    <2>2. runRoots' \in [Emitter -> UNION {[S -> TreeRun] : S \in SUBSET TreeRun}]
      BY <2>1 DEF Restart, TrajectoryInv, TrajectoryTypeOK
    <2>3. waiting' \in [Emitter -> [TreeRun -> Seq(Emission)]]
      BY DEF Restart, TrajectoryInv, TrajectoryTypeOK, NothingWaiting
    <2>4. appending' \in [Emitter -> [TreeRun -> OpenAppend \cup {NoAppend}]]
      BY <1>1 DEF TrajectoryInv, TrajectoryTypeOK, NothingOpen
    <2>5. restarts' \in 0 .. MaxRestarts
      BY TrajectoryAssumption DEF Restart, TrajectoryInv, TrajectoryTypeOK
    <2> QED
      BY <1>1, <2>2, <2>3, <2>4, <2>5 DEF TrajectoryInv, TrajectoryTypeOK
  <1>3. \A q \in Emitter, s \in TreeRun :
          appending'[q][s] # NoAppend => appending'[q][s] = appending[q][s]
    BY <1>1 DEF TrajectoryInv, TrajectoryTypeOK, NothingOpen
  <1>4. OneOpenAppend' /\ OpenAppendIsNotRefused'
    BY <1>1, <1>3 DEF TrajectoryInv, OneOpenAppend, OpenAppendIsNotRefused, Refused, Keys
  <1> QED
    BY <1>1, <1>2, <1>4, RowsUntouched DEF TrajectoryInv

LEMMA TrajectoryStep == TrajectoryInv /\ [TrajectoryNext]_trajectoryVars => TrajectoryInv'
PROOF
  <1> SUFFICES ASSUME TrajectoryInv, [TrajectoryNext]_trajectoryVars PROVE TrajectoryInv'
    OBVIOUS
  <1>1. CASE UNCHANGED trajectoryVars
    <2>1. UNCHANGED <<trajectory, rootCount, waiting, runRoots, appending, emissions, restarts>>
      BY <1>1 DEF trajectoryVars
    <2> QED
      BY <2>1, RowsUntouched
      DEF TrajectoryInv, TrajectoryTypeOK, OneOpenAppend, OpenAppendIsNotRefused, Refused, Keys
  <1> QED
    BY <1>1, EmitStep, BeginStep, CommitStep, RestartStep DEF TrajectoryNext

LEMMA TrajectoryInvariant == TrajectorySpec => []TrajectoryInv
  BY TrajectoryInitially, TrajectoryStep, PTL DEF TrajectorySpec

\* Every variable of the trajectory has its type.
THEOREM TrajectoryTypeCorrect == TrajectorySpec => []TrajectoryTypeOK
  BY TrajectoryInvariant, PTL DEF TrajectoryInv

\* Whatever processes emit, append and restart, nothing takes the number or the
\* key of an open append (PostgresTrajectoryEventStore.append).
THEOREM OpenAppendIsSafe == TrajectorySpec => []OpenAppendIsNotRefused
  BY TrajectoryInvariant, PTL DEF TrajectoryInv

\* The events filed under a root are numbered 1, 2, 3 ... without a gap and
\* without a number given twice, over all its runs.
THEOREM RootSequenceIsDense == TrajectorySpec => []RootNumbersAreDense
  BY TrajectoryInvariant, PTL DEF TrajectoryInv

(***************************************************************************)
(* Where an event may be filed.  A process remembers for a run the root of *)
(* its creation or, after a transition, the run itself; nothing else ever  *)
(* names a root.                                                           *)
(***************************************************************************)
Home(r) == {CreationRoot[r], r}

FiledAtHome == \A r \in TreeRun : \A i \in DOMAIN trajectory[r] : trajectory[r][i].root \in Home(r)

HomeInv ==
  /\ FiledAtHome
  /\ \A p \in Emitter : \A r \in DOMAIN runRoots[p] : runRoots[p][r] \in Home(r)
  /\ \A p \in Emitter, r \in TreeRun :
       appending[p][r] # NoAppend => appending[p][r].root \in Home(r)

LEMMA HomeInitially == TrajectoryInit => HomeInv
  BY DEF TrajectoryInit, HomeInv, FiledAtHome, NothingKnown, NothingOpen

LEMMA BeginKeepsHome ==
  ASSUME TrajectoryTypeOK, HomeInv, NEW p \in Emitter, NEW r \in TreeRun, BeginAppend(p, r)
  PROVE  HomeInv'
PROOF
  <1> DEFINE e == Head(waiting[p][r])
             root == RootNamed(p, r, e.kind)
             tx == [key |-> e.key, seq |-> Len(trajectory[r]) + 1, root |-> root]
             known == [s \in DOMAIN runRoots[p] \cup {r} |-> IF s = r THEN root ELSE runRoots[p][s]]
  <1>1. /\ waiting[p][r] # <<>>
        /\ runRoots' = [runRoots EXCEPT ![p] = known]
        /\ appending' = appending \/ appending' = [appending EXCEPT ![p][r] = tx]
        /\ UNCHANGED trajectory
    BY DEF BeginAppend, Open
  <1>2. e \in Emission
    BY <1>1, HeadTailProperties DEF TrajectoryTypeOK
  <1>3. root \in Home(r)
    BY <1>2 DEF HomeInv, RootNamed, Home, Emission, EmissionKind
  <1>4. tx.root = root
    OBVIOUS
  <1>5. DOMAIN known = DOMAIN runRoots[p] \cup {r} /\ \A s \in DOMAIN known : known[s] \in Home(s)
    BY <1>3 DEF HomeInv
  <1> HIDE DEF e, root, tx, known
  <1>6. \A q \in Emitter : \A s \in DOMAIN runRoots'[q] : runRoots'[q][s] \in Home(s)
    BY <1>1, <1>5 DEF HomeInv, TrajectoryTypeOK
  <1>7. \A q \in Emitter, s \in TreeRun :
          appending'[q][s] # NoAppend => appending'[q][s].root \in Home(s)
    <2>1. CASE appending' = appending
      BY <2>1 DEF HomeInv
    <2>2. CASE appending' = [appending EXCEPT ![p][r] = tx]
      <3>1. appending'[p][r] = tx
        BY <2>2 DEF TrajectoryTypeOK
      <3>2. \A q \in Emitter, s \in TreeRun :
              <<q, s>> # <<p, r>> => appending'[q][s] = appending[q][s]
        BY <2>2 DEF TrajectoryTypeOK
      <3> QED
        BY <1>3, <1>4, <3>1, <3>2 DEF HomeInv
    <2> QED
      BY <1>1, <2>1, <2>2
  <1> QED
    BY <1>1, <1>6, <1>7 DEF HomeInv, FiledAtHome, Home

LEMMA CommitKeepsHome ==
  ASSUME TrajectoryTypeOK, HomeInv, NEW p \in Emitter, NEW r \in TreeRun, CommitAppend(p, r)
  PROVE  HomeInv'
PROOF
  <1> DEFINE tx == appending[p][r]
             row == Row(tx, rootCount[tx.root] + 1)
  <1>1. /\ tx # NoAppend
        /\ trajectory' = trajectory \/ trajectory' = [trajectory EXCEPT ![r] = Append(@, row)]
        /\ appending' = [appending EXCEPT ![p][r] = NoAppend]
        /\ UNCHANGED runRoots
    BY DEF CommitAppend
  <1>2. row.root \in Home(r)
    BY <1>1 DEF HomeInv, Row
  <1> HIDE DEF row
  <1>3. FiledAtHome'
    <2> SUFFICES ASSUME NEW s \in TreeRun, NEW i \in DOMAIN trajectory'[s]
                 PROVE  trajectory'[s][i].root \in Home(s)
      BY DEF FiledAtHome, Home
    <2>1. CASE trajectory'[s] = trajectory[s]
      BY <2>1 DEF HomeInv, FiledAtHome
    <2>2. CASE s = r /\ trajectory'[r] = Append(trajectory[r], row)
      <3>1. trajectory[r] \in Seq(Stored)
        BY DEF TrajectoryTypeOK
      <3>2. CASE i \in DOMAIN trajectory[r]
        BY <2>2, <3>1, <3>2 DEF HomeInv, FiledAtHome
      <3>3. CASE i \notin DOMAIN trajectory[r]
        <4>1. i = Len(trajectory[r]) + 1 /\ trajectory'[s][i] = row
          BY <2>2, <3>1, <3>3
        <4> QED
          BY <1>2, <2>2, <4>1
      <3> QED
        BY <3>2, <3>3
    <2> QED
      BY <1>1, <2>1, <2>2 DEF TrajectoryTypeOK
  <1>4. \A q \in Emitter, s \in TreeRun :
          appending'[q][s] # NoAppend => appending'[q][s] = appending[q][s]
    BY <1>1 DEF TrajectoryTypeOK
  <1> QED
    BY <1>1, <1>3, <1>4 DEF HomeInv, Home

LEMMA RestartKeepsHome ==
  ASSUME TrajectoryTypeOK, HomeInv, NEW p \in Emitter, Restart(p)
  PROVE  HomeInv'
  BY DEF Restart, HomeInv, FiledAtHome, Home, TrajectoryTypeOK, NothingKnown, NothingOpen

LEMMA HomeKept == TrajectoryTypeOK /\ HomeInv /\ [TrajectoryNext]_trajectoryVars => HomeInv'
PROOF
  <1> SUFFICES ASSUME TrajectoryTypeOK, HomeInv, [TrajectoryNext]_trajectoryVars PROVE HomeInv'
    OBVIOUS
  <1>1. CASE UNCHANGED <<trajectory, runRoots, appending>>
    BY <1>1 DEF HomeInv, FiledAtHome, Home
  <1> QED
    BY <1>1, BeginKeepsHome, CommitKeepsHome, RestartKeepsHome
    DEF TrajectoryNext, Emit, trajectoryVars

\* What a creation names is of the family of the run: FiledAtHome keeps every
\* event in the tree of its run.
FiledInItsTree ==
  \A r \in TreeRun : \A i \in DOMAIN trajectory[r] : TreeRoot[trajectory[r][i].root] = TreeRoot[r]

\* An event is filed under what the creation of its run named or under its own
\* run, never under another (so what scope=tree misses of a run, trajectory_tree,
\* is with the parent that the creation named or with the run), and never under
\* a run of another tree (emitOne and what it remembers in runRoots).
THEOREM EventsAreFiledAtHome == TrajectorySpec => [](FiledAtHome /\ FiledInItsTree)
PROOF
  <1>1. TrajectorySpec => []HomeInv
    <2>1. TrajectoryInv => TrajectoryTypeOK
      BY DEF TrajectoryInv
    <2> QED
      BY <2>1, TrajectoryInvariant, HomeInitially, HomeKept, PTL DEF TrajectorySpec
  <1>2. HomeInv => FiledAtHome /\ FiledInItsTree
    BY TrajectoryAssumption DEF HomeInv, FiledAtHome, FiledInItsTree, Home
  <1> QED
    BY <1>1, <1>2, PTL
=============================================================================
