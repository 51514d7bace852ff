------------------------ MODULE RunEventStoreProofs -------------------------
(***************************************************************************)
(* What RunEventStore guarantees for every set of runs, callers, keys and  *)
(* requests.                                                               *)
(*                                                                         *)
(* Every step either leaves the logs alone or commits one event that is    *)
(* legal where its run stands, under a key no event has (StepOf).  With    *)
(* that, each invariant is a statement about one call of the reducer.      *)
(***************************************************************************)
EXTENDS RunEventStore, RunCallers, RunLifecycleProofs, SequenceTheorems, FiniteSetTheorems

(***************************************************************************)
(* A step of the store.                                                    *)
(***************************************************************************)
\* One event of run r becomes durable: it is legal where r stands, and no event
\* has its key yet.
Committed(r, type, key, pay) ==
  /\ r \in Run /\ type \in EventType /\ key \in Key /\ pay \in Payload
  /\ CanTransition(Current(r).state, type)
  /\ ~KeyUsed(key)
  /\ Commit(r, type, key, pay)

\* A create that writes commits the creation of its run.
LEMMA InsertCommits ==
  ASSUME TypeOK, NEW c \in Client, CreateInsert(c), ~NothingWritten
  PROVE  Committed(call[c].run, "run_created", call[c].key, call[c].payload)
PROOF
  <1>1. call[c] \in Call
    BY DEF TypeOK, CreateInsert
  <1>2. ~Created(call[c].run) /\ ~KeyUsed(call[c].key)
        /\ Commit(call[c].run, "run_created", call[c].key, call[c].payload)
    BY DEF CreateInsert
  <1>3. Len(log[call[c].run]) = 0
    BY <1>2 DEF Created
  <1>4. Current(call[c].run).state = "draft"
    BY <1>3 DEF Current, Through, DraftRun
  <1>5. <<"draft", "run_created", "planning">> \in transitions /\ "planning" \in RunState
    BY DEF transitions, openTransitions, RunState
  <1>6. CanTransition(Current(call[c].run).state, "run_created")
    BY <1>4, <1>5 DEF CanTransition
  <1> QED
    BY <1>1, <1>2, <1>6 DEF Committed, Call, EventType

\* An append that writes commits what it was called with.
LEMMA AppendCommits ==
  ASSUME TypeOK, NEW c \in Client, LockedAppend(c), ~NothingWritten
  PROVE  Committed(call[c].run, call[c].type, call[c].key, call[c].payload)
PROOF
  <1>1. call[c] \in Call
    BY DEF TypeOK, LockedAppend
  <1> QED
    BY <1>1 DEF Committed, Call, LockedAppend

\* Every step commits one event, or leaves the logs, rows and outbox alone.
LEMMA StepOf ==
  ASSUME ConstantsOK, TypeOK, [Next]_vars
  PROVE  \/ \E r, type, key, pay : Committed(r, type, key, pay)
         \/ NothingWritten
PROOF
  <1>1. CASE UNCHANGED vars
    BY <1>1 DEF vars, NothingWritten
  <1>2. ASSUME NEW c \in Client,
               \/ CreateBegin(c) \/ CreateCheck(c) \/ AppendBegin(c)
               \/ SystemBegin(c) \/ LookupKey(c)
        PROVE  NothingWritten
    BY <1>2 DEF CreateBegin, CreateCheck, AppendBegin, SystemBegin, LookupKey
  <1>3. ASSUME NEW c \in Client, CreateInsert(c) \/ LockedAppend(c), ~NothingWritten
        PROVE  \E r, type, key, pay : Committed(r, type, key, pay)
    BY <1>3, InsertCommits, AppendCommits
  <1> QED
    BY <1>1, <1>2, <1>3 DEF Next

\* What a commit does to its run and to the others.
LEMMA CommitEffect ==
  ASSUME TypeOK, NEW r, NEW type, NEW key, NEW pay, Committed(r, type, key, pay)
  PROVE  LET after == applyEvent(Current(r), type, pay)
             event == [type |-> type, key |-> key, payload |-> pay, version |-> after.version]
             n == Len(log[r]) + 1
         IN  /\ after \in Projection
             /\ log' \in [Run -> Seq(Entry)]
             /\ Len(log[r]) \in Nat /\ Len(log'[r]) = n
             /\ \A i \in 1 .. Len(log[r]) : log'[r][i] = log[r][i]
             /\ log'[r][n] = [event |-> event, after |-> after]
             /\ \A s \in Run : s # r => log'[s] = log[s]
             /\ row' = [row EXCEPT ![r] = after]
             /\ outbox' = IF Dispatches(after, type) THEN outbox \cup {<<r, after.version>>} ELSE outbox
PROOF
  <1> DEFINE after == applyEvent(Current(r), type, pay)
             event == [type |-> type, key |-> key, payload |-> pay, version |-> after.version]
             entry == [event |-> event, after |-> after]
  <1>1. r \in Run /\ log[r] \in Seq(Entry)
    BY DEF Committed, TypeOK
  <1>2. Len(log[r]) \in Nat /\ (Len(log[r]) # 0 => log[r][Len(log[r])] \in Entry)
    BY <1>1
  <1>3. Current(r) \in Projection
    BY <1>2, DraftTyped DEF Current, Through, Entry
  <1>4. after \in Projection
    BY <1>3, ApplyTyped DEF Committed
  <1>5. entry \in Entry
    BY <1>4 DEF Entry, Event, Projection, Committed
  <1>6. /\ log' = [log EXCEPT ![r] = Append(@, entry)]
        /\ row' = [row EXCEPT ![r] = after]
        /\ outbox' = IF Dispatches(after, type) THEN outbox \cup {<<r, after.version>>} ELSE outbox
    BY DEF Committed, Commit
  <1>7. /\ Append(log[r], entry) \in Seq(Entry)
        /\ Len(Append(log[r], entry)) = Len(log[r]) + 1
        /\ \A i \in 1 .. Len(log[r]) : Append(log[r], entry)[i] = log[r][i]
        /\ Append(log[r], entry)[Len(log[r]) + 1] = entry
    BY <1>1, <1>5, AppendProperties
  <1>8. log \in [Run -> Seq(Entry)]
    BY DEF TypeOK
  <1>9. log'[r] = Append(log[r], entry) /\ log' \in [Run -> Seq(Entry)]
        /\ \A s \in Run : s # r => log'[s] = log[s]
    BY <1>1, <1>6, <1>7, <1>8
  <1> HIDE DEF entry
  <1> QED
    BY <1>2, <1>4, <1>6, <1>7, <1>9 DEF entry

(***************************************************************************)
(* Type correctness.                                                       *)
(***************************************************************************)
\* Whatever a caller does next, its call keeps its type.
LEMMA CallsTyped ==
  ASSUME ConstantsOK, TypeOK, [Next]_vars
  PROVE  /\ pc' \in [Client -> {"idle", "create", "insert", "lookup", "lock"}]
         /\ call' \in [Client -> Call \cup {NoCall}]
         /\ \A c \in Client : pc'[c] # "idle" => call'[c] \in Call
PROOF
  <1> DEFINE Goal == /\ pc' \in [Client -> {"idle", "create", "insert", "lookup", "lock"}]
                     /\ call' \in [Client -> Call \cup {NoCall}]
                     /\ \A c \in Client : pc'[c] # "idle" => call'[c] \in Call
  <1>1. CASE UNCHANGED vars
    BY <1>1 DEF vars, TypeOK
  <1>2. ASSUME NEW c \in Client, NEW answer, Return(c, answer)
        PROVE  Goal
    BY <1>2 DEF Return, TypeOK
  <1>3. ASSUME NEW c \in Client, NEW at \in {"create", "insert", "lookup", "lock"},
               NEW new \in Call,
               pc' = [pc EXCEPT ![c] = at], call' = [call EXCEPT ![c] = new]
        PROVE  Goal
    BY <1>3 DEF TypeOK
  <1>4. ASSUME NEW r \in Run, NEW q, q.type \in EventType, q.payload \in Payload,
               NEW tries \in Nat
        PROVE  SystemCall(r, q, tries) \in Call
    <2>1. Len(log[r]) \in Nat
      BY DEF TypeOK
    <2>2. SystemKey(r, q.type, Len(log[r]) + 1) \in Key
      BY <1>4, <2>1 DEF SystemKey, Key
    <2> QED
      BY <1>4, <2>1, <2>2 DEF SystemCall, Call
  <1>5. ASSUME NEW c \in Client, pc[c] # "idle",
               NEW at \in {"create", "insert", "lookup", "lock"},
               pc' = [pc EXCEPT ![c] = at], UNCHANGED call
        PROVE  Goal
    BY <1>5 DEF TypeOK
  <1>6. ASSUME NEW c \in Client, CreateBegin(c)
        PROVE  Goal
    <2>1. PICK r \in Run, key \in UserKey, q \in Request :
            call' = [call EXCEPT ![c] =
              [op |-> "create", run |-> r, type |-> q.type, expected |-> 0, key |-> key,
               payload |-> q.payload, tries |-> 1]]
      BY <1>6 DEF CreateBegin
    <2>2. [op |-> "create", run |-> r, type |-> q.type, expected |-> 0, key |-> key,
           payload |-> q.payload, tries |-> 1] \in Call
      BY ConstantsOK DEF Call, Key, ConstantsOK
    <2> QED
      BY <1>3, <1>6, <2>1, <2>2 DEF CreateBegin
  <1>7. ASSUME NEW c \in Client, AppendBegin(c)
        PROVE  Goal
    <2>1. PICK r \in Run, key \in UserKey, q \in Request :
            \E expected \in 1 .. Len(log[r]) + 1 :
            call' = [call EXCEPT ![c] =
              [op |-> "append", run |-> r, type |-> q.type, expected |-> expected,
               key |-> key, payload |-> q.payload, tries |-> 1]]
      BY <1>7 DEF AppendBegin
    <2>2. PICK expected \in Nat :
            call' = [call EXCEPT ![c] =
              [op |-> "append", run |-> r, type |-> q.type, expected |-> expected,
               key |-> key, payload |-> q.payload, tries |-> 1]]
      <3>1. 1 .. Len(log[r]) + 1 \subseteq Nat
        BY DEF TypeOK
      <3> QED
        BY <2>1, <3>1, Zenon
    <2>3. [op |-> "append", run |-> r, type |-> q.type, expected |-> expected, key |-> key,
           payload |-> q.payload, tries |-> 1] \in Call
      BY <2>2, ConstantsOK DEF Call, Key, ConstantsOK
    <2> QED
      BY <1>3, <1>7, <2>2, <2>3 DEF AppendBegin
  <1>8. ASSUME NEW c \in Client, SystemBegin(c)
        PROVE  Goal
    <2>1. PICK r \in Run, q \in Request : call' = [call EXCEPT ![c] = SystemCall(r, q, 1)]
      BY <1>8 DEF SystemBegin
    <2>2. SystemCall(r, q, 1) \in Call
      BY <1>4, ConstantsOK DEF ConstantsOK
    <2> QED
      BY <1>3, <1>8, <2>1, <2>2 DEF SystemBegin
  <1>9. ASSUME NEW c \in Client, CreateCheck(c) \/ CreateInsert(c) \/ LookupKey(c)
        PROVE  Goal
    BY <1>2, <1>5, <1>9 DEF CreateCheck, CreateInsert, LookupKey
  <1>10. ASSUME NEW c \in Client, LockedAppend(c)
         PROVE  Goal
    <2>1. call[c] \in Call
      BY <1>10 DEF LockedAppend, TypeOK
    <2>2. CASE Conflict(c)
      <3>1. SystemCall(call[c].run, call[c], call[c].tries + 1) \in Call
        <4>1. /\ call[c].run \in Run /\ call[c].type \in EventType
              /\ call[c].payload \in Payload /\ call[c].tries + 1 \in Nat
          BY <2>1 DEF Call
        <4> QED
          BY <1>4, <4>1, Zenon
      <3> QED
        BY <1>2, <1>3, <2>2, <3>1 DEF Conflict
    <2> QED
      BY <1>2, <1>10, <2>2 DEF LockedAppend
  <1> QED
    BY <1>1, <1>6, <1>7, <1>8, <1>9, <1>10 DEF Next

\* Every variable of the store keeps its type, for any callers and requests.
THEOREM TypeCorrect == Spec => []TypeOK
PROOF
  <1>1. Init => TypeOK
    BY DraftTyped DEF Init, TypeOK
  <1>2. ConstantsOK /\ TypeOK /\ [Next]_vars => TypeOK'
    <2> SUFFICES ASSUME ConstantsOK, TypeOK, [Next]_vars PROVE TypeOK'
      OBVIOUS
    <2>1. (/\ log \in [Run -> Seq(Entry)]
           /\ row \in [Run -> Projection]
           /\ outbox \subseteq Run \X Nat)'
      <3>1. CASE NothingWritten
        BY <3>1 DEF NothingWritten, TypeOK
      <3>2. ASSUME NEW r, NEW type, NEW key, NEW pay, Committed(r, type, key, pay)
            PROVE  (/\ log \in [Run -> Seq(Entry)]
                    /\ row \in [Run -> Projection]
                    /\ outbox \subseteq Run \X Nat)'
        <4> DEFINE after == applyEvent(Current(r), type, pay)
        <4>1. /\ after \in Projection
              /\ log' \in [Run -> Seq(Entry)]
              /\ row' = [row EXCEPT ![r] = after]
              /\ outbox' = IF Dispatches(after, type) THEN outbox \cup {<<r, after.version>>} ELSE outbox
          BY <3>2, CommitEffect
        <4>2. r \in Run
          BY <3>2 DEF Committed
        <4>3. after.version \in Nat
          BY <4>1 DEF Projection
        <4> HIDE DEF after
        <4> QED
          BY <4>1, <4>2, <4>3 DEF TypeOK
      <3> QED
        BY <3>1, <3>2, StepOf
    <2> QED
      BY <2>1, CallsTyped DEF TypeOK
  <1> QED
    BY <1>1, <1>2, ConstantsOK, PTL DEF Spec

(***************************************************************************)
(* Logs, rows and keys.                                                    *)
(***************************************************************************)
\* A commit moves the present projection of its run by one call of the reducer
\* and nothing else: neither its past nor another run.
LEMMA CurrentEffect ==
  ASSUME TypeOK, NEW r, NEW type, NEW key, NEW pay, Committed(r, type, key, pay)
  PROVE  /\ r \in Run
         /\ Current(r) \in Projection
         /\ Current(r)' = applyEvent(Current(r), type, pay)
         /\ \A s \in Run : s # r => Current(s)' = Current(s)
         /\ \A i \in 0 .. Len(log[r]) : Through(r, i)' = Through(r, i)
PROOF
  <1> DEFINE after == applyEvent(Current(r), type, pay)
             event == [type |-> type, key |-> key, payload |-> pay, version |-> after.version]
  <1>1. r \in Run
    BY DEF Committed
  <1>2. Len(log[r]) \in Nat /\ (Len(log[r]) # 0 => log[r][Len(log[r])] \in Entry)
    BY <1>1 DEF TypeOK
  <1>3. Current(r) \in Projection
    BY <1>2, DraftTyped DEF Current, Through, Entry
  <1>4. /\ Len(log'[r]) = Len(log[r]) + 1
        /\ \A i \in 1 .. Len(log[r]) : log'[r][i] = log[r][i]
        /\ log'[r][Len(log[r]) + 1] = [event |-> event, after |-> after]
        /\ \A s \in Run : s # r => log'[s] = log[s]
    BY CommitEffect
  <1>5. Len(log'[r]) # 0 /\ log'[r][Len(log'[r])].after = after
    <2> HIDE DEF after, event
    <2> QED
      BY <1>2, <1>4
  <1>6. Current(r)' = after
    <2> HIDE DEF after
    <2> QED
      BY <1>5 DEF Current, Through
  <1>7. \A s \in Run : s # r => Current(s)' = Current(s)
    BY <1>4 DEF Current, Through
  <1>8. \A i \in 0 .. Len(log[r]) : Through(r, i)' = Through(r, i)
    BY <1>2, <1>4 DEF Through
  <1> QED
    BY <1>1, <1>3, <1>6, <1>7, <1>8

\* The log of every run is a gapless chain of legal transitions, and the row
\* other readers scan is the projection at its end.
THEOREM LogIsChained == Spec => []LogChained
PROOF
  <1>1. Init => LogChained
    BY DEF Init, LogChained, Current, Through
  <1>2. ConstantsOK /\ TypeOK /\ LogChained /\ [Next]_vars => LogChained'
    <2> SUFFICES ASSUME ConstantsOK, TypeOK, LogChained, [Next]_vars PROVE LogChained'
      OBVIOUS
    <2>1. CASE NothingWritten
      BY <2>1 DEF NothingWritten, LogChained, Current, Through
    <2>2. ASSUME NEW r, NEW type, NEW key, NEW pay, Committed(r, type, key, pay)
          PROVE  LogChained'
      <3> DEFINE after == applyEvent(Current(r), type, pay)
                 event == [type |-> type, key |-> key, payload |-> pay, version |-> after.version]
                 n == Len(log[r]) + 1
      <3>1. /\ Len(log[r]) \in Nat /\ Len(log'[r]) = n
            /\ \A i \in 1 .. Len(log[r]) : log'[r][i] = log[r][i]
            /\ log'[r][n] = [event |-> event, after |-> after]
            /\ \A s \in Run : s # r => log'[s] = log[s]
            /\ row' = [row EXCEPT ![r] = after]
            /\ log' \in [Run -> Seq(Entry)]
        BY <2>2, CommitEffect
      <3>2. /\ r \in Run
            /\ Current(r)' = after
            /\ \A s \in Run : s # r => Current(s)' = Current(s)
            /\ \A i \in 0 .. Len(log[r]) : Through(r, i)' = Through(r, i)
        BY <2>2, CurrentEffect
      <3>3. Current(r).version = Len(log[r]) /\ after.version = n
        <4>1. Current(r).version = Len(log[r])
          BY <3>1, <3>2 DEF LogChained, Current, Through, DraftRun
        <4> QED
          BY <4>1 DEF applyEvent
      <3>4. CanTransition(Current(r).state, type)
        BY <2>2 DEF Committed
      <3>5. ASSUME NEW s \in Run, s # r
            PROVE  /\ row'[s] = Current(s)'
                   /\ \A i \in DOMAIN log'[s] :
                        LET e == log'[s][i].event
                            before == Through(s, i - 1)'
                        IN  /\ e.version = i
                            /\ log'[s][i].after.version = i
                            /\ CanTransition(before.state, e.type)
                            /\ log'[s][i].after = applyEvent(before, e.type, e.payload)
        <4>1. log'[s] = log[s] /\ row'[s] = row[s] /\ Current(s)' = Current(s)
          BY <3>1, <3>2, <3>5 DEF TypeOK
        <4>2. \A i : Through(s, i)' = Through(s, i)
          BY <4>1 DEF Through
        <4> QED
          BY <4>1, <4>2 DEF LogChained
      <3>6. row'[r] = Current(r)'
        BY <3>1, <3>2 DEF TypeOK
      <3>7. ASSUME NEW i \in DOMAIN log'[r]
            PROVE  LET e == log'[r][i].event
                       before == Through(r, i - 1)'
                   IN  /\ e.version = i
                       /\ log'[r][i].after.version = i
                       /\ CanTransition(before.state, e.type)
                       /\ log'[r][i].after = applyEvent(before, e.type, e.payload)
        <4>1. i \in 1 .. n
          BY <3>1, <3>2
        <4>2. CASE i = n
          <5>1. Through(r, i - 1)' = Current(r)
            BY <3>1, <3>2, <4>2 DEF Current
          <5>2. log'[r][i].event = event /\ log'[r][i].after = after
            BY <3>1, <4>2
          <5>3. event.version = i /\ event.type = type /\ event.payload = pay /\ after.version = i
            BY <3>3, <4>2
          <5> HIDE DEF event
          <5> QED
            BY <3>4, <5>1, <5>2, <5>3
        <4>3. CASE i \in 1 .. Len(log[r])
          <5>1. log'[r][i] = log[r][i] /\ Through(r, i - 1)' = Through(r, i - 1)
            BY <3>1, <3>2, <4>3
          <5>2. i \in DOMAIN log[r]
            BY <3>2, <4>3 DEF TypeOK
          <5> QED
            BY <3>2, <5>1, <5>2 DEF LogChained
        <4> QED
          BY <3>1, <4>1, <4>2, <4>3
      <3> QED
        BY <3>5, <3>6, <3>7 DEF LogChained
    <2> QED
      BY <2>1, <2>2, StepOf
  <1> QED
    BY <1>1, <1>2, TypeCorrect, ConstantsOK, PTL DEF Spec

\* Every set of naturals that is not empty has a least member: the intervals
\* up to its members are finite sets, and one of them contains no other.
LEMMA LeastNatural ==
  ASSUME NEW T, T \subseteq Nat, T # {}
  PROVE  \E n \in T : \A m \in T : n <= m
PROOF
  <1> DEFINE intervals == {1 .. n : n \in T}
  <1>1. IsWellFoundedOn(StrictSubsetOrdering(Nat), FiniteSubsetsOf(Nat))
    BY FS_StrictSubsetOrderingWellFounded
  <1>2. intervals \subseteq FiniteSubsetsOf(Nat)
    <2> SUFFICES ASSUME NEW n \in T PROVE IsFiniteSet(1 .. n) /\ 1 .. n \in SUBSET Nat
      BY DEF FiniteSubsetsOf
    <2> QED
      BY FS_Interval
  <1>3. \E s \in intervals : \A t \in intervals : <<t, s>> \notin StrictSubsetOrdering(Nat)
    <2>1. intervals # {}
      OBVIOUS
    <2> HIDE DEF intervals
    <2> QED
      BY <1>1, <1>2, <2>1, WFMin
  <1>4. PICK n \in T : \A m \in T : <<1 .. m, 1 .. n>> \notin StrictSubsetOrdering(Nat)
    BY <1>3
  <1>5. ASSUME NEW m \in T, m < n PROVE FALSE
    <2>1. n \in 1 .. n /\ n \notin 1 .. m /\ 1 .. m \subseteq 1 .. n
      BY <1>5
    <2>2. 1 .. m # 1 .. n /\ <<1 .. m, 1 .. n>> \in (SUBSET Nat) \X (SUBSET Nat)
      BY <2>1
    <2>3. <<1 .. m, 1 .. n>> \in StrictSubsetOrdering(Nat)
      BY <2>1, <2>2, Zenon DEF StrictSubsetOrdering
    <2> QED
      BY <1>4, <2>3
  <1>6. \A m \in T : n <= m
    BY <1>5
  <1> QED
    BY <1>6

\* In a chained log the memo kept with each entry solves the equation of replay,
\* and no other function does: the first place where two solutions part cannot be.
LEMMA ReplayIsCurrent ==
  ASSUME TypeOK, LogChained, NEW r \in Run
  PROVE  Replay(log[r]) = Current(r)
PROOF
  <1> DEFINE n == Len(log[r])
             Follows(f) ==
               f = [i \in 0 .. n |->
                      IF i = 0 THEN DraftRun
                      ELSE applyEvent(f[i - 1], log[r][i].event.type, log[r][i].event.payload)]
             memo == [i \in 0 .. n |-> Through(r, i)]
             through == CHOOSE f : Follows(f)
  <1>1. n \in Nat /\ DOMAIN log[r] = 1 .. n
    BY DEF TypeOK
  <1>2. \A i \in 1 .. n :
          Through(r, i) = applyEvent(Through(r, i - 1), log[r][i].event.type, log[r][i].event.payload)
    <2>1. \A i \in 1 .. n : Through(r, i) = log[r][i].after
      BY <1>1 DEF Through
    <2> QED
      BY <1>1, <2>1 DEF LogChained
  <1>3. Follows(memo)
    <2>1. \A i \in 0 .. n : i # 0 => i \in 1 .. n /\ i - 1 \in 0 .. n
      BY <1>1
    <2>2. \A i \in 0 .. n : memo[i] = IF i = 0 THEN DraftRun
            ELSE applyEvent(memo[i - 1], log[r][i].event.type, log[r][i].event.payload)
      BY <1>2, <2>1 DEF Through
    <2> QED
      BY <2>2
  <1>4. Follows(through)
    <2> HIDE DEF memo, Follows
    <2> QED
      BY <1>3
  <1>5. \A i \in 0 .. n : through[i] = Through(r, i)
    <2> DEFINE parted == {i \in 0 .. n : through[i] # Through(r, i)}
    <2> HIDE DEF through
    <2> SUFFICES ASSUME parted # {} PROVE FALSE
      OBVIOUS
    <2>1. parted \subseteq Nat
      BY <1>1
    <2>2. PICK i \in parted : \A j \in parted : i <= j
      <3> HIDE DEF parted
      <3> QED
        BY <2>1, LeastNatural
    <2>3. through[0] = DraftRun /\ Through(r, 0) = DraftRun
      BY <1>1, <1>4 DEF Through
    <2>4. i \in 1 .. n /\ i - 1 \in 0 .. n /\ i - 1 \notin parted
      BY <1>1, <2>2, <2>3
    <2>5. through[i] = applyEvent(through[i - 1], log[r][i].event.type, log[r][i].event.payload)
      BY <1>1, <1>4, <2>4
    <2>6. through[i - 1] = Through(r, i - 1)
      BY <2>4
    <2> QED
      BY <1>2, <2>2, <2>4, <2>5, <2>6
  <1>6. Replay(log[r]) = through[n]
    BY DEF Replay
  <1>7. Current(r) = Through(r, n) /\ n \in 0 .. n
    BY <1>1 DEF Current
  <1> HIDE DEF through
  <1> QED
    BY <1>5, <1>6, <1>7

\* Rebuilding a run from its events alone gives what was materialized for it,
\* whatever its log holds and however long it is.
THEOREM ReplayRebuilds == Spec => []ReplayAgrees
PROOF
  <1>1. TypeOK /\ LogChained => ReplayAgrees
    BY ReplayIsCurrent DEF LogChained, ReplayAgrees
  <1> QED
    BY <1>1, TypeCorrect, LogIsChained, PTL

\* An idempotency key commits at most one event of one run, for any number of
\* callers and however their lookups and commits interleave.
THEOREM KeysCommitOnce == Spec => []KeyCommitsOnce
PROOF
  <1>1. Init => KeyCommitsOnce
    BY DEF Init, KeyCommitsOnce
  <1>2. ConstantsOK /\ TypeOK /\ KeyCommitsOnce /\ [Next]_vars => KeyCommitsOnce'
    <2> SUFFICES ASSUME ConstantsOK, TypeOK, KeyCommitsOnce, [Next]_vars PROVE KeyCommitsOnce'
      OBVIOUS
    <2>1. CASE NothingWritten
      BY <2>1 DEF NothingWritten, KeyCommitsOnce
    <2>2. ASSUME NEW r, NEW type, NEW key, NEW pay, Committed(r, type, key, pay)
          PROVE  KeyCommitsOnce'
      <3> DEFINE n == Len(log[r]) + 1
                 after == applyEvent(Current(r), type, pay)
                 event == [type |-> type, key |-> key, payload |-> pay, version |-> after.version]
      <3>1. /\ r \in Run /\ Len(log[r]) \in Nat /\ DOMAIN log[r] = 1 .. Len(log[r])
            /\ \A s \in Run : \A i \in DOMAIN log[s] : log[s][i].event.key # key
        BY <2>2 DEF Committed, KeyUsed, TypeOK
      <3>2. /\ Len(log'[r]) = n
            /\ \A i \in 1 .. Len(log[r]) : log'[r][i] = log[r][i]
            /\ log'[r][n].event.key = key
            /\ \A s \in Run : s # r => log'[s] = log[s]
            /\ DOMAIN log'[r] = 1 .. n
        <4>1. /\ log' \in [Run -> Seq(Entry)] /\ Len(log'[r]) = n
              /\ \A i \in 1 .. Len(log[r]) : log'[r][i] = log[r][i]
              /\ log'[r][n] = [event |-> event, after |-> after]
              /\ \A s \in Run : s # r => log'[s] = log[s]
          BY <2>2, CommitEffect
        <4>2. log'[r][n].event.key = key
          <5>1. log'[r][n].event = event
            BY <4>1
          <5> QED
            BY <5>1
        <4> QED
          BY <3>1, <4>1, <4>2
      <3>3. ASSUME NEW s \in Run, NEW i \in DOMAIN log'[s], ~(s = r /\ i = n)
            PROVE  i \in DOMAIN log[s] /\ log'[s][i] = log[s][i]
        BY <3>1, <3>2, <3>3
      <3>4. ASSUME NEW s \in Run, NEW i \in DOMAIN log'[s],
                   NEW t \in Run, NEW j \in DOMAIN log'[t],
                   log'[s][i].event.key = log'[t][j].event.key
            PROVE  s = t /\ i = j
        <4>1. CASE (s = r /\ i = n) \/ (t = r /\ j = n)
          BY <3>1, <3>2, <3>3, <3>4, <4>1, SMTT(40)
        <4>2. CASE ~(s = r /\ i = n) /\ ~(t = r /\ j = n)
          BY <3>3, <3>4, <4>2 DEF KeyCommitsOnce
        <4> QED
          BY <4>1, <4>2
      <3> QED
        BY <3>4 DEF KeyCommitsOnce
    <2> QED
      BY <2>1, <2>2, StepOf
  <1> QED
    BY <1>1, <1>2, TypeCorrect, ConstantsOK, PTL DEF Spec

(***************************************************************************)
(* Ownership, dispatch and conclusions.                                    *)
(***************************************************************************)
\* A run that waits for execution is owned by no attempt, whoever resumes,
\* retries or cancels it and in whatever order.
THEOREM WaitingIsUnowned == Spec => []WaitingRunHasNoOwner
PROOF
  <1>1. Init => WaitingRunHasNoOwner
    BY DEF Init, WaitingRunHasNoOwner, Current, Through, DraftRun
  <1>2. ConstantsOK /\ TypeOK /\ WaitingRunHasNoOwner /\ [Next]_vars => WaitingRunHasNoOwner'
    <2> SUFFICES ASSUME ConstantsOK, TypeOK, WaitingRunHasNoOwner, [Next]_vars
                 PROVE  WaitingRunHasNoOwner'
      OBVIOUS
    <2>1. CASE NothingWritten
      BY <2>1 DEF NothingWritten, WaitingRunHasNoOwner, Current, Through
    <2>2. ASSUME NEW r, NEW type, NEW key, NEW pay, Committed(r, type, key, pay)
          PROVE  WaitingRunHasNoOwner'
      <3> DEFINE before == Current(r)
                 to == transitionRunState(before.state, type)
                 after == applyEvent(before, type, pay)
      <3>1. /\ r \in Run
            /\ Current(r)' = after
            /\ \A s \in Run : s # r => Current(s)' = Current(s)
        BY <2>2, CurrentEffect
      <3>2. to \in UnboundState => \/ type = "run_retrying"
                                   \/ before.state \in UnboundState /\ type # "run_started"
        <4>1. CanTransition(before.state, type)
          BY <2>2 DEF Committed
        <4> HIDE DEF before
        <4> QED
          BY <4>1, TransitionInTable
          DEF transitions, openTransitions, closedTransitions, UnboundState
      <3>3. /\ after.state = NextState(before, type)
            /\ after.attempt = NextAttempt(before, type, pay)
        BY DEF applyEvent
      <3>4. before.state \in UnboundState => before.attempt = None
        BY <3>1 DEF WaitingRunHasNoOwner
      <3>5. after.state \in UnboundState => after.attempt = None
        <4> HIDE DEF before, after
        <4> QED
          BY <3>2, <3>3, <3>4 DEF NextState, NextAttempt
      <3> HIDE DEF after
      <3> QED
        BY <3>1, <3>5 DEF WaitingRunHasNoOwner
    <2> QED
      BY <2>1, <2>2, StepOf
  <1> QED
    BY <1>1, <1>2, TypeCorrect, ConstantsOK, PTL DEF Spec

\* A queued run has an execution row of exactly its version in the outbox, by
\* whichever of the three events it was queued.
THEOREM QueuedIsDispatched == Spec => []QueuedRunIsDispatched
PROOF
  <1>1. Init => QueuedRunIsDispatched
    BY DEF Init, QueuedRunIsDispatched, Current, Through, DraftRun
  <1>2. ConstantsOK /\ TypeOK /\ QueuedRunIsDispatched /\ [Next]_vars => QueuedRunIsDispatched'
    <2> SUFFICES ASSUME ConstantsOK, TypeOK, QueuedRunIsDispatched, [Next]_vars
                 PROVE  QueuedRunIsDispatched'
      OBVIOUS
    <2>1. CASE NothingWritten
      BY <2>1 DEF NothingWritten, QueuedRunIsDispatched, Current, Through
    <2>2. ASSUME NEW r, NEW type, NEW key, NEW pay, Committed(r, type, key, pay)
          PROVE  QueuedRunIsDispatched'
      <3> DEFINE before == Current(r)
                 to == transitionRunState(before.state, type)
                 after == applyEvent(before, type, pay)
      <3>1. /\ r \in Run
            /\ Current(r)' = after
            /\ \A s \in Run : s # r => Current(s)' = Current(s)
        BY <2>2, CurrentEffect
      <3>2. outbox' = IF Dispatches(after, type) THEN outbox \cup {<<r, after.version>>} ELSE outbox
        BY <2>2, CommitEffect
      <3>3. to = "queued" => type \in {"permission_granted", "run_retrying"}
        <4>1. CanTransition(before.state, type)
          BY <2>2 DEF Committed
        <4> HIDE DEF before
        <4> QED
          BY <4>1, TransitionTargets
      <3>4. after.state = "queued" => type \in DispatchType
        <4>1. after.state = NextState(before, type)
          BY DEF applyEvent
        <4> HIDE DEF before, after
        <4> QED
          BY <3>3, <4>1 DEF NextState, DispatchType
      <3> HIDE DEF after
      <3>5. after.state = "queued" /\ after.kind # "dynamic-path" => <<r, after.version>> \in outbox'
        BY <3>2, <3>4 DEF Dispatches
      <3>6. outbox \subseteq outbox'
        BY <3>2
      <3> QED
        BY <3>1, <3>5, <3>6 DEF QueuedRunIsDispatched
    <2> QED
      BY <2>1, <2>2, StepOf
  <1> QED
    BY <1>1, <1>2, TypeCorrect, ConstantsOK, PTL DEF Spec

\* What makes OneConclusion inductive: where the log holds a conclusion, the run
\* is in a terminal state, and those accept nothing but overrides.
ConclusionEndsRun ==
  \A r \in Run : \A i \in DOMAIN log[r] :
    log[r][i].event.type \in ConclusionType => Current(r).state \in TerminalState

\* At most one conclusion is ever durable for a run, for any number of callers.
THEOREM ConcludedOnce == Spec => []OneConclusion
PROOF
  <1> DEFINE Inv == OneConclusion /\ ConclusionEndsRun
  <1>1. Init => Inv
    BY DEF Init, OneConclusion, ConclusionEndsRun
  <1>2. ConstantsOK /\ TypeOK /\ Inv /\ [Next]_vars => Inv'
    <2> SUFFICES ASSUME ConstantsOK, TypeOK, OneConclusion, ConclusionEndsRun, [Next]_vars
                 PROVE  Inv'
      OBVIOUS
    <2>1. CASE NothingWritten
      BY <2>1 DEF NothingWritten, OneConclusion, ConclusionEndsRun, Current, Through
    <2>2. ASSUME NEW r, NEW type, NEW key, NEW pay, Committed(r, type, key, pay)
          PROVE  Inv'
      <3> DEFINE n == Len(log[r]) + 1
                 before == Current(r)
                 to == transitionRunState(before.state, type)
                 after == applyEvent(before, type, pay)
                 event == [type |-> type, key |-> key, payload |-> pay, version |-> after.version]
      <3>1. /\ r \in Run
            /\ Current(r)' = after
            /\ \A s \in Run : s # r => Current(s)' = Current(s)
        BY <2>2, CurrentEffect
      <3>2. /\ Len(log[r]) \in Nat /\ DOMAIN log[r] = 1 .. Len(log[r])
            /\ DOMAIN log'[r] = 1 .. n
            /\ \A i \in 1 .. Len(log[r]) : log'[r][i] = log[r][i]
            /\ log'[r][n] = [event |-> event, after |-> after]
            /\ \A s \in Run : s # r => log'[s] = log[s]
        <4>1. /\ log' \in [Run -> Seq(Entry)] /\ Len(log'[r]) = n
              /\ \A i \in 1 .. Len(log[r]) : log'[r][i] = log[r][i]
              /\ log'[r][n] = [event |-> event, after |-> after]
              /\ \A s \in Run : s # r => log'[s] = log[s]
          BY <2>2, CommitEffect
        <4>2. log[r] \in Seq(Entry) /\ log'[r] \in Seq(Entry)
          BY <3>1, <4>1 DEF TypeOK
        <4> HIDE DEF after, event
        <4> QED
          BY <4>1, <4>2
      <3>3. log'[r][n].event.type = type
        <4>1. log'[r][n].event = event
          BY <3>2
        <4> QED
          BY <4>1
      <3>4. CanTransition(before.state, type)
        BY <2>2 DEF Committed
      <3>5. after.state = NextState(before, type)
        BY DEF applyEvent
      <3> HIDE DEF before, after, event
      <3>6. type \in ConclusionType => after.state \in TerminalState
        <4>1. type \in ConclusionType => to \in TerminalState
          BY <3>4, TransitionInTable
          DEF transitions, openTransitions, closedTransitions, ConclusionType, TerminalState
        <4> QED
          BY <3>5, <4>1 DEF NextState, ConclusionType
      <3>7. before.state \in TerminalState => type = "decision_overridden" /\ after.state = before.state
        BY <3>4, <3>5, TransitionTargets DEF NextState
      <3>8. ASSUME NEW i \in DOMAIN log[r], log[r][i].event.type \in ConclusionType
            PROVE  before.state \in TerminalState
        BY <3>1, <3>8 DEF ConclusionEndsRun, before
      <3>9. ConclusionEndsRun'
        <4>1. ASSUME NEW i \in DOMAIN log'[r], log'[r][i].event.type \in ConclusionType
              PROVE  after.state \in TerminalState
          <5>1. i = n \/ (i \in DOMAIN log[r] /\ log'[r][i] = log[r][i])
            BY <3>2
          <5> QED
            BY <3>3, <3>6, <3>7, <3>8, <4>1, <5>1
        <4> QED
          BY <3>1, <3>2, <4>1 DEF ConclusionEndsRun
      <3>10. OneConclusion'
        <4>1. ASSUME NEW i \in DOMAIN log'[r], NEW j \in DOMAIN log'[r],
                     log'[r][i].event.type \in ConclusionType,
                     log'[r][j].event.type \in ConclusionType
              PROVE  i = j
          <5>1. i = n \/ (i \in DOMAIN log[r] /\ log'[r][i] = log[r][i])
            BY <3>2
          <5>2. j = n \/ (j \in DOMAIN log[r] /\ log'[r][j] = log[r][j])
            BY <3>2
          <5>3. CASE before.state \in TerminalState
            BY <3>1, <3>3, <3>7, <4>1, <5>1, <5>2, <5>3 DEF OneConclusion, ConclusionType
          <5>4. CASE before.state \notin TerminalState
            BY <3>8, <4>1, <5>1, <5>2, <5>4
          <5> QED
            BY <5>3, <5>4
        <4> QED
          BY <3>1, <3>2, <4>1 DEF OneConclusion
      <3> QED
        BY <3>9, <3>10
    <2> QED
      BY <2>1, <2>2, StepOf
  <1> QED
    BY <1>1, <1>2, TypeCorrect, ConstantsOK, PTL DEF Spec

\* The entry that shows where a passing gate comes from.
GrantsPass(entry) ==
  \/ /\ entry.event.type \in {"run_completed", "parent_aggregate_completed"}
     /\ entry.event.payload.finalStatus = "pass"
  \/ /\ entry.event.type = "decision_overridden"
     /\ entry.after.machineGate = "pass"

\* A passing gate is always traced to an event that granted it: replay invents
\* none, whatever the callers append.
THEOREM PassIsGranted == Spec => []PassIsNeverInferred
PROOF
  <1> DEFINE Inv == \A r \in Run : Current(r).gateStatus = "pass" =>
                      \E i \in DOMAIN log[r] : GrantsPass(log[r][i])
  <1>1. Init => Inv
    BY DEF Init, Current, Through, DraftRun, Absent
  <1>2. ConstantsOK /\ TypeOK /\ Inv /\ [Next]_vars => Inv'
    <2> SUFFICES ASSUME ConstantsOK, TypeOK, Inv, [Next]_vars PROVE Inv'
      OBVIOUS
    <2>1. CASE NothingWritten
      BY <2>1 DEF NothingWritten, Current, Through
    <2>2. ASSUME NEW r, NEW type, NEW key, NEW pay, Committed(r, type, key, pay)
          PROVE  Inv'
      <3> DEFINE n == Len(log[r]) + 1
                 before == Current(r)
                 after == applyEvent(before, type, pay)
                 event == [type |-> type, key |-> key, payload |-> pay, version |-> after.version]
                 entry == [event |-> event, after |-> after]
      <3>1. /\ r \in Run
            /\ Current(r)' = after
            /\ \A s \in Run : s # r => Current(s)' = Current(s)
        BY <2>2, CurrentEffect
      <3>2. /\ Len(log[r]) \in Nat /\ DOMAIN log[r] = 1 .. Len(log[r])
            /\ DOMAIN log'[r] = 1 .. n
            /\ \A i \in 1 .. Len(log[r]) : log'[r][i] = log[r][i]
            /\ log'[r][n] = entry
            /\ \A s \in Run : s # r => log'[s] = log[s]
        <4>1. /\ log' \in [Run -> Seq(Entry)] /\ Len(log'[r]) = n
              /\ \A i \in 1 .. Len(log[r]) : log'[r][i] = log[r][i]
              /\ log'[r][n] = entry
              /\ \A s \in Run : s # r => log'[s] = log[s]
          BY <2>2, CommitEffect
        <4>2. log[r] \in Seq(Entry) /\ log'[r] \in Seq(Entry)
          BY <3>1, <4>1 DEF TypeOK
        <4> HIDE DEF entry
        <4> QED
          BY <4>1, <4>2
      <3>3. entry.event.type = type /\ entry.event.payload = pay /\ entry.after = after
        OBVIOUS
      <3>4. /\ after.gateStatus = NextGateStatus(before, type, pay)
            /\ after.machineGate = NextMachineGate(before, pay)
        BY DEF applyEvent
      <3> HIDE DEF before, after, event, entry
      <3>5. ASSUME after.gateStatus = "pass", before.gateStatus # "pass"
            PROVE  GrantsPass(entry)
        BY <3>3, <3>4, <3>5 DEF NextGateStatus, GrantsPass, Absent
      <3>6. ASSUME after.gateStatus = "pass"
            PROVE  \E i \in DOMAIN log'[r] : GrantsPass(log'[r][i])
        <4>1. CASE before.gateStatus = "pass"
          <5>1. PICK i \in DOMAIN log[r] : GrantsPass(log[r][i])
            BY <3>1, <4>1 DEF before
          <5>2. i \in DOMAIN log'[r] /\ log'[r][i] = log[r][i]
            BY <3>2
          <5> QED
            BY <5>1, <5>2
        <4>2. CASE before.gateStatus # "pass"
          <5>1. n \in DOMAIN log'[r] /\ log'[r][n] = entry
            BY <3>2
          <5> QED
            BY <3>5, <3>6, <4>2, <5>1
        <4> QED
          BY <4>1, <4>2
      <3> QED
        BY <3>1, <3>2, <3>6
    <2> QED
      BY <2>1, <2>2, StepOf
  <1>3. Inv => PassIsNeverInferred
    BY DEF PassIsNeverInferred, GrantsPass
  <1> QED
    BY <1>1, <1>2, <1>3, TypeCorrect, ConstantsOK, PTL DEF Spec

(***************************************************************************)
(* Who asked for an event, and what that rules out.                        *)
(***************************************************************************)
Asked(type, pay) == [type |-> type, payload |-> pay] \in Request

\* What a call carries is what its caller asked for, however often it reads again.
CallsAreAsked ==
  \A c \in Client :
    /\ pc[c] # "idle" => Asked(call[c].type, call[c].payload)
    /\ pc[c] \in {"create", "insert"} => call[c].type = "run_created"

LogIsAsked ==
  \A r \in Run : \A i \in DOMAIN log[r] : Asked(log[r][i].event.type, log[r][i].event.payload)

LEMMA CallsStayAsked ==
  ASSUME ConstantsOK, TypeOK, CallsAreAsked, [Next]_vars
  PROVE  CallsAreAsked'
PROOF
  <1>1. CASE UNCHANGED vars
    BY <1>1 DEF vars, CallsAreAsked
  <1>2. ASSUME NEW c \in Client, NEW answer, Return(c, answer) PROVE CallsAreAsked'
    BY <1>2 DEF Return, CallsAreAsked, TypeOK
  <1>3. ASSUME NEW c \in Client, NEW at, NEW new,
               pc' = [pc EXCEPT ![c] = at], call' = [call EXCEPT ![c] = new],
               Asked(new.type, new.payload), at \in {"create", "insert"} => new.type = "run_created"
        PROVE  CallsAreAsked'
    <2>1. /\ pc'[c] = at /\ call'[c] = new
          /\ \A d \in Client : d # c => pc'[d] = pc[d] /\ call'[d] = call[d]
      BY <1>3 DEF TypeOK
    <2> QED
      BY <1>3, <2>1 DEF CallsAreAsked
  <1>4. ASSUME NEW c \in Client, NEW at \in {"insert", "lock"}, pc[c] # "idle",
               at = "insert" => pc[c] = "create",
               pc' = [pc EXCEPT ![c] = at], UNCHANGED call
        PROVE  CallsAreAsked'
    BY <1>4 DEF CallsAreAsked, TypeOK
  <1>5. ASSUME NEW q \in Request PROVE Asked(q.type, q.payload)
    BY <1>5, ConstantsOK DEF Asked, ConstantsOK
  <1>6. ASSUME NEW c \in Client, CreateBegin(c) PROVE CallsAreAsked'
    <2>1. PICK r \in Run, key \in UserKey, q \in Request :
            /\ q.type = "run_created"
            /\ call' = [call EXCEPT ![c] =
                 [op |-> "create", run |-> r, type |-> q.type, expected |-> 0, key |-> key,
                  payload |-> q.payload, tries |-> 1]]
      BY <1>6 DEF CreateBegin
    <2> QED
      BY <1>3, <1>5, <1>6, <2>1 DEF CreateBegin
  <1>7. ASSUME NEW c \in Client, AppendBegin(c) PROVE CallsAreAsked'
    <2>1. PICK r \in Run, key \in UserKey, q \in Request :
            \E expected \in 1 .. Len(log[r]) + 1 :
            call' = [call EXCEPT ![c] =
              [op |-> "append", run |-> r, type |-> q.type, expected |-> expected,
               key |-> key, payload |-> q.payload, tries |-> 1]]
      BY <1>7 DEF AppendBegin
    <2>2. PICK expected :
            call' = [call EXCEPT ![c] =
              [op |-> "append", run |-> r, type |-> q.type, expected |-> expected,
               key |-> key, payload |-> q.payload, tries |-> 1]]
      BY <2>1
    <2> QED
      BY <1>3, <1>5, <1>7, <2>2 DEF AppendBegin
  <1>8. ASSUME NEW c \in Client, SystemBegin(c) PROVE CallsAreAsked'
    <2>1. PICK r \in Run, q \in Request : call' = [call EXCEPT ![c] = SystemCall(r, q, 1)]
      BY <1>8 DEF SystemBegin
    <2>2. SystemCall(r, q, 1).type = q.type /\ SystemCall(r, q, 1).payload = q.payload
      BY DEF SystemCall
    <2>3. pc' = [pc EXCEPT ![c] = "lookup"]
      BY <1>8 DEF SystemBegin
    <2> QED
      BY <1>3, <1>5, <2>1, <2>2, <2>3
  <1>9. ASSUME NEW c \in Client, CreateCheck(c) \/ CreateInsert(c) \/ LookupKey(c)
        PROVE  CallsAreAsked'
    BY <1>2, <1>4, <1>9 DEF CreateCheck, CreateInsert, LookupKey
  <1>10. ASSUME NEW c \in Client, LockedAppend(c) PROVE CallsAreAsked'
    <2>1. pc[c] = "lock"
      BY <1>10 DEF LockedAppend
    <2>2. CASE Conflict(c)
      <3> DEFINE again == SystemCall(call[c].run, call[c], call[c].tries + 1)
      <3>1. again.type = call[c].type /\ again.payload = call[c].payload
        BY DEF SystemCall
      <3>2. Asked(again.type, again.payload)
        BY <2>1, <3>1 DEF CallsAreAsked
      <3>3. CASE pc' = [pc EXCEPT ![c] = "lookup"] /\ call' = [call EXCEPT ![c] = again]
        <4> HIDE DEF again
        <4> QED
          BY <1>3, <3>2, <3>3
      <3> QED
        BY <1>2, <2>2, <3>3 DEF Conflict
    <2> QED
      BY <1>2, <1>10, <2>2 DEF LockedAppend
  <1> QED
    BY <1>1, <1>6, <1>7, <1>8, <1>9, <1>10 DEF Next

\* What a step adds to a log was asked for by the call that commits it.
LEMMA StepIsAsked ==
  ASSUME ConstantsOK, TypeOK, CallsAreAsked, [Next]_vars, ~NothingWritten
  PROVE  \E r, type, key, pay : Committed(r, type, key, pay) /\ Asked(type, pay)
PROOF
  <1>1. PICK c \in Client : CreateInsert(c) \/ LockedAppend(c)
    BY DEF Next, vars, NothingWritten, CreateBegin, CreateCheck, AppendBegin, SystemBegin, LookupKey
  <1>2. Committed(call[c].run, call[c].type, call[c].key, call[c].payload)
    <2>1. CASE CreateInsert(c)
      <3>1. call[c].type = "run_created"
        BY <2>1 DEF CreateInsert, CallsAreAsked
      <3> QED
        BY <2>1, <3>1, InsertCommits
    <2>2. CASE LockedAppend(c)
      BY <2>2, AppendCommits
    <2> QED
      BY <1>1, <2>1, <2>2
  <1>3. Asked(call[c].type, call[c].payload)
    BY <1>1 DEF CreateInsert, LockedAppend, CallsAreAsked
  <1> QED
    BY <1>2, <1>3

\* No event is in a log that no caller asked for: re-reading and retrying changes
\* the version and the key of an event, and nothing else of it.
THEOREM OnlyRequestsAreLogged == Spec => []LogIsAsked
PROOF
  <1> DEFINE Inv == CallsAreAsked /\ LogIsAsked
  <1>1. Init => Inv
    BY DEF Init, CallsAreAsked, LogIsAsked
  <1>2. ConstantsOK /\ TypeOK /\ Inv /\ [Next]_vars => Inv'
    <2> SUFFICES ASSUME ConstantsOK, TypeOK, Inv, [Next]_vars PROVE LogIsAsked'
      BY CallsStayAsked
    <2>1. CASE NothingWritten
      BY <2>1 DEF NothingWritten, LogIsAsked
    <2>2. CASE ~NothingWritten
      <3>1. PICK r, type, key, pay : Committed(r, type, key, pay) /\ Asked(type, pay)
        BY <2>2, StepIsAsked
      <3> DEFINE n == Len(log[r]) + 1
      <3> DEFINE after == applyEvent(Current(r), type, pay)
      <3>2. /\ Len(log[r]) \in Nat /\ Len(log'[r]) = n
            /\ \A i \in 1 .. Len(log[r]) : log'[r][i] = log[r][i]
            /\ log'[r][n] = [event |-> [type |-> type, key |-> key, payload |-> pay,
                                       version |-> after.version],
                             after |-> after]
            /\ \A s \in Run : s # r => log'[s] = log[s]
            /\ log' \in [Run -> Seq(Entry)]
        BY <3>1, CommitEffect
      <3> HIDE DEF after
      <3> SUFFICES ASSUME NEW s \in Run, NEW i \in DOMAIN log'[s]
                   PROVE  Asked(log'[s][i].event.type, log'[s][i].event.payload)
        BY DEF LogIsAsked
      <3>3. CASE s # r
        BY <3>2, <3>3 DEF LogIsAsked
      <3>4. CASE s = r
        <4>1. i \in 1 .. Len(log[r]) \/ i = n
          BY <3>2, <3>4
        <4>2. i \in 1 .. Len(log[r]) => i \in DOMAIN log[r]
          BY <3>4 DEF TypeOK
        <4> QED
          BY <3>1, <3>2, <3>4, <4>1, <4>2 DEF LogIsAsked
      <3> QED
        BY <3>3, <3>4
    <2> QED
      BY <2>1, <2>2
  <1> QED
    BY <1>1, <1>2, TypeCorrect, ConstantsOK, PTL DEF Spec

\* Overrides come from a reviewer, with a decision of one.  The repair plan
\* route is the caller that does not keep to it.
ReviewersDecide ==
  \A q \in Request : q.type = "decision_overridden" => q.payload.decision \in HumanDecision

\* Where only reviewers override, a review passes by an approval: what
\* store_repair_plan finds has the repair plan route for its only cause.
THEOREM ReviewsPassByApproval == ReviewersDecide /\ Spec => []ReviewPassesByApproval
PROOF
  <1>1. ReviewersDecide /\ TypeOK /\ LogChained /\ LogIsAsked => ReviewPassesByApproval
    <2> SUFFICES ASSUME ReviewersDecide, TypeOK, LogChained, LogIsAsked,
                        NEW r \in Run, NEW i \in DOMAIN log[r],
                        log[r][i].event.type = "decision_overridden",
                        Through(r, i - 1).gateStatus = "needs-human-review",
                        log[r][i].after.gateStatus = "pass"
                 PROVE  log[r][i].event.payload.decision \in {"approved", "accepted-risk"}
      BY DEF ReviewPassesByApproval
    <2> DEFINE pay == log[r][i].event.payload
               before == Through(r, i - 1)
    <2>1. log[r][i].after = applyEvent(before, "decision_overridden", pay)
      BY DEF LogChained
    <2>2. log[r][i].after.gateStatus = NextGateStatus(before, "decision_overridden", pay)
      BY <2>1 DEF applyEvent
    <2>3. pay.decision # "blocked"
      BY <2>2 DEF NextGateStatus
    <2>4. pay.decision \in HumanDecision
      BY DEF LogIsAsked, Asked, ReviewersDecide
    <2> QED
      BY <2>3, <2>4 DEF HumanDecision
  <1>2. CASE ReviewersDecide
    <2>1. TypeOK /\ LogChained /\ LogIsAsked => ReviewPassesByApproval
      BY <1>1, <1>2
    <2> QED
      BY <2>1, TypeCorrect, LogIsChained, OnlyRequestsAreLogged, PTL
  <1> QED
    BY <1>2

\* The program's callers meet what the store is proved under, for any attempts,
\* generations, gates and judges: their requests are typed, and only the repair
\* plan route overrides without a reviewer's decision.
THEOREM CallersKeepTheContract ==
  ASSUME NEW attempts, attempts \subseteq Attempt, NEW generations, generations \subseteq Nat,
         NEW gates, gates \subseteq GateStatus, NEW judges, judges \subseteq JudgeStatus
  PROVE  LET reviewed == CreateRequests \cup ControlRequests
                 \cup WorkerRequests(attempts, generations) \cup JudgingRequests(gates)
                 \cup FinalizeRequests(gates, judges) \cup ParentFinalizeRequests(gates, judges)
                 \cup RetryRequests \cup BlockRequests
         IN  /\ reviewed \cup RepairPlanRequests \subseteq [type : EventType, payload : Payload]
             /\ \A q \in reviewed : q.type = "decision_overridden" => q.payload.decision \in HumanDecision
PROOF
  <1> DEFINE Kept(q) ==
               /\ q \in [type : EventType, payload : Payload]
               /\ q.type = "decision_overridden" => q.payload.decision \in HumanDecision
  <1>1. NoPayload \in Payload
    BY DEF NoPayload, Payload
  <1>2. \A type \in EventType \ {"decision_overridden"} : Kept(Ask(type))
    BY <1>1 DEF Ask
  <1>3. \A gate \in gates, judge \in judges : resolveFinalStatus(gate, judge, Absent) \in GateStatus
    BY DEF resolveFinalStatus, GateStatus
  <1>4. \A q \in CreateRequests : Kept(q)
    BY DEF CreateRequests, NoPayload, Payload, EventType
  <1>5. \A q \in ControlRequests : Kept(q)
    <2>1. ASSUME NEW d \in HumanDecision
          PROVE  Kept([type |-> "decision_overridden", payload |-> [NoPayload EXCEPT !.decision = d]])
      BY DEF NoPayload, Payload, EventType, DecisionStatus
    <2> QED
      BY <1>2, <2>1 DEF ControlRequests, EventType
  <1>6. \A q \in WorkerRequests(attempts, generations) : Kept(q)
    <2>1. ASSUME NEW a \in attempts, NEW g \in generations PROVE Kept(StartRequest(a, g))
      BY DEF StartRequest, NoPayload, Payload, EventType
    <2> HIDE DEF Kept
    <2>2. Kept(Ask("run_preparing")) /\ Kept(Ask("evidence_collecting"))
      BY <1>2 DEF EventType
    <2> QED
      BY <2>1, <2>2 DEF WorkerRequests
  <1>7. \A q \in JudgingRequests(gates) : Kept(q)
    BY DEF JudgingRequests, NoPayload, Payload, EventType
  <1>8. \A q \in FinalizeRequests(gates, judges) : Kept(q)
    <2> SUFFICES ASSUME NEW g \in gates, NEW j \in judges PROVE Kept(Conclusion(g, j))
      BY DEF FinalizeRequests
    <2> DEFINE final == resolveFinalStatus(g, j, Absent)
    <2>1. final \in GateStatus
      BY <1>3
    <2>2. TerminalEventOf(final) \in EventType \ {"decision_overridden"}
      BY DEF TerminalEventOf, EventType
    <2> HIDE DEF final
    <2>3. [NoPayload EXCEPT !.machineGate = g, !.finalStatus = final] \in Payload
      BY <2>1 DEF NoPayload, Payload
    <2> QED
      BY <2>2, <2>3 DEF Conclusion, final
  <1>9. \A q \in ParentFinalizeRequests(gates, judges) : Kept(q)
    <2> SUFFICES ASSUME NEW g \in gates, NEW j \in judges PROVE Kept(ParentConclusion(g, j))
      BY DEF ParentFinalizeRequests
    <2> DEFINE final == resolveFinalStatus(g, j, Absent)
    <2>1. final \in GateStatus
      BY <1>3
    <2>2. [NoPayload EXCEPT !.machineGate = g, !.finalStatus = final] \in Payload
      <3> HIDE DEF final
      <3> QED
        BY <2>1 DEF NoPayload, Payload
    <2> QED
      BY <2>2 DEF ParentConclusion, EventType
  <1>10. \A q \in RetryRequests \cup BlockRequests : Kept(q)
    <2>1. [NoPayload EXCEPT !.finalStatus = "blocked"] \in Payload
      BY DEF NoPayload, Payload, GateStatus
    <2> QED
      BY <1>2, <2>1 DEF RetryRequests, BlockRequests, EventType
  <1>11. RepairPlanRequests \subseteq [type : EventType, payload : Payload]
    <2>1. [NoPayload EXCEPT !.decision = "dismissed"] \in Payload
      BY DEF NoPayload, Payload, DecisionStatus
    <2> QED
      BY <1>2, <2>1 DEF RepairPlanRequests, EventType
  <1> HIDE DEF Kept
  <1>12. ASSUME NEW q, Kept(q) PROVE q \in [type : EventType, payload : Payload]
    BY <1>12 DEF Kept
  <1> QED
    BY <1>4, <1>5, <1>6, <1>7, <1>8, <1>9, <1>10, <1>11 DEF Kept

(***************************************************************************)
(* Refinement.                                                             *)
(***************************************************************************)
\* Every run implements the abstract run, for any runs, callers and requests.
THEOREM StoreImplementsAbstractRun == Spec => ImplementsAbstractRun
PROOF
  <1>1. Init => \A r \in Run : Abstract(r)!Init
    BY DEF Init, Abstract!Init, Abstract!DraftRun, DraftRun, Current, Through,
           Abstract!Absent, Absent
  <1>2. ConstantsOK /\ TypeOK /\ [Next]_vars => \A r \in Run : [Abstract(r)!Next]_(Current(r))
    <2> SUFFICES ASSUME ConstantsOK, TypeOK, [Next]_vars, NEW s \in Run
                 PROVE  [Abstract(s)!Next]_(Current(s))
      OBVIOUS
    <2>1. CASE NothingWritten
      BY <2>1 DEF NothingWritten, Current, Through
    <2>2. ASSUME NEW r, NEW type, NEW key, NEW pay, Committed(r, type, key, pay)
          PROVE  [Abstract(s)!Next]_(Current(s))
      <3> DEFINE p == Current(r)
                 to == transitionRunState(p.state, type)
                 q == applyEvent(p, type, pay)
      <3>1. /\ r \in Run /\ p \in Projection
            /\ Current(r)' = q
            /\ \A t \in Run : t # r => Current(t)' = Current(t)
        BY <2>2, CurrentEffect
      <3>2. type \in EventType /\ pay \in Payload /\ CanTransition(p.state, type)
        BY <2>2 DEF Committed
      <3>3. /\ <<p.state, type, to>> \in transitions
            /\ q.version = p.version + 1
            /\ q.state = IF type = "run_resumed" /\ p.state = "paused" /\ p.attempt = None
                           THEN "queued" ELSE to
            /\ type \notin {"run_started", "run_retrying"} =>
                 q.attempt = p.attempt /\ q.generation = p.generation
            /\ type = "run_retrying" => q.attempt = None /\ q.generation = 0
            /\ q.gateStatus = NextGateStatus(p, type, pay)
            /\ q.machineGate = NextMachineGate(p, pay)
        BY <3>1, <3>2, ApplyMoves
      <3> HIDE DEF p, q, to
      <3> SUFFICES Abstract(r)!Next
        BY <3>1
      <3> USE DEF p, Abstract!Next, Abstract!Move, Abstract!KeepOwner, Abstract!KeepGate,
                  transitions, openTransitions, closedTransitions, NextGateStatus
      <3>4. CASE type = "run_created"
        <4>1. Abstract(r)!Create
          BY <3>1, <3>2, <3>3, <3>4 DEF Abstract!Create
        <4> QED
          BY <4>1
      <3>5. CASE type \in {"plan_generated", "plan_approved", "permission_granted", "run_preparing"}
        <4>1. Abstract(r)!Prepare
          BY <3>1, <3>2, <3>3, <3>5 DEF Abstract!Prepare
        <4> QED
          BY <4>1
      <3>6. CASE type = "run_started"
        <4>1. Abstract(r)!Start
          BY <3>1, <3>2, <3>3, <3>6 DEF Abstract!Start
        <4> QED
          BY <4>1
      <3>7. CASE type = "run_paused"
        <4>1. Abstract(r)!Pause
          BY <3>1, <3>2, <3>3, <3>7 DEF Abstract!Pause
        <4> QED
          BY <4>1
      <3>8. CASE type = "run_resumed"
        <4>1. Abstract(r)!Resume
          BY <3>1, <3>2, <3>3, <3>8 DEF Abstract!Resume
        <4> QED
          BY <4>1
      <3>9. CASE type \in {"evidence_collecting", "run_judging"}
        <4>1. Abstract(r)!Judge
          BY <3>1, <3>2, <3>3, <3>9 DEF Abstract!Judge
        <4> QED
          BY <4>1
      <3>10. CASE type = "run_retrying"
        <4>1. Abstract(r)!Retry
          BY <3>1, <3>2, <3>3, <3>10 DEF Abstract!Retry
        <4> QED
          BY <4>1
      <3>11. CASE type = "human_review_requested"
        <4>1. Abstract(r)!Review
          BY <3>1, <3>2, <3>3, <3>11 DEF Abstract!Review
        <4> QED
          BY <4>1
      <3>12. CASE type \in ConclusionType
        <4>1. Abstract(r)!Conclude
          BY <3>1, <3>2, <3>3, <3>12 DEF Abstract!Conclude, ConclusionType, Abstract!RunState, Abstract!TerminalState, Abstract!Absent, Absent, Payload
        <4> QED
          BY <4>1
      <3>13. CASE type = "decision_overridden"
        <4>1. Abstract(r)!Override
          BY <3>1, <3>2, <3>3, <3>13 DEF Abstract!Override
        <4> QED
          BY <4>1
      <3>14. CASE type \in {"run_queued", "repair_decision_recorded"}
        BY <3>3, <3>14
      <3> QED
        BY <3>2, <3>4, <3>5, <3>6, <3>7, <3>8, <3>9, <3>10, <3>11, <3>12, <3>13, <3>14 DEF EventType, ConclusionType
    <2> QED
      BY <2>1, <2>2, StepOf
  <1> QED
    BY <1>1, <1>2, TypeCorrect, ConstantsOK, PTL DEF Spec, ImplementsAbstractRun
=============================================================================
