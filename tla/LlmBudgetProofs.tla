-------------------------- MODULE LlmBudgetProofs ---------------------------
(***************************************************************************)
(* What the ledger guarantees for any number of processes, calls, scopes,  *)
(* limits and faults.                                                      *)
(*                                                                         *)
(* The argument: a call that was granted is counted by every account it is *)
(* booked in, as reserved or as consumed, or by a row that was written     *)
(* over; settling twice only makes an account count more.  A reservation   *)
(* that is still there belongs to a call under way or to one nobody is     *)
(* left to settle.                                                         *)
(***************************************************************************)
EXTENDS LlmBudget, SequenceTheorems, FiniteSetTheorems, TLAPS

Granted == {c \in LlmCall : calls[c].granted}
OpenIn(a) == {c \in GrantedFrom(a) : Unsettled(c)}

BeforeGrant == {"idle", "inserting", "refused"}
AfterGrant == {"granted", "waiting", "answered", "settling", "failing"}

\* Where a call stands tells whether it was granted.
StepTellsGrant ==
  \A c \in LlmCall : /\ calls[c].at \in BeforeGrant => ~calls[c].granted /\ ~calls[c].settled
                     /\ calls[c].at \in AfterGrant => calls[c].granted

\* A call whose answer is not settled yet has its process' turn.
TurnIsHeld == \A c \in LlmCall : calls[c].at \in {"answered", "settling"} => HasTurn(c)

\* Only a call that fits an empty account inserts its reservation.
Fits == 1 <= MaxCalls /\ Estimate <= MaxTokens
InsertedFits == \A c \in LlmCall : calls[c].at = "inserting" => Fits

\* Only a run with a row has granted calls.
GrantedHaveRow == IsFiniteSet(Granted) /\ (ledger = NoLedger => Granted = {})

\* An account, and those it was written over, count every call booked there.
CountedIn(a) ==
  ledger # NoLedger => Cardinality(GrantedFrom(a)) <= Booked(ledger[a]) + lost[a]

\* What is reserved belongs to a call under way or is stranded.
OwnedIn(a) ==
  ledger # NoLedger => ledger[a].reserved.calls <= Cardinality(OpenIn(a)) + stranded

AccountsCount == \A a \in Allowance : CountedIn(a) /\ OwnedIn(a)

LlmInv ==
  /\ LlmTypeOK
  /\ StepTellsGrant /\ TurnIsHeld /\ InsertedFits
  /\ GrantedHaveRow /\ AccountsCount

LEMMA LlmInitially == LlmInit => LlmInv
PROOF
  <1> SUFFICES ASSUME LlmInit PROVE LlmInv
    OBVIOUS
  <1> USE LlmAssumption DEF LlmInit
  <1>1. \A c \in LlmCall : calls[c] = idleCall
    OBVIOUS
  <1>2. LlmTypeOK
    BY EmptySeq DEF LlmTypeOK, idleCall, CallState, CallStep
  <1>3. Granted = {}
    BY <1>1 DEF Granted, idleCall
  <1>4. StepTellsGrant /\ TurnIsHeld /\ InsertedFits
    BY <1>1 DEF StepTellsGrant, TurnIsHeld, InsertedFits, idleCall, BeforeGrant, AfterGrant
  <1>5. GrantedHaveRow /\ AccountsCount
    BY <1>3, FS_EmptySet DEF GrantedHaveRow, AccountsCount, CountedIn, OwnedIn
  <1> QED
    BY <1>2, <1>4, <1>5 DEF LlmInv

\* The calls booked in an account are granted, so they are finitely many.
LEMMA BookedFinite ==
  ASSUME IsFiniteSet(Granted), NEW a
  PROVE  /\ IsFiniteSet(GrantedFrom(a)) /\ Cardinality(GrantedFrom(a)) \in Nat
         /\ IsFiniteSet(OpenIn(a)) /\ Cardinality(OpenIn(a)) \in Nat
PROOF
  <1>1. GrantedFrom(a) \subseteq Granted /\ OpenIn(a) \subseteq Granted
    BY DEF OpenIn, GrantedFrom, Granted
  <1> QED
    BY <1>1, FS_Subset, FS_CardinalityType

\* Numbers of a row that is there.
LEMMA RowTyped ==
  ASSUME NEW row \in Ledger, NEW a \in Allowance
  PROVE  /\ row[a] \in Account
         /\ row[a].reserved.calls \in Nat /\ row[a].reserved.tokens \in Nat
         /\ row[a].consumed.calls \in Nat /\ row[a].consumed.tokens \in Nat
         /\ Booked(row[a]) \in Nat
  BY DEF Ledger, Account, Totals, Booked

\* The step of one call: what it does to the sets.
LEMMA SetsMove ==
  ASSUME NEW c \in LlmCall, \A d \in LlmCall : d # c => calls'[d] = calls[d], NEW a
  PROVE  /\ calls'[c].granted /\ a \in Books(c) => GrantedFrom(a)' = GrantedFrom(a) \cup {c}
         /\ calls'[c].granted = calls[c].granted \/ a \notin Books(c) => GrantedFrom(a)' = GrantedFrom(a)
         /\ Unsettled(c)' /\ a \in Books(c) => OpenIn(a)' = OpenIn(a) \cup {c}
         /\ ~Unsettled(c)' => OpenIn(a)' = OpenIn(a) \ {c}
         /\ a \notin Books(c) => OpenIn(a)' = OpenIn(a)
PROOF
  <1>1. \A d \in LlmCall : d # c => (Unsettled(d)' <=> Unsettled(d))
    BY DEF Unsettled
  <1>2. OpenIn(a) = {d \in LlmCall : a \in Books(d) /\ Unsettled(d)}
        /\ OpenIn(a)' = {d \in LlmCall : a \in Books(d) /\ Unsettled(d)'}
    BY DEF OpenIn, GrantedFrom, Unsettled, Books
  <1>3. GrantedFrom(a)' = {d \in LlmCall : calls'[d].granted /\ a \in Books(d)}
    BY DEF GrantedFrom, Books
  <1> QED
    BY <1>1, <1>2, <1>3 DEF GrantedFrom

\* A step of a call that reserves, settles and strands nothing keeps the counts.
LEMMA CountsKept ==
  ASSUME LlmInv, NEW c \in LlmCall, \A d \in LlmCall : d # c => calls'[d] = calls[d],
         calls'[c].granted = calls[c].granted,
         Unsettled(c) => Unsettled(c)',
         UNCHANGED <<ledger, lost, stranded>>
  PROVE  GrantedHaveRow' /\ AccountsCount'
PROOF
  <1>1. Granted' = Granted
    BY DEF Granted
  <1>2. GrantedHaveRow'
    BY <1>1 DEF LlmInv, GrantedHaveRow
  <1>3. ASSUME NEW a \in Allowance PROVE CountedIn(a)' /\ OwnedIn(a)'
    <2>1. GrantedFrom(a)' = GrantedFrom(a)
      BY SetsMove
    <2>2. OpenIn(a) \subseteq OpenIn(a)'
      BY SetsMove DEF OpenIn
    <2>3. /\ IsFiniteSet(OpenIn(a)') /\ Cardinality(OpenIn(a)) \in Nat
          /\ Cardinality(OpenIn(a)') \in Nat
      <3>1. OpenIn(a)' \subseteq Granted'
        BY DEF OpenIn, GrantedFrom, Granted
      <3> QED
        BY <1>2, <3>1, BookedFinite, FS_Subset, FS_CardinalityType DEF LlmInv, GrantedHaveRow
    <2>4. Cardinality(OpenIn(a)) <= Cardinality(OpenIn(a)')
      BY <2>2, <2>3, FS_Subset
    <2>5. CountedIn(a) /\ OwnedIn(a) /\ stranded \in Nat
      BY DEF LlmInv, AccountsCount, LlmTypeOK
    <2>6. ledger # NoLedger => ledger[a].reserved.calls \in Nat
      BY RowTyped DEF LlmInv, LlmTypeOK
    <2> QED
      BY <2>1, <2>3, <2>4, <2>5, <2>6 DEF CountedIn, OwnedIn
  <1> QED
    BY <1>2, <1>3 DEF AccountsCount

\* A grant adds its call to the granted ones and to those under way.
LEMMA CountsGrow ==
  ASSUME LlmInv, NEW c \in LlmCall, calls[c].at \in BeforeGrant,
         \A d \in LlmCall : d # c => calls'[d] = calls[d],
         calls'[c].granted, Unsettled(c)', NEW a, a \in Books(c)
  PROVE  /\ IsFiniteSet(Granted') /\ Granted' # {}
         /\ Cardinality(GrantedFrom(a)) \in Nat
         /\ Cardinality(GrantedFrom(a)') = Cardinality(GrantedFrom(a)) + 1
         /\ Cardinality(OpenIn(a)) \in Nat
         /\ Cardinality(OpenIn(a)') = Cardinality(OpenIn(a)) + 1
PROOF
  <1>1. c \notin GrantedFrom(a) /\ c \notin OpenIn(a)
    BY DEF LlmInv, StepTellsGrant, GrantedFrom, OpenIn, Unsettled
  <1>2. GrantedFrom(a)' = GrantedFrom(a) \cup {c} /\ OpenIn(a)' = OpenIn(a) \cup {c}
    BY SetsMove
  <1>3. Granted' = Granted \cup {c}
    BY DEF Granted
  <1>4. /\ IsFiniteSet(Granted) /\ IsFiniteSet(GrantedFrom(a)) /\ IsFiniteSet(OpenIn(a))
        /\ Cardinality(GrantedFrom(a)) \in Nat /\ Cardinality(OpenIn(a)) \in Nat
    BY BookedFinite DEF LlmInv, GrantedHaveRow
  <1>5. /\ IsFiniteSet(Granted \cup {c})
        /\ Cardinality(GrantedFrom(a) \cup {c}) = Cardinality(GrantedFrom(a)) + 1
        /\ Cardinality(OpenIn(a) \cup {c}) = Cardinality(OpenIn(a)) + 1
    BY <1>1, <1>4, FS_AddElement
  <1> QED
    BY <1>2, <1>3, <1>4, <1>5

\* What settling does to an account: it counts no fewer calls, and one
\* reservation less if there is one.
LEMMA FinalizedAccount ==
  ASSUME NEW account \in Account, NEW used \in Nat, LlmAssumption
  PROVE  LET after == Finalized(account, used)
         IN  /\ after \in Account
             /\ Booked(after) >= Booked(account)
             /\ after.reserved.calls = IF account.reserved.calls > 0 THEN account.reserved.calls - 1 ELSE 0
             /\ after.reserved.tokens = LessOrNone(account.reserved.tokens, Estimate)
             /\ after.consumed.tokens = account.consumed.tokens + used
  BY DEF Finalized, LessOrNone, Account, Totals, Booked, LlmAssumption

\* A call is booked in an account or is not.
LEMMA FinalizedRow ==
  ASSUME NEW row \in Ledger, NEW c \in LlmCall, NEW used \in Nat
  PROVE  LET after == finalizeInLedger(row, c, used)
         IN  /\ after \in Ledger
             /\ \A a \in Allowance :
                  after[a] = IF a \in Books(c) THEN Finalized(row[a], used) ELSE row[a]
PROOF
  <1>1. \A a \in Allowance : row[a] \in Account /\ Finalized(row[a], used) \in Account
    BY FinalizedAccount, RowTyped, LlmAssumption
  <1> QED
    BY <1>1 DEF finalizeInLedger, Ledger

LEMMA ReservedRow ==
  ASSUME NEW row \in Ledger, NEW c \in LlmCall
  PROVE  LET after == reserveInLedger(row, c)
         IN  /\ after \in Ledger
             /\ \A a \in Allowance \cap Books(c) :
                  /\ after[a].reserved.calls = row[a].reserved.calls + 1
                  /\ after[a].reserved.tokens = row[a].reserved.tokens + Estimate
                  /\ after[a].consumed = row[a].consumed
                  /\ Booked(after[a]) = Booked(row[a]) + 1
             /\ \A a \in Allowance \ Books(c) : after[a] = row[a]
PROOF
  <1> DEFINE more(a) == [row[a] EXCEPT !.reserved = [calls |-> @.calls + 1, tokens |-> @.tokens + Estimate]]
  <1>1. ASSUME NEW a \in Allowance
        PROVE  /\ more(a) \in Account
               /\ more(a).reserved.calls = row[a].reserved.calls + 1
               /\ more(a).reserved.tokens = row[a].reserved.tokens + Estimate
               /\ more(a).consumed = row[a].consumed
               /\ Booked(more(a)) = Booked(row[a]) + 1
    <2>1. row[a] \in Account
      BY RowTyped
    <2> QED
      BY <2>1, LlmAssumption DEF Account, Totals, Booked
  <1>2. \A a \in Allowance : row[a] \in Account
    BY RowTyped
  <1>3. reserveInLedger(row, c) = [a \in Allowance |-> IF a \in Books(c) THEN more(a) ELSE row[a]]
    BY DEF reserveInLedger
  <1> HIDE DEF more
  <1> QED
    BY <1>1, <1>2, <1>3 DEF Ledger

\* A run starts with empty accounts.
LEMMA EmptyRow ==
  /\ createLedger \in Ledger
  /\ \A a \in Allowance : /\ createLedger[a].reserved = nothing /\ createLedger[a].consumed = nothing
                          /\ Booked(createLedger[a]) = 0
  BY DEF createLedger, nothing, Ledger, Account, Totals, Booked

\* An allowance of a call is one of its books, and all of them are allowances.
LEMMA BooksAreAllowances ==
  ASSUME NEW c \in LlmCall
  PROVE  Books(c) \subseteq Allowance /\ CallScope[c] \in Books(c)
  BY LlmAssumption DEF Books, Allowance

\* Settling a call, its own reservation or another's, keeps the counts.
LEMMA CountsSettle ==
  ASSUME LlmInv, NEW c \in LlmCall, \A d \in LlmCall : d # c => calls'[d] = calls[d],
         calls'[c].granted = calls[c].granted, ledger # NoLedger,
         NEW used \in Nat, ledger' = finalizeInLedger(ledger, c, used),
         UNCHANGED <<lost, stranded>>
  PROVE  ledger' \in Ledger /\ GrantedHaveRow' /\ AccountsCount'
PROOF
  <1>1. ledger \in Ledger /\ lost \in [Allowance -> Nat] /\ stranded \in Nat
    BY DEF LlmInv, LlmTypeOK
  <1>2. /\ ledger' \in Ledger /\ ledger' # NoLedger
        /\ \A a \in Allowance :
             ledger'[a] = IF a \in Books(c) THEN Finalized(ledger[a], used) ELSE ledger[a]
    BY <1>1, FinalizedRow, LlmAssumption
  <1>3. Granted' = Granted
    BY DEF Granted
  <1>4. GrantedHaveRow'
    BY <1>2, <1>3 DEF LlmInv, GrantedHaveRow
  <1>5. ASSUME NEW a \in Allowance PROVE CountedIn(a)' /\ OwnedIn(a)'
    <2>1. CountedIn(a) /\ OwnedIn(a)
      BY DEF LlmInv, AccountsCount
    <2>2. GrantedFrom(a)' = GrantedFrom(a)
      BY SetsMove
    <2>3. /\ ledger[a] \in Account /\ Booked(ledger[a]) \in Nat /\ ledger[a].reserved.calls \in Nat
          /\ Booked(ledger'[a]) \in Nat /\ ledger'[a].reserved.calls \in Nat
          /\ lost[a] \in Nat
      BY <1>1, <1>2, RowTyped
    <2>4. IsFiniteSet(OpenIn(a)) /\ Cardinality(OpenIn(a)) \in Nat /\ Cardinality(GrantedFrom(a)) \in Nat
      BY BookedFinite DEF LlmInv, GrantedHaveRow
    <2>5. CASE a \notin Books(c)
      <3>1. ledger'[a] = ledger[a] /\ OpenIn(a)' = OpenIn(a)
        BY <1>2, <2>5, SetsMove
      <3> QED
        BY <1>2, <2>1, <2>2, <3>1 DEF CountedIn, OwnedIn, LlmInv
    <2>6. CASE a \in Books(c)
      <3>1. /\ Booked(ledger'[a]) >= Booked(ledger[a])
            /\ ledger'[a].reserved.calls
                 = IF ledger[a].reserved.calls > 0 THEN ledger[a].reserved.calls - 1 ELSE 0
        <4>1. ledger'[a] = Finalized(ledger[a], used)
          BY <1>2, <2>6
        <4>2. /\ Booked(Finalized(ledger[a], used)) >= Booked(ledger[a])
              /\ Finalized(ledger[a], used).reserved.calls
                   = IF ledger[a].reserved.calls > 0 THEN ledger[a].reserved.calls - 1 ELSE 0
          BY <2>3, FinalizedAccount, LlmAssumption
        <4> QED
          BY <4>1, <4>2
      <3>2. CountedIn(a)'
        BY <2>1, <2>2, <2>3, <2>4, <3>1 DEF CountedIn
      <3>3. OpenIn(a)' = OpenIn(a) \cup {c} \/ OpenIn(a)' = OpenIn(a) \ {c}
        BY <2>6, SetsMove
      <3>4. /\ Cardinality(OpenIn(a)') >= Cardinality(OpenIn(a)) - 1
            /\ Cardinality(OpenIn(a)') \in Nat
        <4>1. /\ Cardinality(OpenIn(a) \cup {c}) \in {Cardinality(OpenIn(a)), Cardinality(OpenIn(a)) + 1}
              /\ Cardinality(OpenIn(a) \ {c}) \in {Cardinality(OpenIn(a)), Cardinality(OpenIn(a)) - 1}
          BY <2>4, FS_AddElement, FS_RemoveElement
        <4>2. IsFiniteSet(OpenIn(a) \cup {c}) /\ IsFiniteSet(OpenIn(a) \ {c})
          BY <2>4, FS_AddElement, FS_RemoveElement
        <4>3. Cardinality(OpenIn(a)') \in Nat
          BY <3>3, <4>2, FS_CardinalityType
        <4>4. CASE OpenIn(a)' = OpenIn(a) \cup {c}
          BY <2>4, <4>1, <4>3, <4>4
        <4>5. CASE OpenIn(a)' = OpenIn(a) \ {c}
          BY <2>4, <4>1, <4>3, <4>5
        <4> QED
          BY <3>3, <4>4, <4>5
      <3>5. OwnedIn(a)'
        BY <1>1, <2>1, <2>3, <2>4, <3>1, <3>4 DEF OwnedIn
      <3> QED
        BY <3>2, <3>5
    <2> QED
      BY <2>5, <2>6
  <1> QED
    BY <1>2, <1>4, <1>5 DEF AccountsCount

\* The parts of the invariant that are about where each call stands.
Standing == StepTellsGrant /\ InsertedFits

LEMMA StandingKept ==
  ASSUME LlmInv, NEW c \in LlmCall, \A d \in LlmCall : d # c => calls'[d] = calls[d],
         calls'[c].at \in BeforeGrant => ~calls'[c].granted /\ ~calls'[c].settled,
         calls'[c].at \in AfterGrant => calls'[c].granted,
         calls'[c].at = "inserting" => Fits
  PROVE  Standing'
  BY DEF LlmInv, Standing, StepTellsGrant, InsertedFits

\* A call that gets its turn, or passes it, takes no other call's.
LEMMA TurnsKept ==
  ASSUME LlmInv, NEW c \in LlmCall, \A d \in LlmCall : d # c => calls'[d] = calls[d],
         \/ UNCHANGED turns
         \/ turns' = [turns EXCEPT ![CallHome[c]] = Append(@, c)]
         \/ HasTurn(c) /\ PassTurn(c),
         calls'[c].at \in {"answered", "settling"} => HasTurn(c) /\ UNCHANGED turns
  PROVE  TurnIsHeld' /\ turns' \in [Process -> Seq(LlmCall)]
PROOF
  <1> DEFINE p == CallHome[c]
  <1>1. /\ turns \in [Process -> Seq(LlmCall)] /\ p \in Process
        /\ \A d \in LlmCall : CallHome[d] \in Process
    BY LlmAssumption DEF LlmInv, LlmTypeOK
  <1> HIDE DEF p
  <1>2. turns' \in [Process -> Seq(LlmCall)]
    <2>1. Append(turns[p], c) \in Seq(LlmCall)
      BY <1>1, AppendProperties
    <2>2. turns[p] # <<>> => Tail(turns[p]) \in Seq(LlmCall)
      BY <1>1, HeadTailProperties
    <2> QED
      BY <1>1, <2>1, <2>2 DEF HasTurn, PassTurn, p
  <1>3. ASSUME NEW d \in LlmCall, calls'[d].at \in {"answered", "settling"}
        PROVE  HasTurn(d)'
    <2>1. HasTurn(d) /\ turns[CallHome[d]] \in Seq(LlmCall)
      BY <1>1, <1>3 DEF LlmInv, TurnIsHeld
    <2>2. CASE UNCHANGED turns
      BY <2>1, <2>2 DEF HasTurn
    <2>3. CASE turns' = [turns EXCEPT ![p] = Append(@, c)]
      <3>1. CASE CallHome[d] = p
        <4>1. turns'[p] = Append(turns[p], c) /\ turns[p] # <<>> /\ turns[p] \in Seq(LlmCall)
          BY <1>1, <2>1, <2>3, <3>1 DEF HasTurn
        <4>2. Append(turns[p], c) # <<>> /\ Head(Append(turns[p], c)) = Head(turns[p])
          BY <4>1, HeadTailAppend, AppendProperties
        <4> QED
          BY <2>1, <3>1, <4>1, <4>2 DEF HasTurn
      <3>2. CASE CallHome[d] # p
        BY <1>1, <2>1, <2>3, <3>2 DEF HasTurn
      <3> QED
        BY <3>1, <3>2
    <2>4. CASE HasTurn(c) /\ PassTurn(c) /\ turns' # turns
      <3>1. d # c
        BY <1>3, <2>4
      <3>2. CallHome[d] # p
        BY <2>1, <2>4, <3>1 DEF HasTurn, p
      <3> QED
        BY <1>1, <2>1, <2>4, <3>2 DEF HasTurn, PassTurn, p
    <2> QED
      BY <2>2, <2>3, <2>4 DEF p
  <1> QED
    BY <1>2, <1>3 DEF TurnIsHeld

---------------------------------------------------------------------------
(* The actions.                                                            *)

\* What all steps of one call have in common.
OfOneCall(c) ==
  /\ calls' \in [LlmCall -> CallState]
  /\ \A d \in LlmCall : d # c => calls'[d] = calls[d]
  /\ calls'[c].at \in BeforeGrant => ~calls'[c].granted /\ ~calls'[c].settled
  /\ calls'[c].at \in AfterGrant => calls'[c].granted
  /\ calls'[c].at = "inserting" => Fits
  /\ \/ UNCHANGED turns
     \/ turns' = [turns EXCEPT ![CallHome[c]] = Append(@, c)]
     \/ HasTurn(c) /\ PassTurn(c)
  /\ calls'[c].at \in {"answered", "settling"} => HasTurn(c) /\ UNCHANGED turns
  /\ llmFaults' \in 0 .. MaxLlmFaults

LEMMA OneCallStep ==
  ASSUME LlmInv, NEW c \in LlmCall, OfOneCall(c),
         ledger' \in Ledger \cup {NoLedger}, lost' \in [Allowance -> Nat], stranded' \in Nat,
         GrantedHaveRow', AccountsCount'
  PROVE  LlmInv'
PROOF
  <1>1. Standing'
    BY StandingKept DEF OfOneCall
  <1>2. TurnIsHeld' /\ turns' \in [Process -> Seq(LlmCall)]
    BY TurnsKept DEF OfOneCall
  <1>3. LlmTypeOK'
    BY <1>2 DEF LlmTypeOK, OfOneCall
  <1> QED
    BY <1>1, <1>2, <1>3 DEF LlmInv, Standing

\* A fault spent stays within the bound.
LEMMA FaultSpent == LlmInv /\ SpendFault => llmFaults' \in 0 .. MaxLlmFaults
  BY LlmAssumption DEF LlmInv, LlmTypeOK, SpendFault

\* A grant to c books it in its accounts, on a row that was there or a new one.
LEMMA GrantCounts ==
  ASSUME LlmInv, NEW c \in LlmCall, calls[c].at \in BeforeGrant,
         \A d \in LlmCall : d # c => calls'[d] = calls[d],
         calls'[c].granted, Unsettled(c)', UNCHANGED stranded,
         NEW row \in Ledger, ledger' = reserveInLedger(row, c), lost' \in [Allowance -> Nat],
         \A a \in Allowance : Cardinality(GrantedFrom(a)) <= Booked(row[a]) + lost'[a],
         \A a \in Allowance : row[a].reserved.calls <= Cardinality(OpenIn(a)) + stranded
  PROVE  ledger' \in Ledger /\ GrantedHaveRow' /\ AccountsCount'
PROOF
  <1>1. /\ ledger' \in Ledger /\ ledger' # NoLedger
        /\ \A a \in Allowance \cap Books(c) :
             /\ ledger'[a].reserved.calls = row[a].reserved.calls + 1
             /\ Booked(ledger'[a]) = Booked(row[a]) + 1
        /\ \A a \in Allowance \ Books(c) : ledger'[a] = row[a]
    BY ReservedRow, LlmAssumption
  <1>2. GrantedHaveRow'
    <2>1. IsFiniteSet(Granted')
      BY CountsGrow, BooksAreAllowances
    <2> QED
      BY <1>1, <2>1 DEF GrantedHaveRow
  <1>3. ASSUME NEW a \in Allowance PROVE CountedIn(a)' /\ OwnedIn(a)'
    <2>1. /\ Booked(row[a]) \in Nat /\ row[a].reserved.calls \in Nat /\ lost'[a] \in Nat
          /\ stranded \in Nat
      BY RowTyped DEF LlmInv, LlmTypeOK
    <2>2. CASE a \in Books(c)
      <3>1. /\ Cardinality(GrantedFrom(a)) \in Nat
            /\ Cardinality(GrantedFrom(a)') = Cardinality(GrantedFrom(a)) + 1
            /\ Cardinality(OpenIn(a)) \in Nat
            /\ Cardinality(OpenIn(a)') = Cardinality(OpenIn(a)) + 1
        BY <2>2, CountsGrow
      <3>2. /\ ledger'[a].reserved.calls = row[a].reserved.calls + 1
            /\ Booked(ledger'[a]) = Booked(row[a]) + 1
        BY <1>1, <2>2
      <3>3. /\ Cardinality(GrantedFrom(a)) <= Booked(row[a]) + lost'[a]
            /\ row[a].reserved.calls <= Cardinality(OpenIn(a)) + stranded
        OBVIOUS
      <3>4. Cardinality(GrantedFrom(a)') <= Booked(ledger'[a]) + lost'[a]
        BY <2>1, <3>1, <3>2, <3>3
      <3>5. ledger'[a].reserved.calls <= Cardinality(OpenIn(a)') + stranded'
        BY <2>1, <3>1, <3>2, <3>3
      <3> QED
        BY <3>4, <3>5 DEF CountedIn, OwnedIn
    <2>3. CASE a \notin Books(c)
      <3>1. GrantedFrom(a)' = GrantedFrom(a) /\ OpenIn(a)' = OpenIn(a) /\ ledger'[a] = row[a]
        BY <1>1, <2>3, SetsMove
      <3> QED
        BY <3>1 DEF CountedIn, OwnedIn
    <2> QED
      BY <2>2, <2>3
  <1> QED
    BY <1>1, <1>2, <1>3 DEF AccountsCount

\* What an insert writes over is counted as lost.
LEMMA LostGrows ==
  ASSUME LlmInv,
         lost' = [a \in Allowance |-> lost[a] + (IF ledger = NoLedger THEN 0 ELSE Booked(ledger[a]))]
  PROVE  /\ lost' \in [Allowance -> Nat]
         /\ \A a \in Allowance : Cardinality(GrantedFrom(a)) <= lost'[a]
PROOF
  <1>1. ledger \in Ledger \cup {NoLedger} /\ lost \in [Allowance -> Nat]
    BY DEF LlmInv, LlmTypeOK
  <1>2. ASSUME NEW a \in Allowance
        PROVE  lost'[a] \in Nat /\ Cardinality(GrantedFrom(a)) <= lost'[a]
    <2>1. CASE ledger = NoLedger
      <3>1. GrantedFrom(a) = {}
        BY <2>1 DEF LlmInv, GrantedHaveRow, GrantedFrom, Granted
      <3>2. Cardinality(GrantedFrom(a)) = 0
        BY <3>1, FS_EmptySet
      <3> QED
        BY <1>1, <2>1, <3>2
    <2>2. CASE ledger # NoLedger
      <3>1. Booked(ledger[a]) \in Nat
        BY <1>1, <2>2, RowTyped
      <3>2. Cardinality(GrantedFrom(a)) <= Booked(ledger[a]) + lost[a]
        BY <2>2 DEF LlmInv, AccountsCount, CountedIn
      <3>3. lost'[a] = lost[a] + Booked(ledger[a]) /\ lost[a] \in Nat
        BY <1>1, <2>2
      <3>4. Cardinality(GrantedFrom(a)) \in Nat
        BY BookedFinite DEF LlmInv, GrantedHaveRow
      <3> QED
        BY <3>1, <3>2, <3>3, <3>4
    <2> QED
      BY <2>1, <2>2
  <1> QED
    BY <1>1, <1>2

LEMMA ReserveStep ==
  ASSUME LlmInv, NEW c \in LlmCall, Reserve(c)
  PROVE  LlmInv'
PROOF
  <1>1. /\ calls \in [LlmCall -> CallState] /\ ledger \in Ledger /\ ledger # NoLedger
        /\ lost \in [Allowance -> Nat] /\ stranded \in Nat /\ calls[c].at = "idle"
        /\ ~calls[c].granted /\ ~calls[c].settled
        /\ llmFaults \in 0 .. MaxLlmFaults
        /\ UNCHANGED <<turns, lost, stranded, llmFaults>>
    BY DEF Reserve, LlmInv, LlmTypeOK, StepTellsGrant, BeforeGrant
  <1>2. CASE assertCapacity(ledger, c)
    <2>1. ledger' = reserveInLedger(ledger, c) /\ Grant(c)
      BY <1>2 DEF Reserve
    <2>2. /\ calls' \in [LlmCall -> CallState]
          /\ \A d \in LlmCall : d # c => calls'[d] = calls[d]
          /\ calls'[c].at = "granted" /\ calls'[c].granted = TRUE
          /\ calls'[c].settled = calls[c].settled
      BY <1>1, <2>1 DEF Grant, CallState, CallStep
    <2>3. Unsettled(c)' /\ calls[c].at \in BeforeGrant
      BY <1>1, <2>2 DEF Unsettled, BeforeGrant
    <2>4. ledger' \in Ledger /\ GrantedHaveRow' /\ AccountsCount'
      <3>1. \A a \in Allowance : /\ Cardinality(GrantedFrom(a)) <= Booked(ledger[a]) + lost'[a]
                                 /\ ledger[a].reserved.calls <= Cardinality(OpenIn(a)) + stranded
        BY <1>1 DEF LlmInv, AccountsCount, CountedIn, OwnedIn
      <3> QED
        BY <1>1, <2>1, <2>2, <2>3, <3>1, GrantCounts
    <2>5. OfOneCall(c)
      BY <1>1, <2>2 DEF OfOneCall, BeforeGrant, AfterGrant
    <2> QED
      BY <1>1, <2>4, <2>5, OneCallStep
  <1>3. CASE ~assertCapacity(ledger, c)
    <2>1. calls' = [calls EXCEPT ![c].at = "refused"] /\ UNCHANGED ledger
      BY <1>3 DEF Reserve, MoveCall
    <2>2. /\ calls' \in [LlmCall -> CallState]
          /\ \A d \in LlmCall : d # c => calls'[d] = calls[d]
          /\ calls'[c].at = "refused" /\ calls'[c].granted = calls[c].granted
          /\ calls'[c].settled = calls[c].settled
      BY <1>1, <2>1 DEF CallState, CallStep
    <2>3. GrantedHaveRow' /\ AccountsCount'
      BY <1>1, <2>1, <2>2, CountsKept DEF Unsettled
    <2>4. OfOneCall(c)
      BY <1>1, <2>2 DEF OfOneCall, BeforeGrant, AfterGrant
    <2> QED
      BY <1>1, <2>1, <2>3, <2>4, OneCallStep
  <1> QED
    BY <1>2, <1>3

LEMMA InsertFirstStep ==
  ASSUME LlmInv, NEW c \in LlmCall, InsertFirst(c)
  PROVE  LlmInv'
PROOF
  <1>1. /\ calls \in [LlmCall -> CallState] /\ stranded \in Nat /\ calls[c].at = "inserting"
        /\ ~calls[c].granted /\ ~calls[c].settled
        /\ llmFaults \in 0 .. MaxLlmFaults
        /\ UNCHANGED <<turns, stranded, llmFaults>>
    BY DEF InsertFirst, LlmInv, LlmTypeOK, StepTellsGrant, BeforeGrant
  <1>2. /\ lost' \in [Allowance -> Nat]
        /\ \A a \in Allowance : Cardinality(GrantedFrom(a)) <= lost'[a]
    BY LostGrows DEF InsertFirst
  <1>3. ledger' = reserveInLedger(createLedger, c) /\ Grant(c)
    BY DEF InsertFirst
  <1>4. /\ calls' \in [LlmCall -> CallState]
        /\ \A d \in LlmCall : d # c => calls'[d] = calls[d]
        /\ calls'[c].at = "granted" /\ calls'[c].granted = TRUE
        /\ calls'[c].settled = calls[c].settled
    BY <1>1, <1>3 DEF Grant, CallState, CallStep
  <1>5. Unsettled(c)' /\ calls[c].at \in BeforeGrant
    BY <1>1, <1>4 DEF Unsettled, BeforeGrant
  <1>6. ledger' \in Ledger /\ GrantedHaveRow' /\ AccountsCount'
    <2>1. \A a \in Allowance : Cardinality(GrantedFrom(a)) <= Booked(createLedger[a]) + lost'[a]
      BY <1>2, EmptyRow
    <2>2. \A a \in Allowance : createLedger[a].reserved.calls <= Cardinality(OpenIn(a)) + stranded
      <3>1. ASSUME NEW a \in Allowance PROVE createLedger[a].reserved.calls <= Cardinality(OpenIn(a)) + stranded
        <4>1. createLedger[a].reserved.calls = 0
          BY EmptyRow DEF nothing
        <4>2. Cardinality(OpenIn(a)) \in Nat
          BY BookedFinite DEF LlmInv, GrantedHaveRow
        <4> QED
          BY <1>1, <4>1, <4>2
      <3> QED
        BY <3>1
    <2> QED
      BY <1>1, <1>2, <1>3, <1>4, <1>5, <2>1, <2>2, EmptyRow, GrantCounts
  <1>7. OfOneCall(c)
    BY <1>1, <1>4 DEF OfOneCall, BeforeGrant, AfterGrant
  <1> QED
    BY <1>1, <1>2, <1>6, <1>7, OneCallStep

LEMMA EmptyFits ==
  ASSUME NEW c \in LlmCall, assertCapacity(createLedger, c)
  PROVE  Fits
PROOF
  <1>1. CallScope[c] \in Allowance
    BY LlmAssumption
  <1>2. createLedger[CallScope[c]] = [reserved |-> nothing, consumed |-> nothing]
    BY <1>1 DEF createLedger
  <1> QED
    BY <1>2, LlmAssumption DEF assertCapacity, Booked, nothing, Fits

\* The steps that leave the row alone.
LEMMA OutsideLedgerStep ==
  ASSUME LlmInv, NEW c \in LlmCall,
         ReserveFirst(c) \/ JoinTurns(c) \/ Answered(c) \/ Dropped(c) \/ OutOfTime(c) \/ Persist(c)
  PROVE  LlmInv'
PROOF
  <1>1. /\ calls \in [LlmCall -> CallState] /\ ledger \in Ledger \cup {NoLedger}
        /\ lost \in [Allowance -> Nat] /\ stranded \in Nat /\ llmFaults \in 0 .. MaxLlmFaults
        /\ turns \in [Process -> Seq(LlmCall)]
    BY DEF LlmInv, LlmTypeOK
  <1>2. /\ calls[c].at \in BeforeGrant => ~calls[c].granted /\ ~calls[c].settled
        /\ calls[c].at \in AfterGrant => calls[c].granted
    BY DEF LlmInv, StepTellsGrant
  <1>3. UNCHANGED <<ledger, lost, stranded>>
    BY DEF ReserveFirst, JoinTurns, Answered, Dropped, OutOfTime, Persist
  <1>4. llmFaults' \in 0 .. MaxLlmFaults
    BY <1>1, FaultSpent DEF ReserveFirst, JoinTurns, Answered, Dropped, OutOfTime, Persist
  <1>5. /\ OfOneCall(c)
        /\ calls'[c].granted = calls[c].granted
        /\ Unsettled(c) => Unsettled(c)'
    <2>1. CASE ReserveFirst(c)
      <3>1. /\ calls[c].at = "idle" /\ UNCHANGED turns
            /\ calls' = [calls EXCEPT ![c].at = IF assertCapacity(createLedger, c) THEN "inserting" ELSE "refused"]
        BY <2>1 DEF ReserveFirst, MoveCall
      <3>2. assertCapacity(createLedger, c) => Fits
        BY EmptyFits
      <3> QED
        BY <1>1, <1>2, <1>4, <3>1, <3>2, ZenonT(60)
        DEF OfOneCall, Unsettled, CallState, CallStep, BeforeGrant, AfterGrant
    <2>2. CASE JoinTurns(c)
      BY <1>1, <1>2, <1>4, <2>2, ZenonT(60)
      DEF JoinTurns, MoveCall, OfOneCall, Unsettled, CallState, CallStep, BeforeGrant, AfterGrant
    <2>3. CASE Answered(c)
      <3>1. PICK n \in Usage : calls' = [calls EXCEPT ![c].at = "answered", ![c].used = n]
        BY <2>3 DEF Answered
      <3>2. n \in Nat /\ calls[c].at = "waiting" /\ HasTurn(c) /\ UNCHANGED turns
        BY <2>3, LlmAssumption DEF Answered
      <3> QED
        BY <1>1, <1>2, <1>4, <3>1, <3>2, ZenonT(60)
        DEF OfOneCall, Unsettled, CallState, CallStep, BeforeGrant, AfterGrant
    <2>4. CASE Dropped(c)
      <3>1. calls[c].at = "waiting" /\ HasTurn(c) /\ PassTurn(c)
        BY <2>4 DEF Dropped
      <3>2. \/ calls' = [calls EXCEPT ![c].at = "granted", ![c].tries = @ + 1]
            \/ calls' = [calls EXCEPT ![c].at = "failing"]
        BY <2>4 DEF Dropped, MoveCall
      <3>3. CASE calls' = [calls EXCEPT ![c].at = "granted", ![c].tries = @ + 1]
        BY <1>1, <1>2, <1>4, <3>1, <3>3
        DEF OfOneCall, Unsettled, CallState, CallStep, BeforeGrant, AfterGrant
      <3>4. CASE calls' = [calls EXCEPT ![c].at = "failing"]
        BY <1>1, <1>2, <1>4, <3>1, <3>4, ZenonT(60)
        DEF OfOneCall, Unsettled, CallState, CallStep, BeforeGrant, AfterGrant
      <3> QED
        BY <3>2, <3>3, <3>4
    <2>5. CASE OutOfTime(c)
      BY <1>1, <1>2, <1>4, <2>5, ZenonT(60)
      DEF OutOfTime, MoveCall, OfOneCall, Unsettled, CallState, CallStep, BeforeGrant, AfterGrant
    <2>6. CASE Persist(c)
      <3>1. calls[c].at = "answered" /\ UNCHANGED turns /\ HasTurn(c)
        BY <2>6 DEF Persist, LlmInv, TurnIsHeld
      <3>2. \/ calls' = [calls EXCEPT ![c].at = "settling"]
            \/ calls' = [calls EXCEPT ![c].at = "settling", ![c].throws = TRUE]
        BY <2>6 DEF Persist, MoveCall
      <3>3. CASE calls' = [calls EXCEPT ![c].at = "settling"]
        BY <1>1, <1>2, <1>4, <3>1, <3>3, ZenonT(60)
        DEF OfOneCall, Unsettled, CallState, CallStep, BeforeGrant, AfterGrant
      <3>4. CASE calls' = [calls EXCEPT ![c].at = "settling", ![c].throws = TRUE]
        BY <1>1, <1>2, <1>4, <3>1, <3>4, ZenonT(60)
        DEF OfOneCall, Unsettled, CallState, CallStep, BeforeGrant, AfterGrant
      <3> QED
        BY <3>2, <3>3, <3>4
    <2> QED
      BY <2>1, <2>2, <2>3, <2>4, <2>5, <2>6
  <1>6. GrantedHaveRow' /\ AccountsCount'
    BY <1>3, <1>5, CountsKept DEF OfOneCall
  <1> QED
    BY <1>1, <1>3, <1>5, <1>6, OneCallStep

LEMMA SettleStep ==
  ASSUME LlmInv, NEW c \in LlmCall, Settle(c)
  PROVE  LlmInv'
PROOF
  <1>1. /\ calls \in [LlmCall -> CallState] /\ ledger \in Ledger \cup {NoLedger}
        /\ lost \in [Allowance -> Nat] /\ stranded \in Nat /\ llmFaults \in 0 .. MaxLlmFaults
        /\ calls[c].at = "settling" /\ calls[c].granted /\ HasTurn(c)
        /\ PassTurn(c) /\ UNCHANGED <<lost, stranded>>
    BY DEF Settle, LlmInv, LlmTypeOK, StepTellsGrant, TurnIsHeld, AfterGrant
  <1>2. ledger # NoLedger /\ ledger \in Ledger
    BY <1>1 DEF LlmInv, GrantedHaveRow, Granted
  <1>3. CASE /\ ledger' = finalizeInLedger(ledger, c, calls[c].used)
             /\ calls' = [calls EXCEPT ![c].at = IF calls[c].throws THEN "failing" ELSE "done",
                                       ![c].settled = TRUE]
             /\ UNCHANGED llmFaults
    <2>1. /\ calls' \in [LlmCall -> CallState]
          /\ \A d \in LlmCall : d # c => calls'[d] = calls[d]
          /\ calls'[c].at \in {"failing", "done"} /\ calls'[c].granted = calls[c].granted
      <3> DEFINE step == IF calls[c].throws THEN "failing" ELSE "done"
      <3>1. step \in {"failing", "done"}
        OBVIOUS
      <3>2. calls' = [calls EXCEPT ![c].at = step, ![c].settled = TRUE]
        BY <1>3
      <3> HIDE DEF step
      <3> QED
        BY <1>1, <3>1, <3>2, ZenonT(60) DEF CallState, CallStep
    <2>2. OfOneCall(c)
      BY <1>1, <1>3, <2>1 DEF OfOneCall, BeforeGrant, AfterGrant
    <2>3. calls[c].used \in Nat
      BY <1>1 DEF CallState
    <2>4. GrantedHaveRow' /\ AccountsCount'
      BY <1>1, <1>2, <1>3, <2>1, <2>3, CountsSettle
    <2>5. ledger' \in Ledger
      BY <1>1, <1>2, <1>3, <2>1, <2>3, CountsSettle
    <2> QED
      BY <1>1, <2>2, <2>4, <2>5, OneCallStep
  <1>4. CASE /\ calls' = [calls EXCEPT ![c].at = "failing", ![c].throws = TRUE]
             /\ SpendFault /\ UNCHANGED ledger
    <2>1. /\ calls' \in [LlmCall -> CallState]
          /\ \A d \in LlmCall : d # c => calls'[d] = calls[d]
          /\ calls'[c].at = "failing" /\ calls'[c].granted = calls[c].granted
          /\ calls'[c].settled = calls[c].settled
      BY <1>1, <1>4, ZenonT(60) DEF CallState, CallStep
    <2>2. OfOneCall(c)
      BY <1>1, <1>4, <2>1, FaultSpent DEF OfOneCall, BeforeGrant, AfterGrant
    <2>3. GrantedHaveRow' /\ AccountsCount'
      BY <1>1, <1>4, <2>1, CountsKept DEF Unsettled
    <2> QED
      BY <1>1, <1>4, <2>2, <2>3, OneCallStep
  <1> QED
    BY <1>3, <1>4 DEF Settle

LEMMA SettleFailedStep ==
  ASSUME LlmInv, NEW c \in LlmCall, SettleFailed(c)
  PROVE  LlmInv'
PROOF
  <1>1. /\ calls \in [LlmCall -> CallState] /\ ledger \in Ledger \cup {NoLedger}
        /\ lost \in [Allowance -> Nat] /\ stranded \in Nat /\ llmFaults \in 0 .. MaxLlmFaults
        /\ calls[c].at = "failing" /\ calls[c].granted
        /\ calls' = [calls EXCEPT ![c].at = "done"]
        /\ UNCHANGED <<turns, lost>>
    BY DEF SettleFailed, MoveCall, LlmInv, LlmTypeOK, StepTellsGrant, AfterGrant
  <1>2. ledger # NoLedger /\ ledger \in Ledger
    BY <1>1 DEF LlmInv, GrantedHaveRow, Granted
  <1>3. /\ calls' \in [LlmCall -> CallState]
        /\ \A d \in LlmCall : d # c => calls'[d] = calls[d]
        /\ calls'[c].at = "done" /\ calls'[c].granted = calls[c].granted
        /\ calls'[c].settled = calls[c].settled
    BY <1>1 DEF CallState, CallStep
  <1>4. llmFaults' \in 0 .. MaxLlmFaults
    BY <1>1, FaultSpent DEF SettleFailed
  <1>5. OfOneCall(c)
    BY <1>1, <1>3, <1>4 DEF OfOneCall, BeforeGrant, AfterGrant
  <1>6. CASE ledger' = finalizeInLedger(ledger, c, 0) /\ UNCHANGED stranded
    <2>1. GrantedHaveRow' /\ AccountsCount'
      BY <1>1, <1>2, <1>3, <1>6, CountsSettle
    <2>2. ledger' \in Ledger
      BY <1>1, <1>2, <1>3, <1>6, CountsSettle
    <2> QED
      BY <1>1, <1>5, <1>6, <2>1, <2>2, OneCallStep
  <1>7. CASE /\ UNCHANGED ledger
             /\ stranded' = stranded + (IF calls[c].settled THEN 0 ELSE 1)
    <2>1. GrantedHaveRow'
      <3>1. Granted' = Granted
        BY <1>3 DEF Granted
      <3> QED
        BY <1>7, <3>1 DEF LlmInv, GrantedHaveRow
    <2>2. stranded' \in Nat
      BY <1>1, <1>7
    <2>3. ASSUME NEW a \in Allowance PROVE CountedIn(a)' /\ OwnedIn(a)'
      <3>1. GrantedFrom(a)' = GrantedFrom(a) /\ OpenIn(a)' = OpenIn(a) \ {c}
        BY <1>3, SetsMove DEF Unsettled
      <3>2. IsFiniteSet(OpenIn(a)) /\ Cardinality(OpenIn(a)) \in Nat
        BY BookedFinite DEF LlmInv, GrantedHaveRow
      <3>3. calls[c].settled => c \notin OpenIn(a)
        BY DEF OpenIn, Unsettled
      <3>4. /\ Cardinality(OpenIn(a) \ {c}) = IF c \in OpenIn(a) THEN Cardinality(OpenIn(a)) - 1
                                              ELSE Cardinality(OpenIn(a))
            /\ Cardinality(OpenIn(a) \ {c}) \in Nat
        BY <3>2, FS_RemoveElement, FS_CardinalityType
      <3>5. ledger[a].reserved.calls \in Nat
        BY <1>2, RowTyped
      <3>6. CountedIn(a) /\ OwnedIn(a)
        BY DEF LlmInv, AccountsCount
      <3>7. CountedIn(a)'
        BY <1>1, <1>7, <3>1, <3>6 DEF CountedIn
      <3>8. OwnedIn(a)'
        BY <1>1, <1>2, <1>7, <3>1, <3>2, <3>3, <3>4, <3>5, <3>6 DEF OwnedIn
      <3> QED
        BY <3>7, <3>8
    <2>4. AccountsCount'
      BY <2>3 DEF AccountsCount
    <2> QED
      BY <1>1, <1>5, <1>7, <2>1, <2>2, <2>4, OneCallStep
  <1> QED
    BY <1>6, <1>7 DEF SettleFailed

\* A process that dies takes its calls with it, and strands what they reserved.
LEMMA CrashStep ==
  ASSUME LlmInv, NEW p \in Process, LlmCrash(p)
  PROVE  LlmInv'
PROOF
  <1> DEFINE gone == {c \in LlmCall : CallHome[c] = p
                                      /\ calls[c].at \notin {"idle", "refused", "done", "dead"}}
             open == {c \in gone : Unsettled(c)}
  <1>1. /\ calls' = [c \in LlmCall |-> IF c \in gone THEN [calls[c] EXCEPT !.at = "dead"] ELSE calls[c]]
        /\ turns' = [turns EXCEPT ![p] = <<>>]
        /\ stranded' = stranded + Cardinality(open)
        /\ SpendFault /\ UNCHANGED <<ledger, lost>>
    BY DEF LlmCrash
  <1>2. /\ calls \in [LlmCall -> CallState] /\ ledger \in Ledger \cup {NoLedger}
        /\ lost \in [Allowance -> Nat] /\ stranded \in Nat /\ turns \in [Process -> Seq(LlmCall)]
    BY DEF LlmInv, LlmTypeOK
  <1>3. /\ \A c \in gone : calls'[c].at = "dead" /\ calls'[c].granted = calls[c].granted
        /\ \A c \in LlmCall \ gone : calls'[c] = calls[c]
        /\ calls' \in [LlmCall -> CallState]
    BY <1>1, <1>2 DEF CallState, CallStep
  <1>4. \A c \in LlmCall \ gone :
          CallHome[c] = p => calls[c].at \in {"idle", "refused", "done", "dead"}
    OBVIOUS
  <1> HIDE DEF gone
  <1>5. gone \subseteq LlmCall /\ open \subseteq gone
    BY DEF gone
  <1>6. Granted' = Granted /\ \A a : GrantedFrom(a)' = GrantedFrom(a)
    BY <1>3 DEF Granted, GrantedFrom, Books
  <1>7. IsFiniteSet(open) /\ Cardinality(open) \in Nat
    <2>1. open \subseteq Granted
      BY <1>5 DEF Granted, Unsettled
    <2> QED
      BY <2>1, FS_Subset, FS_CardinalityType DEF LlmInv, GrantedHaveRow
  <1>8. \A a : OpenIn(a)' = OpenIn(a) \ open
    <2> SUFFICES ASSUME NEW a PROVE OpenIn(a)' = OpenIn(a) \ open
      OBVIOUS
    <2>1. \A d \in LlmCall : Unsettled(d)' <=> Unsettled(d) /\ d \notin gone
      BY <1>3 DEF Unsettled
    <2>2. OpenIn(a) = {d \in LlmCall : a \in Books(d) /\ Unsettled(d)}
          /\ OpenIn(a)' = {d \in LlmCall : a \in Books(d) /\ Unsettled(d)'}
      BY DEF OpenIn, GrantedFrom, Unsettled, Books
    <2> QED
      BY <1>5, <2>1, <2>2
  <1> HIDE DEF open
  <1>9. ASSUME NEW a \in Allowance
        PROVE  Cardinality(OpenIn(a)) <= Cardinality(OpenIn(a)') + Cardinality(open)
    <2>1. IsFiniteSet(OpenIn(a)) /\ Cardinality(OpenIn(a)) \in Nat
      BY BookedFinite DEF LlmInv, GrantedHaveRow
    <2>2. Cardinality(OpenIn(a) \ open) = Cardinality(OpenIn(a)) - Cardinality(OpenIn(a) \cap open)
      BY <1>7, <2>1, FS_Difference
    <2>3. Cardinality(OpenIn(a) \cap open) <= Cardinality(open)
          /\ Cardinality(OpenIn(a) \cap open) \in Nat
      <3>1. OpenIn(a) \cap open \subseteq open
        OBVIOUS
      <3> QED
        BY <1>7, <3>1, FS_Subset, FS_CardinalityType
    <2> QED
      BY <1>7, <1>8, <2>1, <2>2, <2>3
  <1>10. stranded' \in Nat
    BY <1>1, <1>2, <1>7
  <1>11. turns' \in [Process -> Seq(LlmCall)]
    BY <1>1, <1>2, EmptySeq
  <1>12. LlmTypeOK'
    BY <1>1, <1>2, <1>3, <1>10, <1>11, FaultSpent DEF LlmTypeOK
  <1>13. StepTellsGrant' /\ InsertedFits'
    BY <1>3 DEF LlmInv, StepTellsGrant, InsertedFits, BeforeGrant, AfterGrant
  <1>14. TurnIsHeld'
    <2> SUFFICES ASSUME NEW c \in LlmCall, calls'[c].at \in {"answered", "settling"}
                 PROVE  HasTurn(c)'
      BY DEF TurnIsHeld
    <2>1. c \notin gone /\ calls[c].at \in {"answered", "settling"}
      BY <1>3
    <2>2. CallHome[c] # p /\ CallHome[c] \in Process
      BY <1>4, <2>1, LlmAssumption
    <2> QED
      BY <1>1, <1>2, <2>1, <2>2 DEF LlmInv, TurnIsHeld, HasTurn
  <1>15. GrantedHaveRow'
    BY <1>1, <1>6 DEF LlmInv, GrantedHaveRow
  <1>16. ASSUME NEW a \in Allowance PROVE CountedIn(a)' /\ OwnedIn(a)'
    <2>1. CountedIn(a) /\ OwnedIn(a) /\ (ledger # NoLedger => ledger[a].reserved.calls \in Nat)
      BY <1>2, RowTyped DEF LlmInv, AccountsCount
    <2>2. CountedIn(a)'
      BY <1>1, <1>6, <2>1 DEF CountedIn
    <2>3. Cardinality(OpenIn(a)) \in Nat /\ Cardinality(OpenIn(a)') \in Nat
      <3>1. IsFiniteSet(Granted')
        BY <1>15 DEF GrantedHaveRow
      <3>2. OpenIn(a)' \subseteq Granted'
        BY DEF OpenIn, GrantedFrom, Granted
      <3> QED
        BY <3>1, <3>2, BookedFinite, FS_Subset, FS_CardinalityType DEF LlmInv, GrantedHaveRow
    <2>4. OwnedIn(a)'
      BY <1>1, <1>2, <1>7, <1>9, <2>1, <2>3 DEF OwnedIn
    <2> QED
      BY <2>2, <2>4
  <1> QED
    BY <1>12, <1>13, <1>14, <1>15, <1>16 DEF LlmInv, AccountsCount

LEMMA LlmStep == LlmInv /\ [LlmNext]_llmVars => LlmInv'
PROOF
  <1> SUFFICES ASSUME LlmInv, [LlmNext]_llmVars PROVE LlmInv'
    OBVIOUS
  <1>1. CASE UNCHANGED llmVars
    <2>1. UNCHANGED <<ledger, turns, calls, lost, stranded, llmFaults>>
      BY <1>1 DEF llmVars
    <2>2. Granted' = Granted /\ \A a : GrantedFrom(a)' = GrantedFrom(a) /\ OpenIn(a)' = OpenIn(a)
      BY <2>1 DEF Granted, GrantedFrom, OpenIn, Unsettled, Books
    <2> QED
      BY <2>1, <2>2
      DEF LlmInv, LlmTypeOK, StepTellsGrant, TurnIsHeld, HasTurn, InsertedFits,
          GrantedHaveRow, AccountsCount, CountedIn, OwnedIn
  <1> QED
    BY <1>1, ReserveStep, InsertFirstStep, OutsideLedgerStep, SettleStep, SettleFailedStep, CrashStep
    DEF LlmNext, CallSteps

\* What the calls may do and may not do, without what they will do in the end.
LlmSafety == LlmInit /\ [][LlmNext]_llmVars

LEMMA LlmInvariant == LlmSafety => []LlmInv
  BY LlmInitially, LlmStep, PTL DEF LlmSafety

LEMMA ReservationsSuffice == LlmInv => ReservationsAreReturned
PROOF
  <1> SUFFICES ASSUME LlmInv, ledger # NoLedger, \A c \in LlmCall : ~Unsettled(c),
                      NEW a \in Allowance
               PROVE  ledger[a].reserved.calls <= stranded
    BY DEF ReservationsAreReturned
  <1>1. OpenIn(a) = {}
    BY DEF OpenIn, GrantedFrom
  <1>2. Cardinality(OpenIn(a)) = 0
    BY <1>1, FS_EmptySet
  <1>3. stranded \in Nat
    BY DEF LlmInv, LlmTypeOK
  <1> QED
    BY <1>2, <1>3 DEF LlmInv, AccountsCount, OwnedIn

\* Every variable of the model calls has its type.
THEOREM LlmTypeCorrect == LlmSpec => []LlmTypeOK
PROOF
  <1>1. LlmInv => LlmTypeOK
    BY DEF LlmInv
  <1> QED
    BY <1>1, LlmInvariant, PTL DEF LlmSpec, LlmSafety

\* Only the two reservations grant a call, and they touch no other.
LEMMA GrantStep ==
  ASSUME LlmInv, NEW c \in LlmCall, Granting(c), Reserve(c) \/ InsertFirst(c)
  PROVE  /\ Reserve(c) => assertCapacity(ledger, c) /\ ledger' = reserveInLedger(ledger, c)
         /\ calls[c].at \in BeforeGrant /\ \A d \in LlmCall : d # c => calls'[d] = calls[d]
         /\ calls'[c].granted /\ Unsettled(c)'
         /\ calls'[c].at = "granted" /\ calls'[c].settled = calls[c].settled
         /\ ~calls[c].settled /\ calls'[c].throws = calls[c].throws
PROOF
  <1>1. calls \in [LlmCall -> CallState] /\ ~calls[c].granted /\ calls'[c].granted
    BY DEF LlmInv, LlmTypeOK, Granting
  <1>2. calls[c].at \in BeforeGrant /\ ~calls[c].settled
    BY DEF LlmInv, StepTellsGrant, Reserve, InsertFirst, BeforeGrant
  <1>3. Reserve(c) => assertCapacity(ledger, c) /\ ledger' = reserveInLedger(ledger, c)
    BY <1>1 DEF Reserve, MoveCall, CallState
  <1>4. Grant(c)
    BY <1>3 DEF Reserve, InsertFirst
  <1> QED
    BY <1>1, <1>2, <1>3, <1>4 DEF Grant, Unsettled, CallState

LEMMA GrantersOnly ==
  ASSUME LlmInv, NEW c \in LlmCall, [LlmNext]_llmVars, Granting(c)
  PROVE  (Reserve(c) /\ assertCapacity(ledger, c)) \/ InsertFirst(c)
PROOF
  <1>1. calls \in [LlmCall -> CallState] /\ ~calls[c].granted /\ calls'[c].granted
    BY DEF LlmInv, LlmTypeOK, Granting
  <1>2. ASSUME NEW d \in LlmCall, Reserve(d) \/ InsertFirst(d) PROVE d = c
    BY <1>1, <1>2 DEF Reserve, InsertFirst, MoveCall, Grant
  <1>3. ASSUME NEW d \in LlmCall,
               \/ ReserveFirst(d) \/ JoinTurns(d) \/ Answered(d) \/ Dropped(d) \/ OutOfTime(d)
               \/ Persist(d) \/ Settle(d) \/ SettleFailed(d)
        PROVE  calls'[c].granted = calls[c].granted
    <2>1. CASE ReserveFirst(d) \/ JoinTurns(d) \/ OutOfTime(d) \/ SettleFailed(d)
      BY <1>1, <2>1 DEF ReserveFirst, JoinTurns, OutOfTime, SettleFailed, MoveCall, CallState
    <2>2. CASE Answered(d)
      BY <1>1, <2>2 DEF Answered, CallState
    <2>3. CASE Dropped(d)
      BY <1>1, <2>3 DEF Dropped, MoveCall, CallState
    <2>4. CASE Persist(d)
      BY <1>1, <2>4 DEF Persist, MoveCall, CallState
    <2>5. CASE Settle(d)
      BY <1>1, <2>5 DEF Settle, CallState
    <2> QED
      BY <1>3, <2>1, <2>2, <2>3, <2>4, <2>5
  <1>4. ASSUME NEW p \in Process, LlmCrash(p) PROVE calls'[c].granted = calls[c].granted
    BY <1>1, <1>4 DEF LlmCrash, CallState
  <1>5. Reserve(c) \/ InsertFirst(c)
    BY <1>1, <1>2, <1>3, <1>4 DEF LlmNext, CallSteps, llmVars
  <1> QED
    BY <1>5, GrantStep

\* The account that a call is granted from has room for it.
LEMMA GrantHasRoom ==
  ASSUME LlmInv, LlmInv', NEW c \in LlmCall, [LlmNext]_llmVars, Granting(c)
  PROVE  Cardinality(GrantedFrom(CallScope[c])') <= MaxCalls + lost'[CallScope[c]]
PROOF
  <1> DEFINE a == CallScope[c]
  <1>1. a \in Allowance /\ a \in Books(c) /\ MaxCalls \in Nat
    BY BooksAreAllowances, LlmAssumption
  <1>2. (Reserve(c) /\ assertCapacity(ledger, c)) \/ InsertFirst(c)
    BY GrantersOnly
  <1>3. /\ calls[c].at \in BeforeGrant /\ \A d \in LlmCall : d # c => calls'[d] = calls[d]
        /\ calls'[c].granted /\ Unsettled(c)'
    BY <1>2, GrantStep
  <1>4. /\ Cardinality(GrantedFrom(a)) \in Nat
        /\ Cardinality(GrantedFrom(a)') = Cardinality(GrantedFrom(a)) + 1
    BY <1>1, <1>3, CountsGrow
  <1>5. lost \in [Allowance -> Nat] /\ lost' \in [Allowance -> Nat]
    BY DEF LlmInv, LlmTypeOK
  <1>6. CASE Reserve(c) /\ assertCapacity(ledger, c)
    <2>1. ledger \in Ledger /\ ledger # NoLedger /\ UNCHANGED lost
      BY <1>6 DEF Reserve, LlmInv, LlmTypeOK
    <2>2. Booked(ledger[a]) + 1 <= MaxCalls /\ Booked(ledger[a]) \in Nat
      BY <1>1, <1>6, <2>1, RowTyped DEF assertCapacity
    <2>3. Cardinality(GrantedFrom(a)) <= Booked(ledger[a]) + lost[a]
      BY <1>1, <2>1 DEF LlmInv, AccountsCount, CountedIn
    <2> QED
      BY <1>1, <1>4, <1>5, <2>1, <2>2, <2>3
  <1>7. CASE InsertFirst(c)
    <2>1. Cardinality(GrantedFrom(a)) <= lost'[a]
      BY <1>1, <1>7, LostGrows DEF InsertFirst
    <2>2. 1 <= MaxCalls
      BY <1>7 DEF InsertFirst, LlmInv, InsertedFits, Fits
    <2> QED
      BY <1>1, <1>4, <1>5, <2>1, <2>2
  <1> QED
    BY <1>2, <1>6, <1>7

LEMMA GrantedCallsAreFew == LlmSafety => GrantedCallsFit
PROOF
  <1>1. LlmInv /\ LlmInv' /\ [LlmNext]_llmVars
          => [\A c \in LlmCall :
                Granting(c) => Cardinality(GrantedFrom(CallScope[c])')
                                 <= MaxCalls + lost'[CallScope[c]]]_llmVars
    BY GrantHasRoom
  <1> QED
    BY <1>1, LlmInvariant, PTL DEF LlmSafety, GrantedCallsFit

\* A call is granted only while the calls granted before from its allowance, its
\* scope's or the whole run's, leave room for it; only what first reservations
\* lost by writing over each other comes on top, whatever dies, fails or is
\* settled twice.
THEOREM CallsAreBudgeted == LlmSpec => GrantedCallsFit
  BY GrantedCallsAreFew, PTL DEF LlmSpec, LlmSafety

\* Once no call is under way nothing stays reserved but what is stranded.
THEOREM ReservationsComeBack == LlmSpec => []ReservationsAreReturned
  BY ReservationsSuffice, LlmInvariant, PTL DEF LlmSpec, LlmSafety

---------------------------------------------------------------------------
(* Tokens.  They are counted one by one: what a call that still holds its  *)
(* reservation may use is reserved in its accounts, what a settled call    *)
(* reported is consumed there.                                             *)

\* The calls whose reservation is still there, those of dead processes included.
HoldingIn(a) == {c \in GrantedFrom(a) : ~calls[c].settled /\ calls[c].at # "done"}

\* Whether a call was settled follows from where it stands.
History(c) ==
  /\ calls[c].settled => calls[c].granted /\ calls[c].at \in {"failing", "done", "dead"}
  /\ calls[c].at = "failing" /\ ~calls[c].throws => ~calls[c].settled

UsageHistory == \A c \in LlmCall : History(c)

TokensFit(a) ==
  /\ Cardinality(TokensHeld(a)) <= ledger[a].reserved.tokens
  /\ Cardinality(TokensUsed(a)) <= ledger[a].consumed.tokens

TokensIn(a) == Undisturbed(a) /\ ledger # NoLedger => TokensFit(a)

TokensCounted == \A a \in Allowance : IsFiniteSet(TokensUsed(a)) /\ TokensIn(a)

TokenInv == UsageHistory /\ TokensCounted

\* The sets are finite.
LEMMA TokensFinite ==
  ASSUME LlmInv, TokenInv, NEW a \in Allowance
  PROVE  /\ IsFiniteSet(HoldingIn(a)) /\ IsFiniteSet(TokensHeld(a)) /\ IsFiniteSet(TokensUsed(a))
         /\ Cardinality(TokensHeld(a)) \in Nat /\ Cardinality(TokensUsed(a)) \in Nat
PROOF
  <1>1. IsFiniteSet(GrantedFrom(a))
    BY BookedFinite DEF LlmInv, GrantedHaveRow
  <1>2. IsFiniteSet(HoldingIn(a))
    BY <1>1, FS_Subset DEF HoldingIn
  <1>3. IsFiniteSet(1 .. Estimate)
    BY LlmAssumption, FS_Interval
  <1>4. IsFiniteSet(TokensHeld(a))
    BY <1>2, <1>3, FS_Product DEF HoldingIn, TokensHeld
  <1> QED
    BY <1>2, <1>4, FS_CardinalityType DEF TokenInv, TokensCounted

\* One call's reservation, and what one call used, as sets of tokens.
LEMMA TokensOfOne ==
  ASSUME NEW c, NEW n \in Nat
  PROVE  IsFiniteSet({c} \X (1 .. n)) /\ Cardinality({c} \X (1 .. n)) = n
PROOF
  <1>1. IsFiniteSet({c}) /\ Cardinality({c}) = 1
    BY FS_Singleton
  <1>2. IsFiniteSet(1 .. n) /\ Cardinality(1 .. n) = n
    BY FS_Interval
  <1>3. /\ IsFiniteSet({c} \X (1 .. n))
        /\ Cardinality({c} \X (1 .. n)) = Cardinality({c}) * Cardinality(1 .. n)
    BY <1>1, <1>2, FS_Product
  <1>4. Cardinality({c} \X (1 .. n)) = 1 * n
    BY <1>1, <1>2, <1>3
  <1> QED
    BY <1>3, <1>4

\* A step that takes no reservation from a, settles nothing there and leaves
\* its account alone.
LEMMA TokensQuiet ==
  ASSUME LlmInv, TokenInv, NEW a \in Allowance, Undisturbed(a)' => Undisturbed(a),
         ledger' # NoLedger => ledger # NoLedger /\ ledger'[a] = ledger[a],
         HoldingIn(a)' \subseteq HoldingIn(a), TokensUsed(a)' = TokensUsed(a)
  PROVE  IsFiniteSet(TokensUsed(a)') /\ TokensIn(a)'
PROOF
  <1>1. TokensHeld(a)' \subseteq TokensHeld(a)
    BY DEF TokensHeld, HoldingIn
  <1>2. /\ Cardinality(TokensHeld(a)') <= Cardinality(TokensHeld(a))
        /\ Cardinality(TokensHeld(a)') \in Nat /\ Cardinality(TokensHeld(a)) \in Nat
    BY <1>1, TokensFinite, FS_Subset, FS_CardinalityType
  <1>3. ASSUME Undisturbed(a)', ledger' # NoLedger PROVE TokensFit(a)'
    <2>1. TokensFit(a) /\ ledger \in Ledger
      BY <1>3 DEF TokenInv, TokensCounted, TokensIn, LlmInv, LlmTypeOK
    <2>2. ledger[a].reserved.tokens \in Nat /\ ledger'[a] = ledger[a]
      BY <1>3, <2>1, RowTyped
    <2> QED
      BY <1>2, <2>1, <2>2 DEF TokensFit
  <1> QED
    BY <1>3, TokensFinite DEF TokensIn

\* What the step of one call does to the sets.
LEMMA TokensMove ==
  ASSUME NEW c \in LlmCall, \A d \in LlmCall : d # c => calls'[d] = calls[d],
         NEW a, calls[c].settled => calls[c].granted, calls'[c].settled => calls'[c].granted
  PROVE  /\ a \notin Books(c) => HoldingIn(a)' = HoldingIn(a) /\ TokensUsed(a)' = TokensUsed(a)
         /\ ~(calls'[c].granted /\ ~calls'[c].settled /\ calls'[c].at # "done")
              => HoldingIn(a)' = HoldingIn(a) \ {c}
         /\ a \in Books(c) /\ calls'[c].granted /\ ~calls'[c].settled /\ calls'[c].at # "done"
              => HoldingIn(a)' = HoldingIn(a) \cup {c}
         /\ ~calls[c].settled /\ ~calls'[c].settled => TokensUsed(a)' = TokensUsed(a)
         /\ calls[c].settled /\ calls'[c].settled /\ calls'[c].used = calls[c].used
              => TokensUsed(a)' = TokensUsed(a)
         /\ a \in Books(c) /\ ~calls[c].settled /\ calls'[c].settled
              => TokensUsed(a)' = TokensUsed(a) \cup TokensOf(c)'
PROOF
  <1>1. \A d \in LlmCall : d # c => /\ TokensOf(d)' = TokensOf(d)
                                    /\ (calls'[d].settled <=> calls[d].settled)
                                    /\ (calls'[d].granted <=> calls[d].granted)
                                    /\ (calls'[d].at = "done" <=> calls[d].at = "done")
    BY DEF TokensOf
  <1>2. /\ HoldingIn(a) = {d \in LlmCall : a \in Books(d) /\ calls[d].granted
                                            /\ ~calls[d].settled /\ calls[d].at # "done"}
        /\ HoldingIn(a)' = {d \in LlmCall : a \in Books(d) /\ calls'[d].granted
                                             /\ ~calls'[d].settled /\ calls'[d].at # "done"}
    BY DEF HoldingIn, GrantedFrom, Books
  <1> DEFINE closed == {d \in LlmCall : a \in Books(d) /\ calls[d].granted /\ calls[d].settled}
             closedNext == {d \in LlmCall : a \in Books(d) /\ calls'[d].granted /\ calls'[d].settled}
  <1>3. /\ TokensUsed(a) = UNION {TokensOf(d) : d \in closed}
        /\ TokensUsed(a)' = UNION {TokensOf(d)' : d \in closedNext}
    <2>1. closed = {d \in GrantedFrom(a) : calls[d].settled}
      BY DEF GrantedFrom
    <2>2. closedNext = {d \in GrantedFrom(a) : calls[d].settled}'
      BY DEF GrantedFrom, Books
    <2> HIDE DEF closed, closedNext
    <2> QED
      BY <2>1, <2>2 DEF TokensUsed
  <1>4. ASSUME a \notin Books(c) \/ (~calls[c].settled /\ ~calls'[c].settled)
        PROVE  TokensUsed(a)' = TokensUsed(a)
    <2>1. closedNext = closed /\ \A d \in closed : TokensOf(d)' = TokensOf(d)
      BY <1>1, <1>4
    <2> HIDE DEF closed, closedNext
    <2> QED
      BY <1>3, <2>1
  <1>5. ASSUME calls[c].settled, calls'[c].settled, calls'[c].used = calls[c].used
        PROVE  TokensUsed(a)' = TokensUsed(a)
    <2>1. TokensOf(c)' = TokensOf(c)
      BY <1>5 DEF TokensOf
    <2>2. closedNext = closed /\ \A d \in closed : TokensOf(d)' = TokensOf(d)
      BY <1>1, <1>5, <2>1
    <2> HIDE DEF closed, closedNext
    <2> QED
      BY <1>3, <2>2
  <1>6. ASSUME a \in Books(c), ~calls[c].settled, calls'[c].settled
        PROVE  TokensUsed(a)' = TokensUsed(a) \cup TokensOf(c)'
    <2>1. closedNext = closed \cup {c} /\ \A d \in closed : TokensOf(d)' = TokensOf(d)
      BY <1>1, <1>6
    <2> HIDE DEF closed, closedNext
    <2> QED
      BY <1>3, <2>1
  <1>7. a \notin Books(c) => HoldingIn(a)' = HoldingIn(a)
    BY <1>1, <1>2
  <1>8. ~(calls'[c].granted /\ ~calls'[c].settled /\ calls'[c].at # "done")
          => HoldingIn(a)' = HoldingIn(a) \ {c}
    BY <1>1, <1>2
  <1>9. a \in Books(c) /\ calls'[c].granted /\ ~calls'[c].settled /\ calls'[c].at # "done"
          => HoldingIn(a)' = HoldingIn(a) \cup {c}
    BY <1>1, <1>2
  <1> HIDE DEF closed, closedNext
  <1> QED
    BY <1>4, <1>5, <1>6, <1>7, <1>8, <1>9

\* A grant adds what its call may use to what is held.
LEMMA TokensGrow ==
  ASSUME LlmInv, TokenInv, NEW c \in LlmCall, \A d \in LlmCall : d # c => calls'[d] = calls[d],
         ~calls[c].granted, ~calls[c].settled,
         calls'[c].granted, ~calls'[c].settled, calls'[c].at # "done",
         NEW a \in Allowance, a \in Books(c)
  PROVE  /\ TokensUsed(a)' = TokensUsed(a)
         /\ Cardinality(TokensHeld(a)') = Cardinality(TokensHeld(a)) + Estimate
PROOF
  <1>1. HoldingIn(a)' = HoldingIn(a) \cup {c} /\ TokensUsed(a)' = TokensUsed(a)
    BY TokensMove
  <1>2. c \notin HoldingIn(a)
    BY DEF HoldingIn, GrantedFrom
  <1> DEFINE new == {c} \X (1 .. Estimate)
  <1>3. TokensHeld(a)' = TokensHeld(a) \cup new /\ TokensHeld(a) \cap new = {}
    BY <1>1, <1>2 DEF TokensHeld, HoldingIn
  <1>4. IsFiniteSet(new) /\ Cardinality(new) = Estimate /\ Estimate \in Nat
    BY TokensOfOne, LlmAssumption
  <1>5. IsFiniteSet(TokensHeld(a)) /\ Cardinality(TokensHeld(a)) \in Nat
    BY TokensFinite
  <1> HIDE DEF new
  <1>6. Cardinality(TokensHeld(a) \cup new)
          = Cardinality(TokensHeld(a)) + Cardinality(new) - Cardinality(TokensHeld(a) \cap new)
    BY <1>4, <1>5, FS_Union
  <1>7. Cardinality(TokensHeld(a) \cap new) = 0
    BY <1>3, FS_EmptySet
  <1>8. Cardinality(TokensHeld(a) \cup new) = Cardinality(TokensHeld(a)) + Estimate
    BY <1>4, <1>5, <1>6, <1>7
  <1> QED
    BY <1>1, <1>3, <1>8

\* Settling a call that holds its reservation turns what was reserved for it
\* into what it reported.
LEMMA TokensSettle ==
  ASSUME LlmInv, TokenInv, NEW c \in LlmCall, \A d \in LlmCall : d # c => calls'[d] = calls[d],
         calls[c].granted, calls'[c].granted, ~calls[c].settled, calls[c].at # "done",
         calls'[c].settled \/ calls'[c].at = "done",
         ledger \in Ledger, NEW used \in Nat, ledger' = finalizeInLedger(ledger, c, used),
         \/ ~calls'[c].settled
         \/ calls'[c].settled /\ calls'[c].used = used,
         NEW a \in Allowance, a \in Books(c)
  PROVE  IsFiniteSet(TokensUsed(a)') /\ (TokensFit(a) => TokensFit(a)')
PROOF
  <1>1. HoldingIn(a)' = HoldingIn(a) \ {c} /\ c \in HoldingIn(a)
    <2>1. c \in HoldingIn(a)
      BY DEF HoldingIn, GrantedFrom
    <2> QED
      BY <2>1, TokensMove
  <1> DEFINE freed == {c} \X (1 .. Estimate)
  <1>2. TokensHeld(a)' = TokensHeld(a) \ freed /\ TokensHeld(a) \cap freed = freed
    BY <1>1 DEF TokensHeld, HoldingIn
  <1>3. Cardinality(freed) = Estimate /\ Estimate \in Nat
    BY TokensOfOne, LlmAssumption
  <1>4. /\ IsFiniteSet(TokensHeld(a)) /\ Cardinality(TokensHeld(a)) \in Nat
        /\ IsFiniteSet(TokensUsed(a)) /\ Cardinality(TokensUsed(a)) \in Nat
    BY TokensFinite
  <1> HIDE DEF freed
  <1>5. Cardinality(TokensHeld(a)') = Cardinality(TokensHeld(a)) - Estimate
    <2>1. Cardinality(TokensHeld(a) \ freed)
            = Cardinality(TokensHeld(a)) - Cardinality(TokensHeld(a) \cap freed)
      BY <1>4, FS_Difference
    <2> QED
      BY <1>2, <1>3, <2>1
  <1>6. Cardinality(TokensHeld(a)') \in Nat
    <2>1. IsFiniteSet(TokensHeld(a)')
      BY <1>2, <1>4, FS_Difference
    <2> QED
      BY <2>1, FS_CardinalityType
  <1>7. /\ IsFiniteSet(TokensUsed(a)') /\ Cardinality(TokensUsed(a)') \in Nat
        /\ Cardinality(TokensUsed(a)') <= Cardinality(TokensUsed(a)) + used
    <2>1. CASE ~calls'[c].settled
      <3>1. TokensUsed(a)' = TokensUsed(a)
        BY <2>1, TokensMove
      <3> QED
        BY <1>4, <3>1
    <2>2. CASE calls'[c].settled /\ calls'[c].used = used
      <3> DEFINE spent == {c} \X (1 .. used)
      <3>1. TokensUsed(a)' = TokensUsed(a) \cup spent
        BY <2>2, TokensMove DEF TokensOf
      <3>2. IsFiniteSet(spent) /\ Cardinality(spent) = used
        BY TokensOfOne
      <3> HIDE DEF spent
      <3>3. /\ IsFiniteSet(TokensUsed(a) \cup spent)
            /\ Cardinality(TokensUsed(a) \cup spent)
                 = Cardinality(TokensUsed(a)) + Cardinality(spent) - Cardinality(TokensUsed(a) \cap spent)
        BY <1>4, <3>2, FS_Union
      <3>4. Cardinality(TokensUsed(a) \cap spent) \in Nat /\ Cardinality(TokensUsed(a) \cup spent) \in Nat
        BY <1>4, <3>3, FS_Intersection, FS_CardinalityType
      <3> QED
        BY <1>4, <3>1, <3>2, <3>3, <3>4
    <2> QED
      BY <2>1, <2>2
  <1>8. ASSUME TokensFit(a) PROVE TokensFit(a)'
    <2>1. /\ ledger[a] \in Account
          /\ ledger[a].reserved.tokens \in Nat /\ ledger[a].consumed.tokens \in Nat
      BY RowTyped
    <2>2. ledger'[a] = Finalized(ledger[a], used)
      BY FinalizedRow, LlmAssumption
    <2>3. /\ Finalized(ledger[a], used).reserved.tokens = LessOrNone(ledger[a].reserved.tokens, Estimate)
          /\ Finalized(ledger[a], used).consumed.tokens = ledger[a].consumed.tokens + used
      BY <2>1, FinalizedAccount, LlmAssumption
    <2>4. /\ ledger'[a].reserved.tokens = LessOrNone(ledger[a].reserved.tokens, Estimate)
          /\ ledger'[a].consumed.tokens = ledger[a].consumed.tokens + used
      BY <2>2, <2>3
    <2>5. /\ Cardinality(TokensHeld(a)) <= ledger[a].reserved.tokens
          /\ Cardinality(TokensUsed(a)) <= ledger[a].consumed.tokens
      BY <1>8 DEF TokensFit
    <2>6. Cardinality(TokensHeld(a)') <= ledger'[a].reserved.tokens
      BY <1>3, <1>4, <1>5, <1>6, <2>1, <2>4, <2>5 DEF LessOrNone
    <2>7. Cardinality(TokensUsed(a)') <= ledger'[a].consumed.tokens
      BY <1>4, <1>7, <2>1, <2>4, <2>5
    <2> QED
      BY <2>6, <2>7 DEF TokensFit
  <1> QED
    BY <1>7, <1>8

\* A step of one call that settles nothing and leaves the row alone.
LEMMA QuietCall ==
  ASSUME LlmInv, TokenInv, NEW c \in LlmCall, \A d \in LlmCall : d # c => calls'[d] = calls[d],
         UNCHANGED <<ledger, lost>>, History(c)',
         calls'[c].granted = calls[c].granted, calls'[c].settled = calls[c].settled,
         calls[c].settled => calls'[c].used = calls[c].used,
         calls[c].throws => calls'[c].throws,
         calls[c].at = "done" => calls'[c].at = "done"
  PROVE  TokenInv'
PROOF
  <1>1. UsageHistory'
    BY DEF TokenInv, UsageHistory, History
  <1>2. ASSUME NEW a \in Allowance PROVE IsFiniteSet(TokensUsed(a)') /\ TokensIn(a)'
    <2>1. Undisturbed(a)' => Undisturbed(a)
      BY DEF Undisturbed
    <2>2. HoldingIn(a)' \subseteq HoldingIn(a)
      BY DEF HoldingIn, GrantedFrom, Books
    <2>3. TokensUsed(a)' = TokensUsed(a)
      BY TokensMove DEF TokenInv, UsageHistory, History
    <2> QED
      BY <2>1, <2>2, <2>3, TokensQuiet
  <1> QED
    BY <1>1, <1>2 DEF TokenInv, TokensCounted

LEMMA ReserveTokens ==
  ASSUME LlmInv, TokenInv, NEW c \in LlmCall, Reserve(c)
  PROVE  TokenInv'
PROOF
  <1>1. /\ calls \in [LlmCall -> CallState] /\ ledger \in Ledger /\ ledger # NoLedger
        /\ calls[c].at = "idle" /\ ~calls[c].granted /\ ~calls[c].settled
        /\ UNCHANGED lost /\ UsageHistory
    BY DEF Reserve, LlmInv, LlmTypeOK, StepTellsGrant, BeforeGrant, TokenInv
  <1>2. CASE assertCapacity(ledger, c)
    <2>1. ledger' = reserveInLedger(ledger, c) /\ Grant(c)
      BY <1>2 DEF Reserve
    <2>2. /\ \A d \in LlmCall : d # c => calls'[d] = calls[d]
          /\ calls'[c].at = "granted" /\ calls'[c].granted = TRUE
          /\ calls'[c].settled = calls[c].settled /\ calls'[c].throws = calls[c].throws
      BY <1>1, <2>1 DEF Grant, CallState, CallStep
    <2>3. UsageHistory'
      BY <1>1, <2>2 DEF UsageHistory, History
    <2>4. ASSUME NEW a \in Allowance PROVE IsFiniteSet(TokensUsed(a)') /\ TokensIn(a)'
      <3>1. Undisturbed(a)' => Undisturbed(a)
        BY <1>1, <2>2 DEF Undisturbed
      <3>2. CASE a \notin Books(c)
        <4>1. HoldingIn(a)' = HoldingIn(a) /\ TokensUsed(a)' = TokensUsed(a)
          BY <1>1, <2>2, <3>2, TokensMove
        <4>2. ledger'[a] = ledger[a]
          BY <1>1, <2>1, <3>2, ReservedRow
        <4> QED
          BY <1>1, <3>1, <4>1, <4>2, TokensQuiet
      <3>3. CASE a \in Books(c)
        <4>1. /\ TokensUsed(a)' = TokensUsed(a)
              /\ Cardinality(TokensHeld(a)') = Cardinality(TokensHeld(a)) + Estimate
          BY <1>1, <2>2, <3>3, TokensGrow
        <4>2. /\ ledger'[a].reserved.tokens = ledger[a].reserved.tokens + Estimate
              /\ ledger'[a].consumed = ledger[a].consumed
          BY <1>1, <2>1, <3>3, ReservedRow
        <4>3. /\ ledger[a].reserved.tokens \in Nat /\ Estimate \in Nat
              /\ IsFiniteSet(TokensUsed(a)) /\ Cardinality(TokensHeld(a)) \in Nat
          BY <1>1, RowTyped, TokensFinite, LlmAssumption
        <4>4. Undisturbed(a) => TokensFit(a)
          BY <1>1 DEF TokenInv, TokensCounted, TokensIn
        <4> QED
          BY <3>1, <4>1, <4>2, <4>3, <4>4 DEF TokensIn, TokensFit
      <3> QED
        BY <3>2, <3>3
    <2> QED
      BY <2>3, <2>4 DEF TokenInv, TokensCounted
  <1>3. CASE ~assertCapacity(ledger, c)
    <2>1. calls' = [calls EXCEPT ![c].at = "refused"] /\ UNCHANGED ledger
      BY <1>3 DEF Reserve, MoveCall
    <2>2. /\ \A d \in LlmCall : d # c => calls'[d] = calls[d]
          /\ calls'[c].at = "refused" /\ calls'[c].granted = calls[c].granted
          /\ calls'[c].settled = calls[c].settled /\ calls'[c].throws = calls[c].throws
      BY <1>1, <2>1 DEF CallState, CallStep
    <2>3. History(c)'
      BY <1>1, <2>2 DEF History
    <2> QED
      BY <1>1, <2>1, <2>2, <2>3, QuietCall
  <1> QED
    BY <1>2, <1>3

\* As long as nothing was written over, no call was granted before the first.
LEMMA InsertTokens ==
  ASSUME LlmInv, TokenInv, NEW c \in LlmCall, InsertFirst(c)
  PROVE  TokenInv'
PROOF
  <1>1. /\ calls \in [LlmCall -> CallState]
        /\ calls[c].at = "inserting" /\ ~calls[c].granted /\ ~calls[c].settled
        /\ UsageHistory /\ Estimate \in Nat
    BY LlmAssumption DEF InsertFirst, LlmInv, LlmTypeOK, StepTellsGrant, BeforeGrant, TokenInv
  <1>2. ledger' = reserveInLedger(createLedger, c) /\ Grant(c)
    BY DEF InsertFirst
  <1>3. /\ \A d \in LlmCall : d # c => calls'[d] = calls[d]
        /\ calls'[c].at = "granted" /\ calls'[c].granted = TRUE
        /\ calls'[c].settled = calls[c].settled /\ calls'[c].throws = calls[c].throws
    BY <1>1, <1>2 DEF Grant, CallState, CallStep
  <1>4. UsageHistory'
    BY <1>1, <1>3 DEF UsageHistory, History
  <1>5. ASSUME NEW a \in Allowance PROVE IsFiniteSet(TokensUsed(a)')
    <2>1. TokensUsed(a)' = TokensUsed(a)
      BY <1>1, <1>3, TokensMove
    <2> QED
      BY <2>1, TokensFinite
  <1>6. ASSUME NEW a \in Allowance, Undisturbed(a)' PROVE TokensFit(a)'
    <2>1. GrantedFrom(a) = {}
      <3>1. Cardinality(GrantedFrom(a)) <= lost'[a]
        BY LostGrows DEF InsertFirst
      <3>2. lost'[a] = 0 /\ IsFiniteSet(GrantedFrom(a)) /\ Cardinality(GrantedFrom(a)) \in Nat
        BY <1>6, BookedFinite DEF Undisturbed, LlmInv, GrantedHaveRow
      <3>3. Cardinality(GrantedFrom(a)) = 0
        BY <3>1, <3>2
      <3> QED
        BY <3>2, <3>3, FS_EmptySet
    <2>2. HoldingIn(a) = {} /\ TokensUsed(a) = {} /\ TokensHeld(a) = {}
      BY <2>1 DEF HoldingIn, TokensUsed, TokensHeld
    <2>3. Cardinality(TokensHeld(a)) = 0 /\ Cardinality(TokensUsed(a)) = 0
      BY <2>2, FS_EmptySet
    <2>4. /\ createLedger[a].reserved.tokens = 0 /\ createLedger[a].consumed.tokens = 0
          /\ createLedger \in Ledger
      BY EmptyRow DEF nothing
    <2>5. CASE a \notin Books(c)
      <3>1. HoldingIn(a)' = HoldingIn(a) /\ TokensUsed(a)' = TokensUsed(a)
        BY <1>1, <1>3, <2>5, TokensMove
      <3>2. TokensHeld(a)' = {}
        BY <2>2, <3>1 DEF HoldingIn, TokensHeld
      <3>3. ledger'[a] = createLedger[a]
        BY <1>2, <2>4, <2>5, ReservedRow
      <3> QED
        BY <2>3, <2>4, <3>1, <3>2, <3>3, FS_EmptySet DEF TokensFit
    <2>6. CASE a \in Books(c)
      <3>1. /\ TokensUsed(a)' = TokensUsed(a)
            /\ Cardinality(TokensHeld(a)') = Cardinality(TokensHeld(a)) + Estimate
        BY <1>1, <1>3, <2>6, TokensGrow
      <3>2. /\ ledger'[a].reserved.tokens = createLedger[a].reserved.tokens + Estimate
            /\ ledger'[a].consumed = createLedger[a].consumed
        BY <1>2, <2>4, <2>6, ReservedRow
      <3> QED
        BY <1>1, <2>3, <2>4, <3>1, <3>2 DEF TokensFit
    <2> QED
      BY <2>5, <2>6
  <1> QED
    BY <1>4, <1>5, <1>6 DEF TokenInv, TokensCounted, TokensIn

\* The steps that leave the row alone.
LEMMA OutsideTokens ==
  ASSUME LlmInv, TokenInv, NEW c \in LlmCall,
         ReserveFirst(c) \/ JoinTurns(c) \/ Answered(c) \/ Dropped(c) \/ OutOfTime(c) \/ Persist(c)
  PROVE  TokenInv'
PROOF
  <1>1. /\ calls \in [LlmCall -> CallState] /\ UNCHANGED <<ledger, lost>>
        /\ calls[c].at \in {"idle", "granted", "waiting", "answered"} /\ ~calls[c].settled
        /\ calls[c].at \in AfterGrant => calls[c].granted
    BY DEF LlmInv, LlmTypeOK, StepTellsGrant, TokenInv, UsageHistory, History,
           ReserveFirst, JoinTurns, Answered, Dropped, OutOfTime, Persist
  <1> DEFINE Quietly == /\ \A d \in LlmCall : d # c => calls'[d] = calls[d]
                        /\ (calls[c].throws => calls'[c].throws)
                        /\ calls'[c].settled = calls[c].settled
                        /\ calls'[c].granted = calls[c].granted
  <1> SUFFICES Quietly
    <2>1. Quietly => History(c)'
      BY <1>1 DEF History
    <2> QED
      BY <1>1, <2>1, QuietCall
  <1>2. ASSUME NEW step, calls' = [calls EXCEPT ![c].at = step] PROVE Quietly
    BY <1>1, <1>2, ZenonT(60) DEF CallState
  <1>3. CASE ReserveFirst(c) \/ JoinTurns(c) \/ OutOfTime(c)
    BY <1>2, <1>3 DEF ReserveFirst, JoinTurns, OutOfTime, MoveCall
  <1>4. CASE Answered(c)
    <2>1. PICK n \in Usage : calls' = [calls EXCEPT ![c].at = "answered", ![c].used = n]
      BY <1>4 DEF Answered
    <2> QED
      BY <1>1, <2>1 DEF CallState
  <1>5. CASE Dropped(c)
    <2>1. CASE calls' = [calls EXCEPT ![c].at = "granted", ![c].tries = @ + 1]
      BY <1>1, <2>1 DEF CallState
    <2> QED
      BY <1>2, <1>5, <2>1 DEF Dropped, MoveCall
  <1>6. CASE Persist(c)
    <2>1. CASE calls' = [calls EXCEPT ![c].at = "settling", ![c].throws = TRUE]
      BY <1>1, <2>1 DEF CallState
    <2> QED
      BY <1>2, <1>6, <2>1 DEF Persist, MoveCall
  <1> QED
    BY <1>3, <1>4, <1>5, <1>6

\* A settlement that goes through.
LEMMA SettledTokens ==
  ASSUME LlmInv, TokenInv, NEW c \in LlmCall, \A d \in LlmCall : d # c => calls'[d] = calls[d],
         UNCHANGED lost, ledger \in Ledger, ledger # NoLedger, History(c)',
         calls[c].granted, calls'[c].granted,
         calls[c].throws => calls'[c].throws, calls[c].at # "done",
         NEW used \in Nat, ledger' = finalizeInLedger(ledger, c, used),
         \/ calls'[c].at = "done" /\ calls'[c].settled = calls[c].settled
         \/ calls'[c].settled /\ ~calls[c].settled,
         calls[c].settled => calls'[c].throws /\ calls'[c].used = calls[c].used,
         calls'[c].settled /\ ~calls[c].settled => calls'[c].used = used
  PROVE  TokenInv'
PROOF
  <1>1. UsageHistory'
    BY DEF TokenInv, UsageHistory, History
  <1>2. ASSUME NEW a \in Allowance PROVE IsFiniteSet(TokensUsed(a)') /\ TokensIn(a)'
    <2>1. Undisturbed(a)' => Undisturbed(a) /\ ~calls'[c].throws
      BY DEF Undisturbed
    <2>2. Undisturbed(a) => TokensFit(a)
      BY DEF TokenInv, TokensCounted, TokensIn
    <2>3. CASE a \notin Books(c)
      <3>1. HoldingIn(a)' = HoldingIn(a) /\ TokensUsed(a)' = TokensUsed(a)
        BY <2>3, TokensMove
      <3>2. ledger'[a] = ledger[a]
        BY <2>3, FinalizedRow
      <3> QED
        BY <2>1, <3>1, <3>2, TokensQuiet
    <2>4. CASE a \in Books(c) /\ ~calls[c].settled
      <3>1. IsFiniteSet(TokensUsed(a)') /\ (TokensFit(a) => TokensFit(a)')
        BY <2>4, TokensSettle
      <3> QED
        BY <2>1, <2>2, <3>1 DEF TokensIn
    <2>5. CASE calls[c].settled
      <3>1. TokensUsed(a)' = TokensUsed(a)
        BY <2>5, TokensMove
      <3> QED
        BY <2>1, <2>5, <3>1, TokensFinite DEF TokensIn
    <2> QED
      BY <2>3, <2>4, <2>5
  <1> QED
    BY <1>1, <1>2 DEF TokenInv, TokensCounted

LEMMA SettleTokens ==
  ASSUME LlmInv, TokenInv, NEW c \in LlmCall, Settle(c)
  PROVE  TokenInv'
PROOF
  <1>1. /\ calls \in [LlmCall -> CallState] /\ UNCHANGED lost
        /\ calls[c].at = "settling" /\ calls[c].granted /\ ~calls[c].settled
        /\ calls[c].used \in Nat
        /\ ledger \in Ledger /\ ledger # NoLedger
    BY DEF Settle, LlmInv, LlmTypeOK, StepTellsGrant, AfterGrant, TokenInv, UsageHistory, History,
           CallState, GrantedHaveRow, Granted
  <1>2. CASE /\ ledger' = finalizeInLedger(ledger, c, calls[c].used)
             /\ calls' = [calls EXCEPT ![c].at = IF calls[c].throws THEN "failing" ELSE "done",
                                       ![c].settled = TRUE]
    <2>1. /\ \A d \in LlmCall : d # c => calls'[d] = calls[d]
          /\ calls'[c].at = (IF calls[c].throws THEN "failing" ELSE "done")
          /\ calls'[c].settled = TRUE
          /\ calls'[c].granted = calls[c].granted /\ calls'[c].used = calls[c].used
          /\ calls'[c].throws = calls[c].throws
      BY <1>1, <1>2 DEF CallState
    <2>2. History(c)'
      BY <1>1, <2>1 DEF History
    <2> QED
      BY <1>1, <1>2, <2>1, <2>2, SettledTokens
  <1>3. CASE /\ calls' = [calls EXCEPT ![c].at = "failing", ![c].throws = TRUE]
             /\ UNCHANGED ledger
    <2>1. /\ \A d \in LlmCall : d # c => calls'[d] = calls[d]
          /\ calls'[c].at = "failing" /\ calls'[c].throws
          /\ calls'[c].granted = calls[c].granted /\ calls'[c].used = calls[c].used
          /\ calls'[c].settled = calls[c].settled
      BY <1>1, <1>3 DEF CallState
    <2>2. History(c)'
      BY <1>1, <2>1 DEF History
    <2> QED
      BY <1>1, <1>3, <2>1, <2>2, QuietCall
  <1> QED
    BY <1>2, <1>3 DEF Settle

LEMMA SettleFailedTokens ==
  ASSUME LlmInv, TokenInv, NEW c \in LlmCall, SettleFailed(c)
  PROVE  TokenInv'
PROOF
  <1>1. /\ calls \in [LlmCall -> CallState] /\ UNCHANGED lost
        /\ calls[c].at = "failing" /\ calls[c].granted /\ History(c)
        /\ calls' = [calls EXCEPT ![c].at = "done"]
        /\ ledger \in Ledger /\ ledger # NoLedger
    BY DEF SettleFailed, MoveCall, LlmInv, LlmTypeOK, StepTellsGrant, AfterGrant, TokenInv,
           UsageHistory, GrantedHaveRow, Granted
  <1>2. /\ \A d \in LlmCall : d # c => calls'[d] = calls[d]
        /\ calls'[c].at = "done" /\ calls'[c].granted = calls[c].granted
        /\ calls'[c].settled = calls[c].settled /\ calls'[c].used = calls[c].used
        /\ calls'[c].throws = calls[c].throws
    BY <1>1 DEF CallState
  <1>3. History(c)' /\ (calls[c].settled => calls'[c].throws)
    BY <1>1, <1>2 DEF History
  <1>4. CASE UNCHANGED ledger
    BY <1>1, <1>2, <1>3, <1>4, QuietCall
  <1>5. CASE ledger' = finalizeInLedger(ledger, c, 0)
    BY <1>1, <1>2, <1>3, <1>5, SettledTokens
  <1> QED
    BY <1>4, <1>5 DEF SettleFailed

\* The reservations of a dead process stay in the row.
LEMMA CrashTokens ==
  ASSUME LlmInv, TokenInv, NEW p \in Process, LlmCrash(p)
  PROVE  TokenInv'
PROOF
  <1> DEFINE gone == {c \in LlmCall : CallHome[c] = p
                                      /\ calls[c].at \notin {"idle", "refused", "done", "dead"}}
  <1>1. /\ calls' = [c \in LlmCall |-> IF c \in gone THEN [calls[c] EXCEPT !.at = "dead"] ELSE calls[c]]
        /\ UNCHANGED <<ledger, lost>>
    BY DEF LlmCrash
  <1>2. calls \in [LlmCall -> CallState] /\ UsageHistory
    BY DEF LlmInv, LlmTypeOK, TokenInv
  <1>3. \A c \in gone : calls[c].at # "done"
    OBVIOUS
  <1> HIDE DEF gone
  <1>4. \A c \in LlmCall : /\ calls'[c].granted = calls[c].granted
                           /\ calls'[c].settled = calls[c].settled
                           /\ calls'[c].used = calls[c].used
                           /\ calls'[c].throws = calls[c].throws
                           /\ c \in gone => calls'[c].at = "dead"
                           /\ c \notin gone => calls'[c].at = calls[c].at
    BY <1>1, <1>2 DEF CallState
  <1>5. UsageHistory'
    BY <1>2, <1>4 DEF UsageHistory, History
  <1>6. ASSUME NEW a \in Allowance PROVE IsFiniteSet(TokensUsed(a)') /\ TokensIn(a)'
    <2>1. Undisturbed(a)' => Undisturbed(a)
      BY <1>1, <1>4 DEF Undisturbed
    <2>2. GrantedFrom(a)' = GrantedFrom(a)
      BY <1>4 DEF GrantedFrom, Books
    <2>3. HoldingIn(a)' \subseteq HoldingIn(a)
      BY <1>3, <1>4, <2>2 DEF HoldingIn, GrantedFrom
    <2>4. TokensUsed(a)' = TokensUsed(a)
      <3> DEFINE closed == {d \in GrantedFrom(a) : calls[d].settled}
      <3>1. closed' = closed /\ \A d \in closed : TokensOf(d)' = TokensOf(d)
        BY <1>4, <2>2 DEF TokensOf, GrantedFrom
      <3>2. TokensUsed(a) = UNION {TokensOf(d) : d \in closed}
            /\ TokensUsed(a)' = UNION {TokensOf(d)' : d \in closed'}
        BY DEF TokensUsed
      <3> HIDE DEF closed
      <3> QED
        BY <3>1, <3>2
    <2> QED
      BY <1>1, <2>1, <2>3, <2>4, TokensQuiet
  <1> QED
    BY <1>5, <1>6 DEF TokenInv, TokensCounted

LEMMA TokenStep == LlmInv /\ TokenInv /\ [LlmNext]_llmVars => TokenInv'
PROOF
  <1> SUFFICES ASSUME LlmInv, TokenInv, [LlmNext]_llmVars PROVE TokenInv'
    OBVIOUS
  <1>1. CASE UNCHANGED llmVars
    <2>1. UNCHANGED <<ledger, calls, lost>>
      BY <1>1 DEF llmVars
    <2>2. \A a : TokensUsed(a)' = TokensUsed(a) /\ TokensHeld(a)' = TokensHeld(a)
      BY <2>1 DEF TokensUsed, TokensHeld, TokensOf, GrantedFrom, Books
    <2> QED
      BY <2>1, <2>2 DEF TokenInv, UsageHistory, History, TokensCounted, TokensIn, TokensFit, Undisturbed
  <1> QED
    BY <1>1, ReserveTokens, InsertTokens, OutsideTokens, SettleTokens, SettleFailedTokens, CrashTokens
    DEF LlmNext, CallSteps

LEMMA TokensInitially == LlmInit => TokenInv
PROOF
  <1> SUFFICES ASSUME LlmInit PROVE TokenInv
    OBVIOUS
  <1>1. \A c \in LlmCall : calls[c] = idleCall
    BY DEF LlmInit
  <1>2. UsageHistory
    BY <1>1 DEF UsageHistory, History, idleCall
  <1>3. \A a : TokensUsed(a) = {}
    BY <1>1 DEF TokensUsed, GrantedFrom, idleCall
  <1> QED
    BY <1>2, <1>3, FS_EmptySet DEF LlmInit, TokenInv, TokensCounted, TokensIn

LEMMA TokenInvariant == LlmSafety => []TokenInv
  BY TokensInitially, TokenStep, LlmInvariant, PTL DEF LlmSafety

\* What the allowance of a granted call holds and has used leaves room for it.
LEMMA GrantLeavesRoom ==
  ASSUME LlmInv, TokenInv, TokenInv', LlmInv', NEW c \in LlmCall, [LlmNext]_llmVars, Granting(c),
         Undisturbed(CallScope[c])'
  PROVE  Cardinality(TokensHeld(CallScope[c])') + Cardinality(TokensUsed(CallScope[c])') <= MaxTokens
PROOF
  <1> DEFINE a == CallScope[c]
  <1>1. a \in Allowance /\ a \in Books(c) /\ MaxTokens \in Nat /\ Estimate \in Nat
    BY BooksAreAllowances, LlmAssumption
  <1>2. (Reserve(c) /\ assertCapacity(ledger, c)) \/ InsertFirst(c)
    BY GrantersOnly
  <1>3. /\ \A d \in LlmCall : d # c => calls'[d] = calls[d]
        /\ calls'[c].granted /\ calls'[c].at = "granted" /\ calls'[c].settled = calls[c].settled
        /\ ~calls[c].settled /\ ~calls[c].granted /\ calls'[c].throws = calls[c].throws
    BY <1>2, GrantStep DEF Granting
  <1>4. /\ TokensUsed(a)' = TokensUsed(a)
        /\ Cardinality(TokensHeld(a)') = Cardinality(TokensHeld(a)) + Estimate
    BY <1>1, <1>3, TokensGrow
  <1>5. Cardinality(TokensHeld(a)) \in Nat /\ Cardinality(TokensUsed(a)) \in Nat
    BY <1>1, TokensFinite
  <1>6. CASE Reserve(c) /\ assertCapacity(ledger, c)
    <2>1. ledger \in Ledger /\ ledger # NoLedger /\ UNCHANGED lost
      BY <1>6 DEF Reserve, LlmInv, LlmTypeOK
    <2>2. Undisturbed(a)
      BY <1>3, <2>1 DEF Undisturbed
    <2>3. TokensFit(a)
      BY <1>1, <2>1, <2>2 DEF TokenInv, TokensCounted, TokensIn
    <2>4. ledger[a].reserved.tokens + ledger[a].consumed.tokens + Estimate <= MaxTokens
      BY <1>6 DEF assertCapacity
    <2>5. ledger[a].reserved.tokens \in Nat /\ ledger[a].consumed.tokens \in Nat
      BY <1>1, <2>1, RowTyped
    <2> QED
      BY <1>1, <1>4, <1>5, <2>3, <2>4, <2>5 DEF TokensFit
  <1>7. CASE InsertFirst(c)
    <2>1. Estimate <= MaxTokens
      BY <1>7 DEF InsertFirst, LlmInv, InsertedFits, Fits
    <2>2. GrantedFrom(a) = {}
      <3>1. Cardinality(GrantedFrom(a)) <= lost'[a]
        BY <1>1, <1>7, LostGrows DEF InsertFirst
      <3>2. lost'[a] = 0 /\ IsFiniteSet(GrantedFrom(a)) /\ Cardinality(GrantedFrom(a)) \in Nat
        BY BookedFinite DEF Undisturbed, LlmInv, GrantedHaveRow
      <3>3. Cardinality(GrantedFrom(a)) = 0
        BY <3>1, <3>2
      <3> QED
        BY <3>2, <3>3, FS_EmptySet
    <2>3. TokensHeld(a) = {} /\ TokensUsed(a) = {}
      BY <2>2 DEF TokensHeld, TokensUsed
    <2>4. Cardinality(TokensHeld(a)) = 0 /\ Cardinality(TokensUsed(a)) = 0
      BY <2>3, FS_EmptySet
    <2> QED
      BY <1>1, <1>4, <2>1, <2>4
  <1> QED
    BY <1>2, <1>6, <1>7

LEMMA GrantedTokensAreFew == LlmSafety => GrantedTokensFit
PROOF
  <1>1. LlmInv /\ LlmInv' /\ TokenInv /\ TokenInv' /\ [LlmNext]_llmVars
          => [\A c \in LlmCall :
                Granting(c) /\ Undisturbed(CallScope[c])' =>
                  Cardinality(TokensHeld(CallScope[c])') + Cardinality(TokensUsed(CallScope[c])')
                    <= MaxTokens]_llmVars
    BY GrantLeavesRoom
  <1> QED
    BY <1>1, LlmInvariant, TokenInvariant, PTL DEF LlmSafety, GrantedTokensFit

\* A call is granted only while what the calls of its allowance have reported,
\* and the estimates of those that still hold a reservation, leave room for its
\* own, whatever is reported, dropped or killed and in whatever order calls
\* settle; a row that was written over and a settlement made twice are excluded.
THEOREM TokensAreBudgeted == LlmSpec => GrantedTokensFit
  BY GrantedTokensAreFew, PTL DEF LlmSpec, LlmSafety
=============================================================================
