----------------------------- MODULE LlmBudget ------------------------------
(***************************************************************************)
(* The model calls of one run (executeLlmCallAttempt, llmProvider.ts) and  *)
(* the ledger row they reserve from and settle with (llmBudgetLedger.ts,   *)
(* llm_budget_ledger_v1).  A call reserves its estimate, waits for its     *)
(* process' turn at the provider, is tried a few times, is recorded in     *)
(* llm_calls and settles what it used.  Processes may die and the database *)
(* may refuse a write; the provider may refuse or drop a request.          *)
(*                                                                         *)
(* A call with a budgetScopeId (browser decisions name their coverage      *)
(* item) is measured against what its scope has used, one without against  *)
(* the totals of the run; both are booked in the totals.                   *)
(*                                                                         *)
(* All calls have one purpose, one budget and one estimate, and count as   *)
(* logical calls; the wall-clock and cost limits are kept like the token   *)
(* limit.  What a call reports to have used has no bound.                  *)
(***************************************************************************)
EXTENDS Integers, Sequences, FiniteSets

CONSTANTS
  Process,       \* the processes that call the model
  LlmCall,       \* the calls
  CallHome,      \* CallHome[c]: the process that makes call c
  Scope,         \* the scopes
  Whole,         \* the run's own totals
  CallScope,     \* CallScope[c]: the scope that call c names, or Whole
  MaxCalls,      \* budget.maxPlannerCalls and its like
  MaxTokens,     \* budget.maxTotalTokens
  Estimate,      \* the tokens a call reserves
  Usage,         \* the tokens a provider may report for a call
  MaxTries,      \* bound: transport attempts of one call (modes.length)
  MaxLlmFaults,  \* bound: processes killed, requests dropped, writes that fail
  NoLedger       \* the run has no row yet

Allowance == Scope \cup {Whole}

Totals == [calls : Nat, tokens : Nat]
Account == [reserved : Totals, consumed : Totals]
Ledger == [Allowance -> Account]

ASSUME LlmAssumption ==
  /\ CallHome \in [LlmCall -> Process]
  /\ Whole \notin Scope /\ CallScope \in [LlmCall -> Allowance]
  /\ MaxCalls \in Nat /\ MaxTokens \in Nat /\ Estimate \in Nat /\ MaxTries \in Nat
  /\ Usage \subseteq Nat
  /\ MaxLlmFaults \in Nat
  /\ NoLedger \notin Ledger

VARIABLES
  ledger,     \* the row of llm_budget_ledger_v1, or NoLedger
  turns,      \* turns[p]: the calls that have or await process p's turn at the provider
  calls,      \* calls[c]: where the call stands
  lost,       \* lost[a]: calls booked in a that a first reservation wrote over
  stranded,   \* reservations nobody is left to settle
  llmFaults   \* what is left of the bound

llmVars == <<ledger, turns, calls, lost, stranded, llmFaults>>

nothing == [calls |-> 0, tokens |-> 0]
createLedger == [a \in Allowance |-> [reserved |-> nothing, consumed |-> nothing]]

CallStep == {"idle", "inserting", "refused", "granted", "waiting", "answered",
             "settling", "failing", "done", "dead"}

CallState == [at : CallStep, granted : BOOLEAN, settled : BOOLEAN, throws : BOOLEAN,
              tries : Nat, used : Nat]

idleCall == [at |-> "idle", granted |-> FALSE, settled |-> FALSE, throws |-> FALSE,
             tries |-> 0, used |-> 0]

LlmTypeOK ==
  /\ ledger \in Ledger \cup {NoLedger}
  /\ turns \in [Process -> Seq(LlmCall)]
  /\ calls \in [LlmCall -> CallState]
  /\ lost \in [Allowance -> Nat] /\ stranded \in Nat
  /\ llmFaults \in 0 .. MaxLlmFaults

LlmInit ==
  /\ ledger = NoLedger
  /\ turns = [p \in Process |-> <<>>]
  /\ calls = [c \in LlmCall |-> idleCall]
  /\ lost = [a \in Allowance |-> 0] /\ stranded = 0
  /\ llmFaults = MaxLlmFaults

SpendFault == llmFaults > 0 /\ llmFaults' = llmFaults - 1

\* Mutant: a total may fall below nothing.
Difference(a, b) == a - b

LessOrNone(a, b) == IF a > b THEN a - b ELSE 0

---------------------------------------------------------------------------
(* The ledger *)

\* Where a call is booked.
Books(c) == {Whole, CallScope[c]}

Booked(account) == account.reserved.calls + account.consumed.calls

\* Mutant: what is reserved but not yet consumed is not counted.
AssertConsumed(row, c) ==
  LET usage == row[CallScope[c]]
  IN usage.consumed.calls + 1 <= MaxCalls /\ usage.consumed.tokens + Estimate <= MaxTokens

assertCapacity(row, c) ==
  LET usage == row[CallScope[c]]
  IN /\ Booked(usage) + 1 <= MaxCalls
     /\ usage.reserved.tokens + usage.consumed.tokens + Estimate <= MaxTokens

reserveInLedger(row, c) ==
  [a \in Allowance |->
     IF a \in Books(c)
       THEN [row[a] EXCEPT !.reserved = [calls |-> @.calls + 1, tokens |-> @.tokens + Estimate]]
       ELSE row[a]]

\* Mutant: the tokens that were used are never added.
FinalizeCallsOnly(account, used) ==
  [reserved |-> [calls  |-> LessOrNone(account.reserved.calls, 1),
                 tokens |-> LessOrNone(account.reserved.tokens, Estimate)],
   consumed |-> [account.consumed EXCEPT !.calls = @ + 1]]

Finalized(account, used) ==
  [reserved |-> [calls  |-> LessOrNone(account.reserved.calls, 1),
                 tokens |-> LessOrNone(account.reserved.tokens, Estimate)],
   consumed |-> [calls  |-> account.consumed.calls + 1,
                 tokens |-> account.consumed.tokens + used]]

finalizeInLedger(row, c, used) ==
  [a \in Allowance |-> IF a \in Books(c) THEN Finalized(row[a], used) ELSE row[a]]

---------------------------------------------------------------------------
(* reserveLlmBudget *)

MoveCall(c, step) == calls' = [calls EXCEPT ![c].at = step]

Grant(c) == calls' = [calls EXCEPT ![c].at = "granted", ![c].granted = TRUE]

\* SELECT ... FOR UPDATE holds the row from the read to the commit.
Reserve(c) ==
  /\ calls[c].at = "idle" /\ ledger # NoLedger
  /\ IF assertCapacity(ledger, c)
       THEN ledger' = reserveInLedger(ledger, c) /\ Grant(c)
       ELSE MoveCall(c, "refused") /\ UNCHANGED ledger
  /\ UNCHANGED <<turns, lost, stranded, llmFaults>>

\* Without a row there is nothing to lock.
ReserveFirst(c) ==
  /\ calls[c].at = "idle" /\ ledger = NoLedger
  /\ MoveCall(c, IF assertCapacity(createLedger, c) THEN "inserting" ELSE "refused")
  /\ UNCHANGED <<ledger, turns, lost, stranded, llmFaults>>

\* ON CONFLICT (run_id) DO UPDATE: a row written meanwhile is replaced.
InsertFirst(c) ==
  /\ calls[c].at = "inserting"
  /\ lost' = [a \in Allowance |-> lost[a] + (IF ledger = NoLedger THEN 0 ELSE Booked(ledger[a]))]
  /\ ledger' = reserveInLedger(createLedger, c)
  /\ Grant(c)
  /\ UNCHANGED <<turns, stranded, llmFaults>>

---------------------------------------------------------------------------
(* acquireProviderSlot and the transport attempts *)

JoinTurns(c) ==
  /\ calls[c].at = "granted"
  /\ turns' = [turns EXCEPT ![CallHome[c]] = Append(@, c)]
  /\ MoveCall(c, "waiting")
  /\ UNCHANGED <<ledger, lost, stranded, llmFaults>>

HasTurn(c) == turns[CallHome[c]] # <<>> /\ Head(turns[CallHome[c]]) = c

PassTurn(c) == turns' = [turns EXCEPT ![CallHome[c]] = Tail(@)]

Answered(c) ==
  /\ calls[c].at = "waiting" /\ HasTurn(c)
  /\ \E n \in Usage : calls' = [calls EXCEPT ![c].at = "answered", ![c].used = n]
  /\ UNCHANGED <<ledger, turns, lost, stranded, llmFaults>>

\* The turn is kept over the retry delay and passed in the finally.
Dropped(c) ==
  /\ calls[c].at = "waiting" /\ HasTurn(c)
  /\ \E retriable \in BOOLEAN :
       IF retriable /\ calls[c].tries + 1 < MaxTries
         THEN calls' = [calls EXCEPT ![c].at = "granted", ![c].tries = @ + 1]
         ELSE MoveCall(c, "failing")
  /\ PassTurn(c) /\ SpendFault
  /\ UNCHANGED <<ledger, lost, stranded>>

OutOfTime(c) ==
  /\ calls[c].at = "granted"
  /\ MoveCall(c, "failing") /\ SpendFault
  /\ UNCHANGED <<ledger, turns, lost, stranded>>

---------------------------------------------------------------------------
(* persistCallAndSettleBudget *)

\* Mutant: a call that could not be recorded is not settled either.
PersistOrGiveUp(c) ==
  /\ calls[c].at = "answered"
  /\ \/ MoveCall(c, "settling") /\ UNCHANGED <<llmFaults, turns>>
     \/ MoveCall(c, "done") /\ SpendFault /\ PassTurn(c)
  /\ UNCHANGED <<ledger, lost, stranded>>

Persist(c) ==
  /\ calls[c].at = "answered"
  /\ \/ MoveCall(c, "settling") /\ UNCHANGED llmFaults
     \/ calls' = [calls EXCEPT ![c].at = "settling", ![c].throws = TRUE] /\ SpendFault
  /\ UNCHANGED <<ledger, turns, lost, stranded>>

\* The settlement of an answered call is inside the try: what it throws is
\* caught, is not one of the retriable errors, and the call ends as a failed one.
Settle(c) ==
  /\ calls[c].at = "settling"
  /\ \/ /\ ledger' = finalizeInLedger(ledger, c, calls[c].used)
        /\ calls' = [calls EXCEPT ![c].at = IF calls[c].throws THEN "failing" ELSE "done",
                                  ![c].settled = TRUE]
        /\ UNCHANGED llmFaults
     \/ /\ calls' = [calls EXCEPT ![c].at = "failing", ![c].throws = TRUE]
        /\ SpendFault /\ UNCHANGED ledger
  /\ PassTurn(c)
  /\ UNCHANGED <<lost, stranded>>

\* The failed call is recorded and settled with no usage, whether or not its
\* reservation has been settled before.  Whether recording it fails changes
\* only the error that is thrown.
SettleFailed(c) ==
  /\ calls[c].at = "failing"
  /\ \/ ledger' = finalizeInLedger(ledger, c, 0) /\ UNCHANGED <<stranded, llmFaults>>
     \/ /\ SpendFault /\ UNCHANGED ledger
        /\ stranded' = stranded + (IF calls[c].settled THEN 0 ELSE 1)
  /\ MoveCall(c, "done")
  /\ UNCHANGED <<turns, lost>>

---------------------------------------------------------------------------

Unsettled(c) == calls[c].granted /\ ~calls[c].settled /\ calls[c].at \notin {"done", "dead"}

LlmCrash(p) ==
  LET gone == {c \in LlmCall : CallHome[c] = p /\ calls[c].at \notin {"idle", "refused", "done", "dead"}}
  IN /\ gone # {} /\ SpendFault
     /\ calls' = [c \in LlmCall |-> IF c \in gone THEN [calls[c] EXCEPT !.at = "dead"] ELSE calls[c]]
     /\ turns' = [turns EXCEPT ![p] = <<>>]
     /\ stranded' = stranded + Cardinality({c \in gone : Unsettled(c)})
     /\ UNCHANGED <<ledger, lost>>

CallSteps(c) ==
  \/ InsertFirst(c) \/ JoinTurns(c) \/ Answered(c) \/ Dropped(c) \/ OutOfTime(c)
  \/ Persist(c) \/ Settle(c) \/ SettleFailed(c)

LlmNext ==
  \/ \E c \in LlmCall : Reserve(c) \/ ReserveFirst(c) \/ CallSteps(c)
  \/ \E p \in Process : LlmCrash(p)

\* A call that has begun is never left by its process while that lives.
LlmFairness == \A c \in LlmCall : WF_llmVars(CallSteps(c))

LlmSpec == LlmInit /\ [][LlmNext]_llmVars /\ LlmFairness

---------------------------------------------------------------------------
(* Properties *)

Granting(c) == ~calls[c].granted /\ calls'[c].granted

GrantedFrom(a) == {c \in LlmCall : calls[c].granted /\ a \in Books(c)}

\* A call is granted only while the calls granted before from its allowance (of
\* its scope; of the whole run, scoped calls included, for a call without one)
\* leave room for it, whatever dies, fails or is settled twice.  Only first
\* reservations that wrote over each other add to the budget, one call for each
\* they lost (assertCapacity and the upsert of reserveLlmBudget).
GrantedCallsFit ==
  [][\A c \in LlmCall :
       Granting(c) => Cardinality(GrantedFrom(CallScope[c])') <= MaxCalls + lost'[CallScope[c]]]_llmVars

\* What an allowance has given: the estimate of a call as long as it may still
\* use it, what it reported once that is settled.
TokensHeld(a) ==
  {c \in GrantedFrom(a) : ~calls[c].settled /\ calls[c].at # "done"} \X (1 .. Estimate)
TokensOf(c) == {c} \X (1 .. calls[c].used)
TokensUsed(a) == UNION {TokensOf(c) : c \in {d \in GrantedFrom(a) : calls[d].settled}}

Undisturbed(a) == lost[a] = 0 /\ \A c \in LlmCall : ~calls[c].throws

\* A call is granted only while the tokens that calls of its allowance have
\* reported, and the estimates of those that have not yet, leave room for its
\* own estimate, in whatever order calls are dropped, die and are settled.
\* Excluded are a row that was written over and an answered call the database
\* could not record, which is settled twice and takes another's reservation
\* with it (assertCapacity, finalizeInLedger, the catch of executeLlmCallAttempt).
GrantedTokensFit ==
  [][\A c \in LlmCall :
       Granting(c) /\ Undisturbed(CallScope[c])' =>
         Cardinality(TokensHeld(CallScope[c])') + Cardinality(TokensUsed(CallScope[c])') <= MaxTokens]_llmVars

\* Once no call is under way nothing stays reserved, in the run's totals or in a
\* scope, but what a dead process or a settlement the database refused has
\* stranded: "a telemetry/database write failure must not leave the entire
\* reserved budget stranded" (persistCallAndSettleBudget, llmProvider.ts).
ReservationsAreReturned ==
  ledger # NoLedger /\ (\A c \in LlmCall : ~Unsettled(c)) =>
    \A a \in Allowance : ledger[a].reserved.calls <= stranded
=============================================================================
