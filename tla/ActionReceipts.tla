--------------------------- MODULE ActionReceipts ---------------------------
(***************************************************************************)
(* One mutating API action of one run (executeStructuredAction,            *)
(* structuredActionExecutors.ts) and its row of                            *)
(* action_execution_receipts_v1 (actionExecutionReceiptStore.ts).  The     *)
(* action may be executed by several attempts, one after the other or at   *)
(* once, and a replanned attempt may name another operation for it.        *)
(*                                                                         *)
(* The target is external: one that keeps the idempotency contract applies *)
(* a key once, answers it with the first outcome from then on and echoes   *)
(* the key; any other applies every request and echoes nothing.            *)
(***************************************************************************)
EXTENDS Integers

CONSTANTS
  ActionAttempt,     \* the executions of the action
  Operation,         \* the operations the manifest allows
  OperationOf,       \* OperationOf[a]: the one attempt a names
  Outcome,           \* what an operation may answer
  MaxActionFaults,   \* bound: attempts killed, answers lost
  MaxEffects,        \* bound: what the model counts of a target's effects
  NoReceipt, NoOutcome

ASSUME ActionAssumption ==
  /\ OperationOf \in [ActionAttempt -> Operation]
  /\ MaxActionFaults \in Nat /\ MaxEffects \in Nat \ {0, 1}
  /\ NoOutcome \notin Outcome
  /\ NoReceipt \notin [operation : Operation, status : {"pending", "completed"},
                       result : Outcome \cup {NoOutcome}]

VARIABLES
  receipt,      \* the row of the action, or NoReceipt
  honours,      \* the target keeps the idempotency contract
  answers,      \* answers[o]: the target's answer for the key of operation o
  effects,      \* effects[o]: how often it has applied o
  attempts,     \* attempts[a]: where the attempt stands
  actionFaults  \* what is left of the bound

actionVars == <<receipt, honours, answers, effects, attempts, actionFaults>>

Receipt == [operation : Operation, status : {"pending", "completed"},
            result : Outcome \cup {NoOutcome}]

AttemptStep == {"idle", "requesting", "answered", "done", "refused"}

ActionTypeOK ==
  /\ receipt \in Receipt \cup {NoReceipt}
  /\ honours \in BOOLEAN
  /\ answers \in [Operation -> Outcome \cup {NoOutcome}]
  /\ effects \in [Operation -> 0 .. MaxEffects]
  /\ attempts \in [ActionAttempt -> [at : AttemptStep, result : Outcome \cup {NoOutcome}]]
  /\ actionFaults \in 0 .. MaxActionFaults

ActionInit ==
  /\ receipt = NoReceipt
  /\ honours \in BOOLEAN
  /\ answers = [o \in Operation |-> NoOutcome]
  /\ effects = [o \in Operation |-> 0]
  /\ attempts = [a \in ActionAttempt |-> [at |-> "idle", result |-> NoOutcome]]
  /\ actionFaults = MaxActionFaults

MoveAttempt(a, step, result) == attempts' = [attempts EXCEPT ![a] = [at |-> step, result |-> result]]

---------------------------------------------------------------------------
(* claimActionExecutionReceipt *)

\* INSERT ... ON CONFLICT DO NOTHING RETURNING
ClaimNew(a) ==
  /\ attempts[a].at = "idle" /\ receipt = NoReceipt
  /\ receipt' = [operation |-> OperationOf[a], status |-> "pending", result |-> NoOutcome]
  /\ MoveAttempt(a, "requesting", NoOutcome)
  /\ UNCHANGED <<honours, answers, effects, actionFaults>>

\* Mutant: the existing row is taken whatever operation it was claimed for.
ClaimAnyOperation(a) ==
  /\ attempts[a].at = "idle" /\ receipt # NoReceipt
  /\ IF receipt.status = "completed"
       THEN MoveAttempt(a, "done", receipt.result)
       ELSE MoveAttempt(a, "requesting", NoOutcome)
  /\ UNCHANGED <<receipt, honours, answers, effects, actionFaults>>

\* The row exists: another operation is a conflict, a completed one is the
\* answer, a pending one is requested again with the same key.
ClaimExisting(a) ==
  /\ attempts[a].at = "idle" /\ receipt # NoReceipt
  /\ IF receipt.operation # OperationOf[a] THEN MoveAttempt(a, "refused", NoOutcome)
     ELSE IF receipt.status = "completed" THEN MoveAttempt(a, "done", receipt.result)
     ELSE MoveAttempt(a, "requesting", NoOutcome)
  /\ UNCHANGED <<receipt, honours, answers, effects, actionFaults>>

---------------------------------------------------------------------------
(* requestOperation, sent with the key of run, action and operation *)

Counted(n) == IF n < MaxEffects THEN n + 1 ELSE n

\* What the target does with a request.
Applies(o, outcome) ==
  IF honours /\ answers[o] # NoOutcome
    THEN outcome = answers[o] /\ UNCHANGED <<answers, effects>>
    ELSE /\ answers' = [answers EXCEPT ![o] = outcome]
         /\ effects' = [effects EXCEPT ![o] = Counted(@)]

\* Mutant: the echo of the key is not looked at.
RequestUnechoed(a) ==
  /\ attempts[a].at = "requesting"
  /\ \E outcome \in Outcome : Applies(OperationOf[a], outcome) /\ MoveAttempt(a, "answered", outcome)
  /\ UNCHANGED <<receipt, honours, actionFaults>>

\* An answer without the echo of the key is thrown away.
Request(a) ==
  /\ attempts[a].at = "requesting"
  /\ \E outcome \in Outcome :
       /\ Applies(OperationOf[a], outcome)
       /\ IF honours THEN MoveAttempt(a, "answered", outcome) ELSE MoveAttempt(a, "refused", NoOutcome)
  /\ UNCHANGED <<receipt, honours, actionFaults>>

LoseAnswer(a) ==
  /\ attempts[a].at = "requesting" /\ actionFaults > 0
  /\ actionFaults' = actionFaults - 1
  /\ \E outcome \in Outcome : Applies(OperationOf[a], outcome)
  /\ MoveAttempt(a, "idle", NoOutcome)
  /\ UNCHANGED <<receipt, honours>>

\* completeActionExecutionReceipt does not ask whether the row is still pending.
Complete(a) ==
  /\ attempts[a].at = "answered"
  /\ receipt # NoReceipt /\ receipt.operation = OperationOf[a]
  /\ receipt' = [receipt EXCEPT !.status = "completed", !.result = attempts[a].result]
  /\ MoveAttempt(a, "done", attempts[a].result)
  /\ UNCHANGED <<honours, answers, effects, actionFaults>>

\* The attempt's process dies; the action is executed again.
ActionCrash(a) ==
  /\ attempts[a].at \in {"requesting", "answered"} /\ actionFaults > 0
  /\ actionFaults' = actionFaults - 1
  /\ MoveAttempt(a, "idle", NoOutcome)
  /\ UNCHANGED <<receipt, honours, answers, effects>>

ActionNext ==
  \E a \in ActionAttempt :
    ClaimNew(a) \/ ClaimExisting(a) \/ Request(a) \/ LoseAnswer(a) \/ Complete(a) \/ ActionCrash(a)

ActionSpec == ActionInit /\ [][ActionNext]_actionVars

---------------------------------------------------------------------------
(* Properties *)

\* Whatever is retried, raced or lost, a target that keeps the contract applies
\* the action once, and no target sees two operations for it
\* (claimActionExecutionReceipt: "a retry uses exactly the same target
\* idempotency key").
ActionAppliedOnce ==
  /\ honours => \A o \in Operation : effects[o] <= 1
  /\ \A o, p \in Operation : effects[o] > 0 /\ effects[p] > 0 => o = p

\* A completed receipt tells what the target did, and every attempt that ends
\* with a result ends with that one; no receipt completes on an answer that
\* did not echo the key (executeStructuredAction).
ReceiptTellsTheEffect ==
  /\ receipt # NoReceipt /\ receipt.status = "completed" =>
       honours /\ receipt.result = answers[receipt.operation] /\ effects[receipt.operation] = 1
  /\ \A a \in ActionAttempt : attempts[a].at = "done" =>
       receipt # NoReceipt /\ receipt.status = "completed" /\ attempts[a].result = receipt.result
=============================================================================
