----------------------- MODULE DurableServicesProofs ------------------------
(***************************************************************************)
(* What the receipts of actions, the outbox, the artifact store and its    *)
(* reconciliation guarantee for any number of attempts, jobs, publishers,  *)
(* artifacts, reconciliations and faults, and that the services, run side  *)
(* by side, keep what each guarantees alone.                               *)
(***************************************************************************)
EXTENDS MCDurableServices, LlmBudgetProofs, TrajectoryProofs

---------------------------------------------------------------------------
(* The receipt of an action: once the row is claimed its operation stands, *)
(* only an attempt that names that operation reaches the target, and an    *)
(* attempt holds an answer only of a target that keeps the contract, which *)
(* is the target's answer for good.                                        *)

\* Only attempts of the claimed operation are on their way to the target or back.
OnlyClaimedIsRequested ==
  \A a \in ActionAttempt : attempts[a].at \in {"requesting", "answered"} =>
    receipt # NoReceipt /\ receipt.operation = OperationOf[a]

\* The target has seen no operation but the claimed one.
OnlyClaimedHasEffect ==
  \A o \in Operation : effects[o] > 0 => receipt # NoReceipt /\ receipt.operation = o

\* The target has an answer for just the operations it has applied.
AnswersTellEffects ==
  \A o \in Operation : /\ answers[o] = NoOutcome <=> effects[o] = 0
                       /\ honours => effects[o] <= 1

\* An attempt holds an answer only of a target that keeps the contract.
HeldAnswerStands ==
  \A a \in ActionAttempt : attempts[a].at = "answered" =>
    honours /\ attempts[a].result # NoOutcome /\ attempts[a].result = answers[OperationOf[a]]

ActionInv ==
  /\ ActionTypeOK
  /\ OnlyClaimedIsRequested /\ OnlyClaimedHasEffect /\ AnswersTellEffects
  /\ HeldAnswerStands /\ ReceiptTellsTheEffect

USE DEF Receipt, AttemptStep

LEMMA ActionInitially == ActionInit => ActionInv
  BY ActionAssumption
  DEF ActionInit, ActionInv, ActionTypeOK, OnlyClaimedIsRequested, OnlyClaimedHasEffect,
      AnswersTellEffects, HeldAnswerStands, ReceiptTellsTheEffect

\* What a request does to the target: the operation has an answer afterwards, a
\* target that keeps the contract keeps the one it has.
LEMMA AppliesEffect ==
  ASSUME ActionInv, NEW o \in Operation, NEW outcome \in Outcome, Applies(o, outcome)
  PROVE  /\ answers' \in [Operation -> Outcome \cup {NoOutcome}]
         /\ effects' \in [Operation -> 0 .. MaxEffects]
         /\ answers'[o] # NoOutcome /\ effects'[o] > 0
         /\ honours => answers'[o] = outcome /\ effects'[o] = 1
         /\ honours /\ answers[o] # NoOutcome => answers'[o] = answers[o]
         /\ \A p \in Operation : p # o => answers'[p] = answers[p] /\ effects'[p] = effects[p]
PROOF
  <1> USE ActionAssumption DEF ActionInv, ActionTypeOK, AnswersTellEffects
  <1>1. CASE honours /\ answers[o] # NoOutcome
    BY <1>1 DEF Applies
  <1>2. CASE ~(honours /\ answers[o] # NoOutcome)
    <2>1. /\ answers' = [answers EXCEPT ![o] = outcome]
          /\ effects' = [effects EXCEPT ![o] = Counted(@)]
      BY <1>2 DEF Applies
    <2>2. Counted(effects[o]) \in 1 .. MaxEffects
      BY DEF Counted
    <2>3. honours => effects[o] = 0 /\ Counted(effects[o]) = 1
      BY <1>2 DEF Counted
    <2> QED
      BY <1>2, <2>1, <2>2, <2>3
  <1> QED
    BY <1>1, <1>2

\* A request of an attempt that is on its way keeps what the invariant says of
\* the target and of the receipt, whatever becomes of the attempt.
LEMMA RequestKeepsTarget ==
  ASSUME ActionInv, NEW a \in ActionAttempt, attempts[a].at = "requesting",
         NEW outcome \in Outcome, Applies(OperationOf[a], outcome),
         UNCHANGED <<receipt, honours>>
  PROVE  /\ OnlyClaimedHasEffect' /\ AnswersTellEffects'
         /\ receipt # NoReceipt /\ receipt.status = "completed" =>
              /\ honours /\ receipt.result = answers'[receipt.operation]
              /\ effects'[receipt.operation] = 1
PROOF
  <1> DEFINE o == OperationOf[a]
  <1>1. o \in Operation
    BY ActionAssumption
  <1>2. receipt # NoReceipt /\ receipt.operation = o
    BY DEF ActionInv, OnlyClaimedIsRequested
  <1>3. /\ answers'[o] # NoOutcome /\ effects'[o] > 0
        /\ honours => answers'[o] = outcome /\ effects'[o] = 1
        /\ honours /\ answers[o] # NoOutcome => answers'[o] = answers[o]
        /\ \A p \in Operation : p # o => answers'[p] = answers[p] /\ effects'[p] = effects[p]
        /\ effects' \in [Operation -> 0 .. MaxEffects]
    BY <1>1, AppliesEffect
  <1> HIDE DEF o
  <1>4. OnlyClaimedHasEffect'
    BY <1>1, <1>2, <1>3 DEF ActionInv, OnlyClaimedHasEffect
  <1>5. AnswersTellEffects'
    BY <1>1, <1>3 DEF ActionInv, AnswersTellEffects
  <1>6. ASSUME receipt.status = "completed"
        PROVE  honours /\ receipt.result = answers'[o] /\ effects'[o] = 1
    <2>1. honours /\ receipt.result = answers[o] /\ effects[o] = 1
      BY <1>2, <1>6 DEF ActionInv, ReceiptTellsTheEffect
    <2>2. answers[o] # NoOutcome
      BY <1>1, <2>1 DEF ActionInv, AnswersTellEffects
    <2> QED
      BY <1>3, <2>1, <2>2
  <1> QED
    BY <1>2, <1>4, <1>5, <1>6

\* What moves a single attempt does to the attempts.
LEMMA Moved ==
  ASSUME ActionTypeOK, NEW a \in ActionAttempt, NEW step \in AttemptStep,
         NEW result \in Outcome \cup {NoOutcome}, MoveAttempt(a, step, result)
  PROVE  /\ attempts' \in [ActionAttempt -> [at : AttemptStep, result : Outcome \cup {NoOutcome}]]
         /\ attempts'[a].at = step /\ attempts'[a].result = result
         /\ \A b \in ActionAttempt : b # a => attempts'[b] = attempts[b]
  BY DEF ActionTypeOK, MoveAttempt

LEMMA ActionStep == ActionInv /\ [ActionNext]_actionVars => ActionInv'
PROOF
  <1> SUFFICES ASSUME ActionInv, [ActionNext]_actionVars PROVE ActionInv'
    OBVIOUS
  <1> USE ActionAssumption
  <1>0. ActionTypeOK /\ ReceiptTellsTheEffect
    BY DEF ActionInv
  <1>1. CASE UNCHANGED actionVars
    BY <1>1 DEF actionVars, ActionInv, ActionTypeOK, OnlyClaimedIsRequested, OnlyClaimedHasEffect,
      AnswersTellEffects, HeldAnswerStands, ReceiptTellsTheEffect
  <1>2. ASSUME NEW a \in ActionAttempt, ClaimNew(a) PROVE ActionInv'
    <2>1. /\ attempts[a].at = "idle" /\ receipt = NoReceipt
          /\ receipt' = [operation |-> OperationOf[a], status |-> "pending", result |-> NoOutcome]
          /\ MoveAttempt(a, "requesting", NoOutcome)
          /\ UNCHANGED <<honours, answers, effects, actionFaults>>
      BY <1>2 DEF ClaimNew
    <2>2. receipt' \in Receipt /\ receipt' # NoReceipt
      BY <2>1
    <2>3. /\ attempts' \in [ActionAttempt -> [at : AttemptStep, result : Outcome \cup {NoOutcome}]]
          /\ attempts'[a].at = "requesting" /\ attempts'[a].result = NoOutcome
          /\ \A b \in ActionAttempt : b # a => attempts'[b] = attempts[b]
      BY <1>0, <2>1, Moved
    <2>4. \A b \in ActionAttempt : attempts[b].at \notin {"requesting", "answered", "done"}
      BY <2>1 DEF ActionInv, OnlyClaimedIsRequested, ReceiptTellsTheEffect
    <2>5. \A o \in Operation : effects[o] = 0
      BY <2>1 DEF ActionInv, ActionTypeOK, OnlyClaimedHasEffect
    <2> QED
      BY <2>1, <2>2, <2>3, <2>4, <2>5
      DEF ActionInv, ActionTypeOK, OnlyClaimedIsRequested, OnlyClaimedHasEffect,
          AnswersTellEffects, HeldAnswerStands, ReceiptTellsTheEffect
  <1>3. ASSUME NEW a \in ActionAttempt, ClaimExisting(a) PROVE ActionInv'
    <2>1. /\ receipt # NoReceipt /\ receipt \in Receipt
          /\ UNCHANGED <<receipt, honours, answers, effects, actionFaults>>
      BY <1>0, <1>3 DEF ClaimExisting, ActionTypeOK
    <2>2. PICK step \in {"refused", "done", "requesting"}, result \in Outcome \cup {NoOutcome} :
            /\ MoveAttempt(a, step, result)
            /\ step = "done" => receipt.status = "completed" /\ result = receipt.result
            /\ step = "requesting" => receipt.operation = OperationOf[a]
      BY <1>3, <2>1 DEF ClaimExisting
    <2>3. /\ attempts' \in [ActionAttempt -> [at : AttemptStep, result : Outcome \cup {NoOutcome}]]
          /\ attempts'[a].at = step /\ attempts'[a].result = result
          /\ \A b \in ActionAttempt : b # a => attempts'[b] = attempts[b]
      BY <1>0, <2>2, Moved
    <2> QED
      BY <2>1, <2>2, <2>3, SMTT(40)
      DEF ActionInv, ActionTypeOK, OnlyClaimedIsRequested, OnlyClaimedHasEffect,
          AnswersTellEffects, HeldAnswerStands, ReceiptTellsTheEffect
  <1>4. ASSUME NEW a \in ActionAttempt, Request(a) \/ LoseAnswer(a) PROVE ActionInv'
    <2>1. attempts[a].at = "requesting" /\ UNCHANGED <<receipt, honours>>
      BY <1>4 DEF Request, LoseAnswer
    <2>2. PICK outcome \in Outcome, step \in {"answered", "refused", "idle"},
               result \in Outcome \cup {NoOutcome} :
            /\ Applies(OperationOf[a], outcome) /\ MoveAttempt(a, step, result)
            /\ step = "answered" => honours /\ result = outcome
      BY <1>4 DEF Request, LoseAnswer
    <2>3. /\ attempts' \in [ActionAttempt -> [at : AttemptStep, result : Outcome \cup {NoOutcome}]]
          /\ attempts'[a].at = step /\ attempts'[a].result = result
          /\ \A b \in ActionAttempt : b # a => attempts'[b] = attempts[b]
      BY <1>0, <2>2, Moved
    <2>4. /\ answers' \in [Operation -> Outcome \cup {NoOutcome}]
          /\ effects' \in [Operation -> 0 .. MaxEffects]
          /\ honours => answers'[OperationOf[a]] = outcome
          /\ answers'[OperationOf[a]] # NoOutcome
          /\ honours /\ answers[OperationOf[a]] # NoOutcome
               => answers'[OperationOf[a]] = answers[OperationOf[a]]
          /\ \A p \in Operation : p # OperationOf[a] => answers'[p] = answers[p]
      BY <2>2, AppliesEffect
    <2>5. actionFaults' \in 0 .. MaxActionFaults
      BY <1>0, <1>4 DEF Request, LoseAnswer, ActionTypeOK
    <2>6. ActionTypeOK'
      BY <1>0, <2>1, <2>3, <2>4, <2>5 DEF ActionTypeOK
    <2>7. OnlyClaimedIsRequested'
      BY <2>1, <2>3 DEF ActionInv, OnlyClaimedIsRequested
    <2>8. HeldAnswerStands'
      <3> SUFFICES ASSUME NEW b \in ActionAttempt, attempts'[b].at = "answered"
                   PROVE  /\ honours' /\ attempts'[b].result # NoOutcome
                          /\ attempts'[b].result = answers'[OperationOf[b]]
        BY DEF HeldAnswerStands
      <3>1. CASE b = a
        BY <2>1, <2>2, <2>3, <2>4, <3>1
      <3>2. CASE b # a
        <4>1. honours /\ attempts[b].result # NoOutcome /\ attempts[b].result = answers[OperationOf[b]]
          BY <2>3, <3>2 DEF ActionInv, HeldAnswerStands
        <4>2. OperationOf[b] \in Operation
          OBVIOUS
        <4> QED
          BY <2>1, <2>3, <2>4, <3>2, <4>1, <4>2
      <3> QED
        BY <3>1, <3>2
    <2>9. OnlyClaimedHasEffect' /\ AnswersTellEffects'
      BY <2>1, <2>2, RequestKeepsTarget
    <2>10. ReceiptTellsTheEffect'
      <3>1. receipt # NoReceipt /\ receipt.status = "completed" =>
              /\ honours /\ receipt.result = answers'[receipt.operation]
              /\ effects'[receipt.operation] = 1
        BY <2>1, <2>2, RequestKeepsTarget
      <3> QED
        BY <1>0, <2>1, <2>3, <3>1 DEF ReceiptTellsTheEffect
    <2> QED
      BY <2>6, <2>7, <2>8, <2>9, <2>10 DEF ActionInv
  <1>5. ASSUME NEW a \in ActionAttempt, Complete(a) PROVE ActionInv'
    <2>1. /\ attempts[a].at = "answered"
          /\ receipt # NoReceipt /\ receipt.operation = OperationOf[a]
          /\ receipt' = [receipt EXCEPT !.status = "completed", !.result = attempts[a].result]
          /\ MoveAttempt(a, "done", attempts[a].result)
          /\ UNCHANGED <<honours, answers, effects, actionFaults>>
      BY <1>5 DEF Complete
    <2>2. /\ receipt' \in Receipt /\ receipt' # NoReceipt
          /\ receipt'.operation = receipt.operation /\ receipt'.status = "completed"
          /\ receipt'.result = attempts[a].result
      BY <1>0, <2>1 DEF ActionTypeOK
    <2>3. /\ attempts' \in [ActionAttempt -> [at : AttemptStep, result : Outcome \cup {NoOutcome}]]
          /\ attempts'[a].at = "done" /\ attempts'[a].result = attempts[a].result
          /\ \A b \in ActionAttempt : b # a => attempts'[b] = attempts[b]
      BY <1>0, <2>1, Moved DEF ActionTypeOK
    <2>4. /\ honours /\ attempts[a].result # NoOutcome
          /\ attempts[a].result = answers[receipt.operation] /\ receipt.operation \in Operation
      BY <2>1 DEF ActionInv, HeldAnswerStands
    <2>5. effects[receipt.operation] = 1
      <3>1. effects[receipt.operation] # 0 /\ effects[receipt.operation] <= 1
        BY <2>4 DEF ActionInv, AnswersTellEffects
      <3>2. effects[receipt.operation] \in 0 .. MaxEffects
        BY <1>0, <2>4 DEF ActionTypeOK
      <3> QED
        BY <3>1, <3>2
    <2>6. ReceiptTellsTheEffect'
      BY <1>0, <2>1, <2>2, <2>3, <2>4, <2>5 DEF ReceiptTellsTheEffect
    <2> QED
      BY <1>0, <2>1, <2>2, <2>3, <2>6, SMTT(40)
      DEF ActionInv, ActionTypeOK, OnlyClaimedIsRequested, OnlyClaimedHasEffect,
          AnswersTellEffects, HeldAnswerStands
  <1>6. ASSUME NEW a \in ActionAttempt, ActionCrash(a) PROVE ActionInv'
    <2>1. /\ MoveAttempt(a, "idle", NoOutcome) /\ actionFaults' \in 0 .. MaxActionFaults
          /\ UNCHANGED <<receipt, honours, answers, effects>>
      BY <1>0, <1>6 DEF ActionCrash, ActionTypeOK
    <2>2. /\ attempts' \in [ActionAttempt -> [at : AttemptStep, result : Outcome \cup {NoOutcome}]]
          /\ attempts'[a].at = "idle"
          /\ \A b \in ActionAttempt : b # a => attempts'[b] = attempts[b]
      BY <1>0, <2>1, Moved
    <2>3. ActionTypeOK'
      BY <1>0, <2>1, <2>2 DEF ActionTypeOK
    <2>4. OnlyClaimedIsRequested' /\ HeldAnswerStands'
      BY <2>1, <2>2 DEF ActionInv, OnlyClaimedIsRequested, HeldAnswerStands
    <2>5. OnlyClaimedHasEffect' /\ AnswersTellEffects'
      BY <2>1 DEF ActionInv, OnlyClaimedHasEffect, AnswersTellEffects
    <2>6. ReceiptTellsTheEffect'
      BY <1>0, <2>1, <2>2 DEF ReceiptTellsTheEffect
    <2> QED
      BY <2>3, <2>4, <2>5, <2>6 DEF ActionInv
  <1> QED
    BY <1>1, <1>2, <1>3, <1>4, <1>5, <1>6 DEF ActionNext

LEMMA ActionInvariant == ActionSpec => []ActionInv
  BY ActionInitially, ActionStep, PTL DEF ActionSpec

LEMMA EffectsSuffice == ActionInv => ActionAppliedOnce
  BY DEF ActionInv, AnswersTellEffects, OnlyClaimedHasEffect, ActionAppliedOnce

\* Every variable of the action has its type.
THEOREM ActionTypeCorrect == ActionSpec => []ActionTypeOK
  BY ActionInvariant, PTL DEF ActionInv

\* However many attempts retry and race, a target that keeps the contract
\* applies the action once, and no target sees two operations for it
\* (claimActionExecutionReceipt).
THEOREM ActionIsAppliedOnce == ActionSpec => []ActionAppliedOnce
  BY EffectsSuffice, ActionInvariant, PTL

\* A completed receipt, and every attempt that ends with a result, tell what
\* the target did (completeActionExecutionReceipt).
THEOREM ReceiptIsTruthful == ActionSpec => []ReceiptTellsTheEffect
  BY ActionInvariant, PTL DEF ActionInv

HIDE DEF Receipt, AttemptStep

---------------------------------------------------------------------------
(* The outbox: a publisher has one of its claimed rows in hand, and marks  *)
(* it only after the queue has taken it; the queue gives up what it has    *)
(* only to a worker.                                                       *)

InHandIsClaimed == \A p \in Publisher : pub[p] # polling => pub[p].job \in batch[p]

ClaimedAreRecorded == \A p \in Publisher : \A j \in batch[p] : outbox[j] # "absent"

ToMarkIsHanded == \A p \in Publisher : pub[p].at = "mark" => Handed(pub[p].job)

DoneWasDelivered == \A j \in OutboxJob : queue[j] = "done" => j \in delivered

\* The queue and the workers see recorded jobs only.
HandedWasRecorded ==
  \A j \in OutboxJob : queue[j] # "unknown" \/ j \in delivered => outbox[j] # "absent"

OutboxInv ==
  /\ OutboxTypeOK /\ InHandIsClaimed /\ ClaimedAreRecorded /\ ToMarkIsHanded
  /\ DoneWasDelivered /\ HandedWasRecorded /\ PublishedIsHanded

LEMMA OutboxInitially == OutboxInit => OutboxInv
  BY OutboxAssumption
  DEF OutboxInit, OutboxInv, OutboxTypeOK, OutboxStatus, QueueState, InHandIsClaimed, ClaimedAreRecorded,
      ToMarkIsHanded, DoneWasDelivered, HandedWasRecorded, PublishedIsHanded, InHand, polling

LEMMA FaultOfOutboxSpent ==
  OutboxTypeOK /\ SpendOutboxFault => outboxFaults' \in 0 .. MaxOutboxFaults
  BY OutboxAssumption DEF OutboxTypeOK, SpendOutboxFault

\* What the queue makes of a job it is handed.
LEMMA QueueTakes ==
  ASSUME queue \in [OutboxJob -> QueueState], NEW j \in OutboxJob, UNCHANGED queue \/ QueueAdd(j)
  PROVE  /\ queue' \in [OutboxJob -> QueueState]
         /\ \A k \in OutboxJob : \/ queue'[k] = queue[k]
                                 \/ k = j /\ queue[k] = "unknown" /\ queue'[k] = "waiting"
         /\ QueueAdd(j) => queue'[j] # "unknown"
PROOF
  <1>1. CASE QueueAdd(j)
    <2>1. queue' = [queue EXCEPT ![j] = IF queue[j] = "unknown" THEN "waiting" ELSE queue[j]]
      BY <1>1 DEF QueueAdd
    <2> QED
      BY <1>1, <2>1 DEF QueueState
  <1>2. CASE UNCHANGED queue /\ ~QueueAdd(j)
    BY <1>2
  <1> QED
    BY <1>1, <1>2

\* A publisher that goes on with a row it has claimed, or leaves the others to
\* whoever claims them again.
LEMMA PublisherMoves ==
  ASSUME OutboxInv, NEW p \in Publisher, Publish(p) \/ Mark(p) \/ MarkFailed(p) \/ PublisherCrash(p)
  PROVE  OutboxInv'
PROOF
  <1> USE DEF OutboxInv, OutboxTypeOK, InHand, polling
  <1>1. CASE Publish(p)
    <2>1. PICK j \in batch[p] :
            \/ QueueAdd(j) /\ Goes(p, "mark", j) /\ UNCHANGED outboxFaults
            \/ SpendOutboxFault /\ Goes(p, "fail", j) /\ UNCHANGED queue
      BY <1>1 DEF Publish
    <2>2. j \in OutboxJob /\ UNCHANGED <<outbox, recorded, aged, batch, delivered>>
      BY <1>1 DEF Publish
    <2>3. PICK step \in {"mark", "fail"} :
            /\ pub' = [pub EXCEPT ![p] = [at |-> step, job |-> j]]
            /\ step = "mark" => QueueAdd(j)
            /\ outboxFaults' \in 0 .. MaxOutboxFaults
            /\ UNCHANGED queue \/ QueueAdd(j)
      BY <2>1, FaultOfOutboxSpent DEF Goes
    <2>4. /\ pub' \in [Publisher -> InHand] /\ pub'[p] = [at |-> step, job |-> j]
          /\ \A q \in Publisher : q # p => pub'[q] = pub[q]
      BY <2>2, <2>3
    <2>5. /\ queue' \in [OutboxJob -> QueueState]
          /\ \A k \in OutboxJob : \/ queue'[k] = queue[k]
                                  \/ k = j /\ queue[k] = "unknown" /\ queue'[k] = "waiting"
          /\ step = "mark" => queue'[j] # "unknown"
      BY <2>2, <2>3, QueueTakes
    <2>6. DoneWasDelivered'
      BY <2>2, <2>5 DEF DoneWasDelivered
    <2>7. ToMarkIsHanded'
      BY <2>2, <2>4, <2>5, <2>6 DEF ToMarkIsHanded, Handed, QueueState, DoneWasDelivered
    <2>8. HandedWasRecorded' /\ PublishedIsHanded'
      BY <2>2, <2>5 DEF HandedWasRecorded, PublishedIsHanded, Handed, ClaimedAreRecorded
    <2>9. InHandIsClaimed' /\ ClaimedAreRecorded'
      BY <2>2, <2>4 DEF InHandIsClaimed, ClaimedAreRecorded
    <2> QED
      BY <2>2, <2>3, <2>4, <2>5, <2>6, <2>7, <2>8, <2>9
  <1>2. ASSUME NEW j \in OutboxJob, NEW status \in {"pending", "published"}, SetRow(p, j, status),
               j \in batch[p], status = "published" => Handed(j),
               UNCHANGED <<recorded, queue, delivered>>, outboxFaults' \in 0 .. MaxOutboxFaults
        PROVE  OutboxInv'
    <2>1. /\ outbox' = [outbox EXCEPT ![j] = status] /\ aged' = aged \ {j}
          /\ batch' = [batch EXCEPT ![p] = @ \ {j}] /\ pub' = [pub EXCEPT ![p] = polling]
      BY <1>2 DEF SetRow
    <2>2. /\ OutboxTypeOK' /\ outbox'[j] = status /\ pub'[p] = polling
          /\ \A k \in OutboxJob : k # j => outbox'[k] = outbox[k]
          /\ \A q \in Publisher : q # p => pub'[q] = pub[q] /\ batch'[q] = batch[q]
          /\ batch'[p] \subseteq batch[p]
      BY <1>2, <2>1 DEF OutboxStatus
    <2>3. InHandIsClaimed' /\ ToMarkIsHanded'
      BY <1>2, <2>2 DEF InHandIsClaimed, ToMarkIsHanded, Handed
    <2>4. ClaimedAreRecorded'
      BY <1>2, <2>2 DEF ClaimedAreRecorded
    <2>5. DoneWasDelivered' /\ HandedWasRecorded' /\ PublishedIsHanded'
      BY <1>2, <2>2 DEF DoneWasDelivered, HandedWasRecorded, PublishedIsHanded, Handed
    <2> QED
      BY <2>2, <2>3, <2>4, <2>5
  <1>3. ASSUME Leave(p), UNCHANGED <<outbox, recorded, aged, queue, delivered>>,
               outboxFaults' \in 0 .. MaxOutboxFaults
        PROVE  OutboxInv'
    <2>1. /\ OutboxTypeOK' /\ pub'[p] = polling /\ batch'[p] = {}
          /\ \A q \in Publisher : q # p => pub'[q] = pub[q] /\ batch'[q] = batch[q]
      BY <1>3 DEF Leave
    <2> QED
      BY <1>3, <2>1
      DEF InHandIsClaimed, ToMarkIsHanded, Handed, ClaimedAreRecorded, DoneWasDelivered,
          HandedWasRecorded, PublishedIsHanded
  <1>4. pub[p].at # "publish" => pub[p] # polling /\ pub[p].job \in OutboxJob /\ pub[p].job \in batch[p]
    BY DEF InHandIsClaimed
  <1>5. CASE Mark(p)
    <2>1. pub[p].at = "mark" /\ UNCHANGED <<recorded, queue, delivered>>
      BY <1>5 DEF Mark
    <2>2. CASE SetRow(p, pub[p].job, "published") /\ UNCHANGED outboxFaults
      <3>1. Handed(pub[p].job) /\ outboxFaults' \in 0 .. MaxOutboxFaults
        BY <2>1, <2>2 DEF ToMarkIsHanded
      <3> QED
        BY <1>2, <1>4, <2>1, <2>2, <3>1
    <2>3. CASE SpendOutboxFault /\ Goes(p, "fail", pub[p].job) /\ UNCHANGED <<outbox, aged, batch>>
      <3>1. /\ pub' \in [Publisher -> InHand] /\ pub'[p] = [at |-> "fail", job |-> pub[p].job]
            /\ \A q \in Publisher : q # p => pub'[q] = pub[q]
        BY <1>4, <2>1, <2>3 DEF Goes
      <3>2. outboxFaults' \in 0 .. MaxOutboxFaults
        BY <2>3, FaultOfOutboxSpent
      <3> QED
        BY <1>4, <2>1, <2>3, <3>1, <3>2
        DEF InHandIsClaimed, ToMarkIsHanded, Handed, ClaimedAreRecorded, DoneWasDelivered,
            HandedWasRecorded, PublishedIsHanded
    <2> QED
      BY <1>5, <2>2, <2>3 DEF Mark
  <1>6. CASE MarkFailed(p)
    <2>1. pub[p].at = "fail" /\ UNCHANGED <<recorded, queue, delivered>>
      BY <1>6 DEF MarkFailed
    <2>2. CASE SetRow(p, pub[p].job, "pending") /\ UNCHANGED outboxFaults
      BY <1>2, <1>4, <2>1, <2>2
    <2>3. CASE SpendOutboxFault /\ Leave(p) /\ UNCHANGED <<outbox, aged>>
      BY <1>3, <2>1, <2>3, FaultOfOutboxSpent
    <2> QED
      BY <1>6, <2>2, <2>3 DEF MarkFailed
  <1>7. CASE PublisherCrash(p)
    BY <1>3, <1>7, FaultOfOutboxSpent DEF PublisherCrash
  <1> QED
    BY <1>1, <1>5, <1>6, <1>7

LEMMA ClaimMoves ==
  ASSUME OutboxInv, NEW p \in Publisher, ClaimBatch(p)
  PROVE  OutboxInv'
PROOF
  <1> DEFINE claimed == {j \in OutboxJob :
        Claimable(j) /\ Cardinality({k \in Older(j) : Claimable(k)}) < ClaimLimit}
  <1>1. /\ batch[p] = {}
        /\ outbox' = [j \in OutboxJob |-> IF j \in claimed THEN "publishing" ELSE outbox[j]]
        /\ aged' = aged \ claimed /\ batch' = [batch EXCEPT ![p] = claimed]
        /\ UNCHANGED <<recorded, pub, queue, delivered, outboxFaults>>
    BY Zenon DEF ClaimBatch, Busy
  <1>2. \A j \in claimed : j \in OutboxJob /\ Claimable(j)
    OBVIOUS
  <1> HIDE DEF claimed
  <1>3. \A j \in claimed : j \in OutboxJob /\ outbox[j] \in {"pending", "publishing"}
    BY <1>2 DEF Claimable
  <1>4. /\ OutboxTypeOK' /\ batch'[p] = claimed
        /\ \A q \in Publisher : q # p => batch'[q] = batch[q]
        /\ \A j \in OutboxJob : \/ j \notin claimed /\ outbox'[j] = outbox[j]
                                \/ j \in claimed /\ outbox'[j] = "publishing"
    BY <1>1, <1>3 DEF OutboxInv, OutboxTypeOK, OutboxStatus
  <1>5. pub[p] = polling
    BY <1>1 DEF OutboxInv, InHandIsClaimed
  <1>6. InHandIsClaimed' /\ ClaimedAreRecorded'
    BY <1>1, <1>3, <1>4, <1>5 DEF OutboxInv, OutboxTypeOK, InHandIsClaimed, ClaimedAreRecorded
  <1>7. ToMarkIsHanded' /\ DoneWasDelivered' /\ HandedWasRecorded' /\ PublishedIsHanded'
    BY <1>1, <1>3, <1>4
    DEF OutboxInv, ToMarkIsHanded, DoneWasDelivered, HandedWasRecorded, PublishedIsHanded, Handed
  <1> QED
    BY <1>4, <1>6, <1>7 DEF OutboxInv

LEMMA OutboxStep == OutboxInv /\ [OutboxNext]_outboxVars => OutboxInv'
PROOF
  <1> SUFFICES ASSUME OutboxInv, [OutboxNext]_outboxVars PROVE OutboxInv'
    OBVIOUS
  <1>1. CASE UNCHANGED outboxVars
    BY <1>1
    DEF outboxVars, OutboxInv, OutboxTypeOK, InHandIsClaimed, ClaimedAreRecorded, ToMarkIsHanded,
        DoneWasDelivered, HandedWasRecorded, PublishedIsHanded, Handed
  <1>2. ASSUME NEW j \in OutboxJob, Record(j) PROVE OutboxInv'
    <2>1. /\ outbox[j] = "absent" /\ outbox' = [outbox EXCEPT ![j] = "pending"]
          /\ recorded' = Append(recorded, j)
          /\ UNCHANGED <<aged, batch, pub, queue, delivered, outboxFaults>>
      BY <1>2 DEF Record
    <2>2. /\ OutboxTypeOK' /\ outbox'[j] = "pending"
          /\ \A k \in OutboxJob : k # j => outbox'[k] = outbox[k]
      BY <2>1, AppendProperties DEF OutboxInv, OutboxTypeOK, OutboxStatus
    <2> QED
      BY <2>1, <2>2
      DEF OutboxInv, OutboxTypeOK, InHandIsClaimed, ClaimedAreRecorded, ToMarkIsHanded,
          DoneWasDelivered, HandedWasRecorded, PublishedIsHanded, Handed
  <1>3. ASSUME NEW j \in OutboxJob, Deliver(j) \/ Forget(j) PROVE OutboxInv'
    <2>1. PICK state \in {"unknown", "done"} :
            /\ queue[j] # "unknown" /\ queue' = [queue EXCEPT ![j] = state]
            /\ j \in delivered' /\ delivered \subseteq delivered' /\ delivered' \subseteq delivered \cup {j}
            /\ UNCHANGED <<outbox, recorded, aged, batch, pub, outboxFaults>>
      BY <1>3 DEF Deliver, Forget, OutboxInv, DoneWasDelivered
    <2>2. /\ OutboxTypeOK' /\ queue'[j] = state
          /\ \A k \in OutboxJob : k # j => queue'[k] = queue[k]
      BY <2>1 DEF OutboxInv, OutboxTypeOK, QueueState
    <2>3. \A k \in OutboxJob : Handed(k) => Handed(k)'
      BY <2>1, <2>2 DEF Handed
    <2>4. \A q \in Publisher : pub[q].at = "mark" => pub[q].job \in OutboxJob
      BY DEF OutboxInv, OutboxTypeOK, InHand
    <2>5. ToMarkIsHanded' /\ PublishedIsHanded'
      BY <2>1, <2>3, <2>4 DEF OutboxInv, ToMarkIsHanded, PublishedIsHanded
    <2>6. DoneWasDelivered' /\ HandedWasRecorded'
      BY <2>1, <2>2 DEF OutboxInv, DoneWasDelivered, HandedWasRecorded
    <2> QED
      BY <2>1, <2>2, <2>5, <2>6 DEF OutboxInv, InHandIsClaimed, ClaimedAreRecorded
  <1>4. CASE MinutePasses
    <2>1. /\ aged' \subseteq OutboxJob /\ outboxFaults' \in 0 .. MaxOutboxFaults
          /\ UNCHANGED <<outbox, recorded, batch, pub, queue, delivered>>
      BY <1>4, FaultOfOutboxSpent DEF MinutePasses, OutboxInv, OutboxTypeOK
    <2> QED
      BY <2>1
      DEF OutboxInv, OutboxTypeOK, InHandIsClaimed, ClaimedAreRecorded, ToMarkIsHanded,
          DoneWasDelivered, HandedWasRecorded, PublishedIsHanded, Handed
  <1> QED
    BY <1>1, <1>2, <1>3, <1>4, PublisherMoves, ClaimMoves DEF OutboxNext, PublisherStep

LEMMA OutboxInvariant == OutboxInit /\ [][OutboxNext]_outboxVars => []OutboxInv
  BY OutboxInitially, OutboxStep, PTL

\* However the publishers, the workers and the queue interleave and whatever
\* fails, a row that says published is one whose job the queue has taken
\* (publishPendingOutboxWithDatabase).
THEOREM PublishedJobsAreHanded == OutboxSpec => []PublishedIsHanded
  BY OutboxInvariant, PTL DEF OutboxSpec, OutboxInv

---------------------------------------------------------------------------
(* The artifact store: without a long pause only a settled artifact has an *)
(* object older than the grace period.  If its row is there every          *)
(* reconciliation under way has read it, so what is planned for deletion   *)
(* has no row, and never will.                                             *)

Unpaused == longPauses = MaxLongPauses

CapturedHasNoObject == \A a \in Artifact : mirror[a] = "captured" => object[a] = "absent"

PersistedHasRow == \A a \in Artifact : mirror[a] = "persisted" => ledgerState[a] # "none"

\* A reconciliation has read, and will update, rows that are there.
KnownHaveRows ==
  \A p \in Reconciler : \A k \in rec[p].known \cup rec[p].update :
    ledgerState[k[1]] # "none" /\ k[2] # "none"

\* Every reconciliation under way has read the row of artifact a, if there is one.
Surveyed(a) ==
  \A p \in Reconciler : rec[p].at # "resting" /\ ledgerState[a] # "none" => a \in Referenced(p)

OldIsSettled ==
  Unpaused => \A a \in Artifact : <<"object", a>> \in old =>
                mirror[a] \in {"persisted", "over"} /\ Surveyed(a)

DoomedHasNoRow ==
  Unpaused => \A p \in Reconciler : \A a \in Artifact : <<"object", a>> \in rec[p].delete =>
                mirror[a] = "over" /\ ledgerState[a] = "none"

ArtifactSafe ==
  /\ CapturedHasNoObject /\ PersistedHasRow /\ KnownHaveRows
  /\ OldIsSettled /\ DoomedHasNoRow

ArtifactInv == ArtifactTypeOK /\ ArtifactSafe

LEMMA ArtifactInitially == ArtifactInit => ArtifactInv
  BY ArtifactAssumption
  DEF ArtifactInit, ArtifactInv, ArtifactTypeOK, ArtifactSafe, ObjectState, LedgerState, MirrorStep,
      RecStep, NoSurvey, Survey, CapturedHasNoObject, PersistedHasRow, KnownHaveRows, OldIsSettled,
      DoomedHasNoRow

LEMMA ArtifactFaultSpent ==
  ArtifactTypeOK /\ SpendArtifactFault => artifactFaults' \in 0 .. MaxArtifactFaults
  BY ArtifactAssumption DEF ArtifactTypeOK, SpendArtifactFault

\* A step of the worker that captured artifact a: what is safe stays so if no
\* object comes to an artifact still captured, none gets older, and a row comes
\* only to an artifact that is not yet settled or has one.
LEMMA WorkerMoves ==
  ASSUME ArtifactInv, NEW a \in Artifact, NEW step \in MirrorStep \ {"captured"},
         mirror' = [mirror EXCEPT ![a] = step], UNCHANGED <<rec, longPauses>>,
         partial' \subseteq Artifact, old' \subseteq old, artifactFaults' \in 0 .. MaxArtifactFaults,
         object' \in [Artifact -> ObjectState], ledgerState' \in [Artifact -> LedgerState],
         \A b \in Artifact : b # a => object'[b] = object[b] /\ ledgerState'[b] = ledgerState[b],
         ledgerState[a] # "none" => ledgerState'[a] # "none",
         step = "persisted" => ledgerState'[a] # "none",
         mirror[a] \in {"persisted", "over"} => step = "over" /\ UNCHANGED object,
         mirror[a] = "over" => UNCHANGED ledgerState
  PROVE  ArtifactInv'
PROOF
  <1>1. /\ ArtifactTypeOK' /\ mirror'[a] = step
        /\ \A b \in Artifact : b # a => mirror'[b] = mirror[b]
        /\ rec \in [Reconciler -> Survey] /\ mirror[a] \in MirrorStep
    BY DEF ArtifactInv, ArtifactTypeOK
  <1>2. CapturedHasNoObject' /\ PersistedHasRow'
    BY <1>1 DEF ArtifactInv, ArtifactSafe, CapturedHasNoObject, PersistedHasRow
  <1>3. KnownHaveRows'
    <2>1. \A p \in Reconciler : \A k \in rec[p].known \cup rec[p].update : k[1] \in Artifact
      BY <1>1 DEF Survey
    <2> QED
      BY <2>1 DEF ArtifactInv, ArtifactSafe, KnownHaveRows
  <1>4. OldIsSettled'
    <2> SUFFICES ASSUME Unpaused', NEW b \in Artifact, <<"object", b>> \in old'
                 PROVE  mirror'[b] \in {"persisted", "over"} /\ Surveyed(b)'
      BY DEF OldIsSettled
    <2>1. mirror[b] \in {"persisted", "over"} /\ Surveyed(b)
      BY DEF ArtifactInv, ArtifactSafe, OldIsSettled, Unpaused
    <2>2. ledgerState'[b] # "none" => ledgerState[b] # "none"
      BY <2>1 DEF ArtifactInv, ArtifactSafe, PersistedHasRow
    <2> QED
      BY <1>1, <2>1, <2>2 DEF Surveyed, Referenced
  <1>5. DoomedHasNoRow'
    BY <1>1 DEF ArtifactInv, ArtifactSafe, DoomedHasNoRow, Unpaused
  <1> QED
    BY <1>1, <1>2, <1>3, <1>4, <1>5 DEF ArtifactInv, ArtifactSafe

LEMMA WorkerStep ==
  ASSUME ArtifactInv, NEW a \in Artifact, MirrorStepOf(a) \/ Killed(a)
  PROVE  ArtifactInv'
PROOF
  <1> USE DEF MirrorTo, MirrorStep, ObjectState, LedgerState
  <1>0. /\ partial \subseteq Artifact /\ object \in [Artifact -> ObjectState]
        /\ ledgerState \in [Artifact -> LedgerState] /\ mirror \in [Artifact -> MirrorStep]
        /\ artifactFaults \in 0 .. MaxArtifactFaults
    BY DEF ArtifactInv, ArtifactTypeOK
  <1>1. SpendArtifactFault => artifactFaults' \in 0 .. MaxArtifactFaults
    BY ArtifactFaultSpent DEF ArtifactInv
  <1>2. CASE Upload(a)
    BY <1>0, <1>1, <1>2, WorkerMoves DEF Upload
  <1>3. CASE Promote(a)
    <2>1. /\ mirror[a] = "uploaded" /\ UNCHANGED <<partial, old, ledgerState, rec, longPauses>>
          /\ artifactFaults' \in 0 .. MaxArtifactFaults
          /\ \/ UNCHANGED object
             \/ object' = [object EXCEPT ![a] = "good"]
      BY <1>0, <1>1, <1>3 DEF Promote
    <2>2. PICK step \in MirrorStep \ {"captured", "persisted"} : mirror' = [mirror EXCEPT ![a] = step]
      BY <1>3 DEF Promote
    <2> QED
      BY <1>0, <2>1, <2>2, WorkerMoves
  <1>4. CASE ReadBack(a) \/ CleanUp(a)
    <2>1. /\ mirror[a] \in {"copied", "cleanup"} /\ UNCHANGED <<object, ledgerState, rec, longPauses>>
          /\ artifactFaults' \in 0 .. MaxArtifactFaults
          /\ partial' \subseteq Artifact /\ old' \subseteq old
      BY <1>0, <1>1, <1>4 DEF ReadBack, CleanUp
    <2>2. PICK step \in {"mirrored", "over"} : mirror' = [mirror EXCEPT ![a] = step]
      BY <1>4 DEF ReadBack, CleanUp
    <2> QED
      BY <1>0, <2>1, <2>2, WorkerMoves
  <1>5. CASE PersistArtifact(a)
    <2>1. /\ ledgerState' = [ledgerState EXCEPT ![a] = "committed"]
          /\ UNCHANGED <<partial, object, old, rec, artifactFaults, longPauses>>
      BY <1>5 DEF PersistArtifact
    <2>2. PICK step \in {"persisted", "over"} :
            /\ mirror' = [mirror EXCEPT ![a] = step]
            /\ mirror[a] = (IF step = "persisted" THEN "mirrored" ELSE "persisted")
      BY <1>5 DEF PersistArtifact
    <2> QED
      BY <1>0, <2>1, <2>2, WorkerMoves
  <1>6. CASE Killed(a)
    BY <1>0, <1>1, <1>6, WorkerMoves DEF Killed
  <1> QED
    BY <1>2, <1>3, <1>4, <1>5, <1>6 DEF MirrorStepOf

\* A step of reconciliation p: what is safe stays so if the rows it knows are
\* there, no row comes or goes, it has read the rows of what is old, and what it
\* will delete has none.
LEMMA ReconcilerMoves ==
  ASSUME ArtifactInv, NEW p \in Reconciler, NEW survey \in Survey,
         rec' = [rec EXCEPT ![p] = survey], UNCHANGED <<mirror, longPauses>>,
         partial' \subseteq Artifact, old' \subseteq old, artifactFaults' \in 0 .. MaxArtifactFaults,
         object' \in [Artifact -> ObjectState],
         \A b \in Artifact : object'[b] = object[b] \/ object'[b] = "absent",
         ledgerState' \in [Artifact -> LedgerState],
         \A b \in Artifact : ledgerState'[b] = "none" <=> ledgerState[b] = "none",
         \A k \in survey.known \cup survey.update : ledgerState[k[1]] # "none" /\ k[2] # "none",
         Unpaused => \A b \in Artifact :
           /\ <<"object", b>> \in old /\ survey.at # "resting" /\ ledgerState[b] # "none"
                => b \in {k[1] : k \in survey.known}
           /\ <<"object", b>> \in survey.delete => mirror[b] = "over" /\ ledgerState[b] = "none"
  PROVE  ArtifactInv'
PROOF
  <1>1. /\ ArtifactTypeOK' /\ rec'[p] = survey
        /\ \A q \in Reconciler : q # p => rec'[q] = rec[q]
        /\ rec' \in [Reconciler -> Survey]
    BY DEF ArtifactInv, ArtifactTypeOK
  <1>2. CapturedHasNoObject' /\ PersistedHasRow'
    BY DEF ArtifactInv, ArtifactSafe, CapturedHasNoObject, PersistedHasRow
  <1>3. KnownHaveRows'
    <2> SUFFICES ASSUME NEW q \in Reconciler, NEW k \in rec'[q].known \cup rec'[q].update
                 PROVE  ledgerState'[k[1]] # "none" /\ k[2] # "none"
      BY DEF KnownHaveRows
    <2>1. k[1] \in Artifact
      BY <1>1 DEF Survey
    <2>2. ledgerState[k[1]] # "none" /\ k[2] # "none"
      BY <1>1 DEF ArtifactInv, ArtifactSafe, KnownHaveRows
    <2> QED
      BY <2>1, <2>2
  <1>4. OldIsSettled'
    <2> SUFFICES ASSUME Unpaused, NEW b \in Artifact, <<"object", b>> \in old
                 PROVE  mirror'[b] \in {"persisted", "over"} /\ Surveyed(b)'
      BY DEF OldIsSettled, Unpaused
    <2>1. mirror[b] \in {"persisted", "over"} /\ Surveyed(b)
      BY DEF ArtifactInv, ArtifactSafe, OldIsSettled
    <2> QED
      BY <1>1, <2>1 DEF Surveyed, Referenced
  <1>5. DoomedHasNoRow'
    BY <1>1 DEF ArtifactInv, ArtifactSafe, DoomedHasNoRow, Unpaused
  <1> QED
    BY <1>1, <1>2, <1>3, <1>4, <1>5 DEF ArtifactInv, ArtifactSafe

LEMMA NothingSurveyed == NoSurvey \in Survey
  BY DEF NoSurvey, Survey, RecStep

\* What the plan of the reconciliation deletes has no row, unless somebody has
\* paused for the whole grace period.
LEMMA PlannedHasNoRow ==
  ASSUME ArtifactInv, Unpaused, NEW p \in Reconciler, rec[p].at # "resting",
         NEW a \in Artifact, <<"object", a>> \in PlanDeletions(p)
  PROVE  mirror[a] = "over" /\ ledgerState[a] = "none"
PROOF
  <1>1. <<"object", a>> \in old /\ a \notin Referenced(p)
    BY DEF PlanDeletions
  <1>2. mirror[a] \in {"persisted", "over"} /\ ledgerState[a] = "none"
    BY <1>1 DEF ArtifactInv, ArtifactSafe, OldIsSettled, Surveyed
  <1> QED
    BY <1>2 DEF ArtifactInv, ArtifactSafe, PersistedHasRow

\* A transaction of updates brings no row and takes none away.
LEMMA UpdatedRows ==
  ASSUME ArtifactInv, NEW p \in Reconciler, UpdateRows(p)
  PROVE  /\ ledgerState' \in [Artifact -> LedgerState]
         /\ \A a \in Artifact : ledgerState'[a] = "none" <=> ledgerState[a] = "none"
PROOF
  <1> DEFINE update == rec[p].update
             named == {k[1] : k \in update}
             latest(a) == CHOOSE k \in update : k[1] = a
  <1>1. ledgerState' = [a \in Artifact |-> IF a \in named THEN latest(a)[2] ELSE ledgerState[a]]
    BY DEF UpdateRows
  <1>2. ledgerState \in [Artifact -> LedgerState] /\ rec[p] \in Survey
    BY DEF ArtifactInv, ArtifactTypeOK
  <1>3. ASSUME NEW a \in named
        PROVE  latest(a)[2] \in LedgerState \ {"none"} /\ ledgerState[a] # "none"
    <2>1. latest(a) \in update /\ latest(a)[1] = a
      BY <1>3, Zenon
    <2> HIDE DEF latest
    <2>2. ledgerState[a] # "none"
      BY <2>1 DEF ArtifactInv, ArtifactSafe, KnownHaveRows
    <2>3. latest(a)[2] \in LedgerState \ {"none"}
      BY <1>2, <2>1 DEF Survey, ArtifactInv, ArtifactSafe, KnownHaveRows
    <2> QED
      BY <2>2, <2>3
  <1> HIDE DEF named, latest
  <1> QED
    BY <1>1, <1>2, <1>3

LEMMA ReconcilerStep ==
  ASSUME ArtifactInv, NEW p \in Reconciler, ReconcileStep(p) \/ ReconcileFails(p)
  PROVE  ArtifactInv'
PROOF
  <1>0. /\ partial \subseteq Artifact /\ object \in [Artifact -> ObjectState] /\ old \subseteq Thing
        /\ ledgerState \in [Artifact -> LedgerState] /\ rec[p] \in Survey
        /\ artifactFaults \in 0 .. MaxArtifactFaults /\ rec \in [Reconciler -> Survey]
    BY DEF ArtifactInv, ArtifactTypeOK
  <1>1. /\ \A k \in rec[p].known \cup rec[p].update : ledgerState[k[1]] # "none" /\ k[2] # "none"
        /\ Unpaused => \A b \in Artifact :
             /\ <<"object", b>> \in old /\ rec[p].at # "resting" /\ ledgerState[b] # "none"
                  => b \in {k[1] : k \in rec[p].known}
             /\ <<"object", b>> \in rec[p].delete => mirror[b] = "over" /\ ledgerState[b] = "none"
    BY DEF ArtifactInv, ArtifactSafe, KnownHaveRows, OldIsSettled, Surveyed, Referenced, DoomedHasNoRow
  <1>2. CASE ReadRows(p)
    <2> DEFINE known == {k \in Artifact \X LedgerState : k[2] # "none" /\ ledgerState[k[1]] = k[2]}
               survey == [NoSurvey EXCEPT !.at = "listing", !.known = known]
    <2>1. /\ rec' = [rec EXCEPT ![p] = survey]
          /\ UNCHANGED <<partial, object, old, ledgerState, mirror, artifactFaults, longPauses>>
      BY <1>2 DEF ReadRows
    <2>2. survey \in Survey /\ survey.known = known /\ survey.update = {} /\ survey.delete = {}
      BY DEF NoSurvey, Survey, RecStep
    <2>3. \A k \in known : ledgerState[k[1]] # "none" /\ k[2] # "none"
      OBVIOUS
    <2>4. \A b \in Artifact : ledgerState[b] # "none" => b \in {k[1] : k \in known}
      <3> SUFFICES ASSUME NEW b \in Artifact, ledgerState[b] # "none"
                   PROVE  \E k \in known : k[1] = b
        OBVIOUS
      <3>1. <<b, ledgerState[b]>> \in known
        BY <1>0
      <3> QED
        BY <3>1
    <2> HIDE DEF known, survey
    <2> QED
      BY <1>0, <2>1, <2>2, <2>3, <2>4, ReconcilerMoves
  <1>3. CASE List(p)
    <2> DEFINE missing == {a \in Referenced(p) : object[a] = "absent"}
               survey == [rec[p] EXCEPT !.at = "checking", !.delete = PlanDeletions(p), !.missing = missing]
    <2>1. /\ rec[p].at = "listing" /\ rec' = [rec EXCEPT ![p] = survey]
          /\ UNCHANGED <<partial, object, old, ledgerState, mirror, artifactFaults, longPauses>>
      BY <1>0, <1>3 DEF List
    <2>2. missing \subseteq Artifact /\ PlanDeletions(p) \subseteq Thing
      BY <1>0 DEF Referenced, PlanDeletions, Survey
    <2> HIDE DEF missing
    <2>3. /\ survey \in Survey /\ survey.known = rec[p].known /\ survey.update = rec[p].update
          /\ survey.delete = PlanDeletions(p)
      BY <1>0, <2>2 DEF Survey, RecStep
    <2>4. Unpaused => \A b \in Artifact : <<"object", b>> \in PlanDeletions(p) =>
                        mirror[b] = "over" /\ ledgerState[b] = "none"
      BY <2>1, PlannedHasNoRow
    <2> HIDE DEF survey
    <2> QED
      BY <1>0, <1>1, <2>1, <2>3, <2>4, ReconcilerMoves
  <1>4. CASE HeadObjects(p)
    <2> DEFINE update == {<<k[1], Checked(p, k[1])>> : k \in {j \in rec[p].known : Checked(p, j[1]) # j[2]}}
               survey == [rec[p] EXCEPT !.at = "updating", !.update = update]
    <2>1. /\ rec[p].at = "checking" /\ rec' = [rec EXCEPT ![p] = survey]
          /\ UNCHANGED <<partial, object, old, ledgerState, mirror, artifactFaults, longPauses>>
      BY <1>0, <1>4 DEF HeadObjects
    <2>2. update \subseteq Artifact \X {"missing", "committed"}
      BY <1>0 DEF Checked, Survey
    <2>3. \A k \in update : ledgerState[k[1]] # "none" /\ k[2] # "none"
      BY <1>1, <2>2
    <2> HIDE DEF update
    <2>4. /\ survey \in Survey /\ survey.known = rec[p].known /\ survey.update = update
          /\ survey.delete = rec[p].delete
      BY <1>0, <2>2 DEF Survey, RecStep, LedgerState
    <2> HIDE DEF survey
    <2> QED
      BY <1>0, <1>1, <2>1, <2>3, <2>4, ReconcilerMoves
  <1>5. CASE UpdateRows(p)
    <2> DEFINE survey == [rec[p] EXCEPT !.at = "deleting"]
    <2>1. /\ rec[p].at = "updating" /\ rec' = [rec EXCEPT ![p] = survey]
          /\ UNCHANGED <<partial, object, old, mirror, artifactFaults, longPauses>>
      BY <1>0, <1>5 DEF UpdateRows
    <2>2. /\ survey \in Survey /\ survey.known = rec[p].known /\ survey.update = rec[p].update
          /\ survey.delete = rec[p].delete
      BY <1>0 DEF Survey, RecStep
    <2> HIDE DEF survey
    <2> QED
      BY <1>0, <1>1, <1>5, <2>1, <2>2, UpdatedRows, ReconcilerMoves
  <1>6. CASE DeletePlanned(p)
    <2>1. rec[p].at = "deleting" /\ UNCHANGED <<ledgerState, mirror, artifactFaults, longPauses>>
      BY <1>6 DEF DeletePlanned
    <2>2. CASE rec[p].delete = {}
      <3>1. rec' = [rec EXCEPT ![p] = NoSurvey] /\ UNCHANGED <<partial, object, old>>
        BY <1>6, <2>2 DEF DeletePlanned
      <3>2. NoSurvey.at = "resting" /\ NoSurvey.known \cup NoSurvey.update = {} /\ NoSurvey.delete = {}
        BY DEF NoSurvey
      <3> QED
        BY <1>0, <2>1, <3>1, <3>2, NothingSurveyed, ReconcilerMoves
    <2>3. CASE rec[p].delete # {}
      <3>1. PICK t \in rec[p].delete :
              /\ rec' = [rec EXCEPT ![p].delete = @ \ {t}]
              /\ old' = old \ {t}
              /\ partial' = IF t[1] = "partial" THEN partial \ {t[2]} ELSE partial
              /\ object' = IF t[1] = "object" THEN [object EXCEPT ![t[2]] = "absent"] ELSE object
        BY <1>6, <2>3 DEF DeletePlanned
      <3> DEFINE survey == [rec[p] EXCEPT !.delete = @ \ {t}]
      <3>2. rec' = [rec EXCEPT ![p] = survey]
        BY <1>0, <3>1
      <3>3. /\ survey \in Survey /\ survey.known = rec[p].known /\ survey.update = rec[p].update
            /\ survey.delete \subseteq rec[p].delete /\ survey.at = rec[p].at
        BY <1>0 DEF Survey
      <3>4. /\ partial' \subseteq Artifact /\ old' \subseteq old
            /\ object' \in [Artifact -> ObjectState]
            /\ \A b \in Artifact : object'[b] = object[b] \/ object'[b] = "absent"
        BY <1>0, <3>1 DEF ObjectState
      <3> HIDE DEF survey
      <3> QED
        BY <1>0, <1>1, <2>1, <3>2, <3>3, <3>4, ReconcilerMoves
    <2> QED
      BY <2>2, <2>3
  <1>7. CASE ReconcileFails(p)
    <2>1. /\ rec' = [rec EXCEPT ![p] = NoSurvey] /\ artifactFaults' \in 0 .. MaxArtifactFaults
          /\ UNCHANGED <<partial, object, old, ledgerState, mirror, longPauses>>
      BY <1>7, ArtifactFaultSpent DEF ReconcileFails, ArtifactInv
    <2>2. NoSurvey.at = "resting" /\ NoSurvey.known \cup NoSurvey.update = {} /\ NoSurvey.delete = {}
      BY DEF NoSurvey
    <2> QED
      BY <1>0, <2>1, <2>2, NothingSurveyed, ReconcilerMoves
  <1> QED
    BY <1>2, <1>3, <1>4, <1>5, <1>6, <1>7 DEF ReconcileStep

LEMMA ObjectLost ==
  ASSUME ArtifactInv, NEW a \in Artifact, LoseObject(a)
  PROVE  ArtifactInv'
PROOF
  <1>1. PICK s \in {"absent", "spoiled"} : object' = [object EXCEPT ![a] = s]
    BY DEF LoseObject
  <1>2. /\ object[a] = "good" /\ artifactFaults' \in 0 .. MaxArtifactFaults
        /\ UNCHANGED <<partial, old, ledgerState, mirror, rec, longPauses>>
    BY ArtifactFaultSpent DEF LoseObject, ArtifactInv
  <1>3. ArtifactTypeOK'
    BY <1>1, <1>2 DEF ArtifactInv, ArtifactTypeOK, ObjectState
  <1>4. CapturedHasNoObject'
    BY <1>1, <1>2 DEF ArtifactInv, ArtifactTypeOK, ArtifactSafe, CapturedHasNoObject
  <1> QED
    BY <1>2, <1>3, <1>4
    DEF ArtifactInv, ArtifactSafe, PersistedHasRow, KnownHaveRows, OldIsSettled, DoomedHasNoRow,
        Surveyed, Referenced, Unpaused

LEMMA GraceStep ==
  ASSUME ArtifactInv, GracePasses
  PROVE  ArtifactInv'
PROOF
  <1> DEFINE present == {t \in Thing : IF t[1] = "partial" THEN t[2] \in partial
                                                          ELSE object[t[2]] # "absent"}
  <1>1. /\ old' = present /\ UNCHANGED <<partial, object, ledgerState, mirror, rec, artifactFaults>>
        /\ IF UnderWay THEN longPauses > 0 /\ longPauses' = longPauses - 1
                       ELSE UNCHANGED longPauses
    BY DEF GracePasses
  <1>2. /\ \A a \in Artifact : <<"object", a>> \in present => object[a] # "absent"
        /\ present \subseteq Thing
    BY DEF Thing
  <1> HIDE DEF present
  <1>3. ArtifactTypeOK'
    BY <1>1, <1>2, ArtifactAssumption DEF ArtifactInv, ArtifactTypeOK
  <1>4. Unpaused' => Unpaused /\ ~UnderWay
    BY <1>1, ArtifactAssumption DEF Unpaused, ArtifactInv, ArtifactTypeOK
  <1>5. OldIsSettled'
    <2> SUFFICES ASSUME Unpaused', NEW a \in Artifact, <<"object", a>> \in old'
                 PROVE  mirror[a] \in {"persisted", "over"} /\ \A p \in Reconciler : rec[p].at = "resting"
      BY <1>1 DEF OldIsSettled, Surveyed
    <2>1. mirror[a] # "captured"
      BY <1>1, <1>2 DEF ArtifactInv, ArtifactSafe, CapturedHasNoObject
    <2> QED
      BY <1>4, <2>1 DEF UnderWay
  <1> QED
    BY <1>1, <1>3, <1>4, <1>5
    DEF ArtifactInv, ArtifactSafe, CapturedHasNoObject, PersistedHasRow, KnownHaveRows, DoomedHasNoRow

LEMMA ArtifactStep == ArtifactInv /\ [ArtifactNext]_artifactVars => ArtifactInv'
PROOF
  <1>1. ASSUME ArtifactInv, UNCHANGED artifactVars PROVE ArtifactInv'
    BY <1>1
    DEF artifactVars, ArtifactInv, ArtifactTypeOK, ArtifactSafe, CapturedHasNoObject, PersistedHasRow,
        KnownHaveRows, OldIsSettled, DoomedHasNoRow, Surveyed, Referenced, Unpaused
  <1> QED
    BY <1>1, WorkerStep, ReconcilerStep, ObjectLost, GraceStep DEF ArtifactNext

LEMMA ArtifactInvariant == ArtifactInit /\ [][ArtifactNext]_artifactVars => []ArtifactInv
  BY ArtifactInitially, ArtifactStep, PTL

\* No reconciliation takes away an object that the ledger names, however many
\* reconciliations, workers, faults and deaths there are, as long as nobody has
\* paused for a whole grace period (buildArtifactObjectReconciliationPlan).
THEOREM ReferencedObjectsAreKept == ArtifactSpec => ReferencedObjectIsKept
PROOF
  <1> DEFINE Kept ==
        \A a \in Artifact :
          (\E p \in Reconciler : rec[p].at = "deleting" /\ rec'[p] # rec[p])
          /\ object[a] = "good" /\ ledgerState[a] # "none" /\ longPauses = MaxLongPauses
          => object'[a] = "good"
  <1>1. ArtifactInv /\ [ArtifactNext]_artifactVars => [Kept]_artifactVars
    <2> SUFFICES ASSUME ArtifactInv, ArtifactNext,
                        NEW a \in Artifact, NEW p \in Reconciler,
                        rec[p].at = "deleting", rec'[p] # rec[p], object[a] = "good",
                        ledgerState[a] # "none", longPauses = MaxLongPauses
                 PROVE  object'[a] = "good"
      OBVIOUS
    <2>1. PICK q \in Reconciler : ReconcileStep(q) \/ ReconcileFails(q)
      BY DEF ArtifactNext, MirrorStepOf, Upload, Promote, ReadBack, CleanUp, PersistArtifact, Killed,
             LoseObject, GracePasses
    <2>2. CASE UNCHANGED object
      BY <2>2
    <2>3. CASE DeletePlanned(q) /\ rec[q].delete # {}
      <3>1. PICK t \in rec[q].delete :
              object' = IF t[1] = "object" THEN [object EXCEPT ![t[2]] = "absent"] ELSE object
        BY <2>3 DEF DeletePlanned
      <3>2. t \in Thing /\ object \in [Artifact -> ObjectState]
        BY DEF ArtifactInv, ArtifactTypeOK, Survey
      <3>3. t # <<"object", a>>
        BY DEF ArtifactInv, ArtifactSafe, DoomedHasNoRow, Unpaused
      <3> QED
        BY <3>1, <3>2, <3>3 DEF Thing
    <2> QED
      BY <2>1, <2>2, <2>3
      DEF ReconcileStep, ReconcileFails, ReadRows, List, HeadObjects, UpdateRows, DeletePlanned
  <1> QED
    BY <1>1, ArtifactInvariant, PTL DEF ArtifactSpec, ReferencedObjectIsKept

---------------------------------------------------------------------------
(* The services side by side: a step of one leaves the others where they   *)
(* are, so each keeps its own specification.                               *)

\* What a service may do and may not do, without what it will do in the end.
OutboxSafety == OutboxInit /\ [][OutboxNext]_outboxVars
ArtifactSafety == ArtifactInit /\ [][ArtifactNext]_artifactVars

LEMMA ServicesStep ==
  [ServicesNext]_servicesVars =>
    /\ [LlmNext]_llmVars /\ [ActionNext]_actionVars /\ [OutboxNext]_outboxVars
    /\ [TrajectoryNext]_trajectoryVars /\ [ArtifactNext]_artifactVars
  BY Zenon
  DEF ServicesNext, servicesVars, LlmPart, ActionPart, OutboxPart, TrajectoryPart, ArtifactPart

LEMMA ServicesKeepTheirSpecs ==
  ServicesSpec => LlmSafety /\ ActionSpec /\ OutboxSafety /\ TrajectorySpec /\ ArtifactSafety
PROOF
  <1>1. ServicesInit => LlmInit /\ ActionInit /\ OutboxInit /\ TrajectoryInit /\ ArtifactInit
    BY DEF ServicesInit
  <1> QED
    BY <1>1, ServicesStep, PTL
    DEF ServicesSpec, LlmSafety, ActionSpec, OutboxSafety, TrajectorySpec, ArtifactSafety

LEMMA ServicesInvariant ==
  ServicesSpec => [](LlmInv /\ TokenInv /\ ActionInv /\ OutboxInv /\ TrajectoryInv /\ ArtifactInv)
  BY ServicesKeepTheirSpecs, LlmInvariant, TokenInvariant, ActionInvariant, OutboxInvariant,
     TrajectoryInvariant, ArtifactInvariant, PTL
  DEF OutboxSafety, ArtifactSafety

\* Every variable of every service has its type.
THEOREM ServicesTypeCorrect == ServicesSpec => []ServicesTypeOK
PROOF
  <1>1. LlmInv /\ ActionInv /\ OutboxInv /\ TrajectoryInv /\ ArtifactInv => ServicesTypeOK
    BY DEF LlmInv, ActionInv, OutboxInv, TrajectoryInv, ArtifactInv, ServicesTypeOK
  <1> QED
    BY <1>1, ServicesInvariant, PTL

\* Side by side the services keep what each of them guarantees alone.
THEOREM ServicesAreSafe ==
  ServicesSpec =>
    /\ GrantedCallsFit /\ GrantedTokensFit
    /\ [](/\ ReservationsAreReturned
          /\ ActionAppliedOnce /\ ReceiptTellsTheEffect /\ PublishedIsHanded
          /\ OpenAppendIsNotRefused /\ RootNumbersAreDense)
PROOF
  <1>1. ActionInv /\ OutboxInv /\ TrajectoryInv =>
          ReceiptTellsTheEffect /\ PublishedIsHanded /\ OpenAppendIsNotRefused /\ RootNumbersAreDense
    BY DEF ActionInv, OutboxInv, TrajectoryInv
  <1> QED
    BY <1>1, ServicesInvariant, ServicesKeepTheirSpecs, GrantedCallsAreFew, GrantedTokensAreFew,
       ReservationsSuffice, EffectsSuffice, PTL
=============================================================================
