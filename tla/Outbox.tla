------------------------------- MODULE Outbox -------------------------------
(***************************************************************************)
(* event_outbox_v1 (outboxStore.ts), the pollers that publish it           *)
(* (publishOutboxToQueue, runOrchestrator.ts) and the BullMQ queue, which  *)
(* is external: it ignores a job whose id it still knows, delivers a job   *)
(* until it is done with, and forgets the oldest done ones.                *)
(*                                                                         *)
(* The delay before a failed row is available again only makes the pollers *)
(* wait.  A poll claims the oldest rows, and is given them in no order:    *)
(* RETURNING promises none.                                                *)
(***************************************************************************)
EXTENDS Integers, Sequences, FiniteSets

CONSTANTS
  OutboxJob,        \* the jobs
  Publisher,        \* the processes that poll the outbox
  ClaimLimit,       \* rows claimed by one poll
  NoJob,            \* what a publisher has in hand between two jobs
  MaxOutboxFaults   \* bound: pollers killed, calls that fail, minutes that pass in mid-step

ASSUME OutboxAssumption ==
  ClaimLimit \in Nat \ {0} /\ NoJob \notin OutboxJob /\ MaxOutboxFaults \in Nat

VARIABLES
  outbox,       \* outbox[j]: the status of job j's row
  recorded,     \* the rows in the order of created_at
  aged,         \* the rows in publishing that nobody has touched for a minute
  batch,        \* batch[p]: the jobs publisher p has claimed and not dealt with
  pub,          \* pub[p]: what it does with the one it has in hand
  queue,        \* queue[j]: what BullMQ knows of job j
  delivered,    \* the jobs a worker has been given
  outboxFaults  \* what is left of the bound

outboxVars == <<outbox, recorded, aged, batch, pub, queue, delivered, outboxFaults>>

OutboxStatus == {"absent", "pending", "publishing", "published"}
QueueState == {"unknown", "waiting", "done"}

InHand == [at : {"publish"}, job : {NoJob}] \cup [at : {"mark", "fail"}, job : OutboxJob]

polling == [at |-> "publish", job |-> NoJob]

OutboxTypeOK ==
  /\ outbox \in [OutboxJob -> OutboxStatus]
  /\ recorded \in Seq(OutboxJob)
  /\ aged \subseteq OutboxJob
  /\ batch \in [Publisher -> SUBSET OutboxJob]
  /\ pub \in [Publisher -> InHand]
  /\ queue \in [OutboxJob -> QueueState]
  /\ delivered \subseteq OutboxJob
  /\ outboxFaults \in 0 .. MaxOutboxFaults

OutboxInit ==
  /\ outbox = [j \in OutboxJob |-> "absent"]
  /\ recorded = <<>> /\ aged = {}
  /\ batch = [p \in Publisher |-> {}]
  /\ pub = [p \in Publisher |-> polling]
  /\ queue = [j \in OutboxJob |-> "unknown"]
  /\ delivered = {}
  /\ outboxFaults = MaxOutboxFaults

SpendOutboxFault == outboxFaults > 0 /\ outboxFaults' = outboxFaults - 1

Busy(p) == batch[p] # {}

\* What publisher p does next with job j.
Goes(p, step, j) == pub' = [pub EXCEPT ![p] = [at |-> step, job |-> j]]

\* insertOutboxInTransaction, recordOutboxJob: a key is inserted once.
Record(j) ==
  /\ outbox[j] = "absent"
  /\ outbox' = [outbox EXCEPT ![j] = "pending"]
  /\ recorded' = Append(recorded, j)
  /\ UNCHANGED <<aged, batch, pub, queue, delivered, outboxFaults>>

\* Mutant: a row in publishing is never claimed again.
ClaimablePending(j) == outbox[j] = "pending"

Claimable(j) == outbox[j] = "pending" \/ (outbox[j] = "publishing" /\ j \in aged)

Older(j) == {k \in OutboxJob : \E m, n \in 1 .. Len(recorded) :
                                  m < n /\ recorded[m] = k /\ recorded[n] = j}

\* claim: the oldest ones, FOR UPDATE SKIP LOCKED
ClaimBatch(p) ==
  LET claimed == {j \in OutboxJob :
        Claimable(j) /\ Cardinality({k \in Older(j) : Claimable(k)}) < ClaimLimit}
  IN /\ ~Busy(p) /\ claimed # {}
     /\ outbox' = [j \in OutboxJob |-> IF j \in claimed THEN "publishing" ELSE outbox[j]]
     /\ aged' = aged \ claimed
     /\ batch' = [batch EXCEPT ![p] = claimed]
     /\ UNCHANGED <<recorded, pub, queue, delivered, outboxFaults>>

\* queue.add: a jobId the queue still knows is ignored.
QueueAdd(j) == queue' = [queue EXCEPT ![j] = IF @ = "unknown" THEN "waiting" ELSE @]

Publish(p) ==
  /\ pub[p] = polling
  /\ \E j \in batch[p] :
       \/ QueueAdd(j) /\ Goes(p, "mark", j) /\ UNCHANGED outboxFaults
       \/ SpendOutboxFault /\ Goes(p, "fail", j) /\ UNCHANGED queue
  /\ UNCHANGED <<outbox, recorded, aged, batch, delivered>>

\* The UPDATEs name the row by its id and ask neither for its status nor for
\* who has claimed it.
SetRow(p, j, status) ==
  /\ outbox' = [outbox EXCEPT ![j] = status]
  /\ aged' = aged \ {j}
  /\ batch' = [batch EXCEPT ![p] = @ \ {j}]
  /\ pub' = [pub EXCEPT ![p] = polling]

Mark(p) ==
  /\ pub[p].at = "mark"
  /\ \/ SetRow(p, pub[p].job, "published") /\ UNCHANGED outboxFaults
     \/ SpendOutboxFault /\ Goes(p, "fail", pub[p].job) /\ UNCHANGED <<outbox, aged, batch>>
  /\ UNCHANGED <<recorded, queue, delivered>>

\* The poll is over, with the rest of its batch.
Leave(p) == batch' = [batch EXCEPT ![p] = {}] /\ pub' = [pub EXCEPT ![p] = polling]

\* When this UPDATE fails too it throws.
MarkFailed(p) ==
  /\ pub[p].at = "fail"
  /\ \/ SetRow(p, pub[p].job, "pending") /\ UNCHANGED outboxFaults
     \/ SpendOutboxFault /\ Leave(p) /\ UNCHANGED <<outbox, aged>>
  /\ UNCHANGED <<recorded, queue, delivered>>

PublisherStep(p) == ClaimBatch(p) \/ Publish(p) \/ Mark(p) \/ MarkFailed(p)

Deliver(j) ==
  /\ queue[j] = "waiting"
  /\ queue' = [queue EXCEPT ![j] = "done"]
  /\ delivered' = delivered \cup {j}
  /\ UNCHANGED <<outbox, recorded, aged, batch, pub, outboxFaults>>

\* removeOnComplete: 500
Forget(j) ==
  /\ queue[j] = "done"
  /\ queue' = [queue EXCEPT ![j] = "unknown"]
  /\ UNCHANGED <<outbox, recorded, aged, batch, pub, delivered, outboxFaults>>

\* A minute passes; while somebody is in the middle of a batch only as a fault.
MinutePasses ==
  LET stuck == {j \in OutboxJob : outbox[j] = "publishing"}
  IN /\ aged # stuck
     /\ IF \E p \in Publisher : Busy(p) THEN SpendOutboxFault ELSE UNCHANGED outboxFaults
     /\ aged' = stuck
     /\ UNCHANGED <<outbox, recorded, batch, pub, queue, delivered>>

PublisherCrash(p) ==
  /\ Busy(p) /\ SpendOutboxFault
  /\ Leave(p)
  /\ UNCHANGED <<outbox, recorded, aged, queue, delivered>>

OutboxNext ==
  \/ \E j \in OutboxJob : Record(j) \/ Deliver(j) \/ Forget(j)
  \/ \E p \in Publisher : PublisherStep(p) \/ PublisherCrash(p)
  \/ MinutePasses

\* Every process polls on a timer, the queue delivers, and time passes.
OutboxFairness ==
  /\ \A p \in Publisher : WF_outboxVars(PublisherStep(p))
  /\ \A j \in OutboxJob : WF_outboxVars(Deliver(j))
  /\ WF_outboxVars(MinutePasses)

OutboxSpec == OutboxInit /\ [][OutboxNext]_outboxVars /\ OutboxFairness

---------------------------------------------------------------------------
(* Properties *)

\* Job j is where a worker will find it, or a worker has had it.
Handed(j) == queue[j] = "waiting" \/ j \in delivered

\* A row says published only when its job has been handed to the queue: no
\* failure of a call and no publisher that deals with a row another has claimed
\* again takes a job for published that no worker will see
\* (publishPendingOutboxWithDatabase, outboxStore.ts).
PublishedIsHanded == \A j \in OutboxJob : outbox[j] = "published" => Handed(j)

\* A recorded job reaches a worker, whatever poller dies with it claimed and
\* whatever call fails on the way (claim and publishPendingOutboxWithDatabase,
\* outboxStore.ts).
RecordedJobIsDelivered == \A j \in OutboxJob : outbox[j] = "pending" ~> j \in delivered
=============================================================================
