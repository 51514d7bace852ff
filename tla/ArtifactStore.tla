---------------------------- MODULE ArtifactStore ----------------------------
(***************************************************************************)
(* An artifact on its way to the object store and the ledger, and the      *)
(* reconciliation of the two: mirrorArtifactsToConfiguredStore             *)
(* (artifactObjectStore.ts), persistExecutionResult                        *)
(* (executionPersistence.ts), which the execution calls and the judge of   *)
(* the graph calls again with the artifacts of the run bundle, and         *)
(* reconcileConfiguredArtifactStore (artifactObjectReconciliation.ts).     *)
(*                                                                         *)
(* Every attempt mirrors to keys of its own.  The object store is          *)
(* external: a request does what it says or fails, and an object may be    *)
(* lost or spoiled.  Time passes in one step, far enough for both grace    *)
(* periods; while somebody is in the middle of its work only as a fault.   *)
(***************************************************************************)
EXTENDS Integers, FiniteSets

CONSTANTS
  Artifact,             \* the artifacts
  Reconciler,         \* the processes that reconcile
  MaxArtifactFaults,  \* bound: requests that fail, processes killed, objects lost
  MaxLongPauses       \* bound: times the grace period passes while work is under way

ASSUME ArtifactAssumption == MaxArtifactFaults \in Nat /\ MaxLongPauses \in Nat

VARIABLES
  partial,         \* the artifacts with a temporary object
  object,          \* object[a]: the object under the artifact's own key
  old,             \* what is older than its grace period: <<"partial" or "object", artifact>>
  ledgerState,     \* ledgerState[a]: objectStoreState of the row in artifacts_v1, "none" without a row
  mirror,          \* mirror[a]: where the worker that captured it stands
  rec,             \* rec[p]: where a reconciliation stands and what it has read
  artifactFaults,  \* what is left of the bounds
  longPauses

artifactVars == <<partial, object, old, ledgerState, mirror, rec, artifactFaults, longPauses>>

ObjectState == {"absent", "good", "spoiled"}
LedgerState == {"none", "committed", "missing"}
MirrorStep == {"captured", "uploaded", "copied", "cleanup", "mirrored", "persisted", "over"}
RecStep == {"resting", "listing", "checking", "updating", "deleting"}

NoSurvey == [at |-> "resting", known |-> {}, missing |-> {}, update |-> {}, delete |-> {}]

Thing == {"partial", "object"} \X Artifact

Survey == [at : RecStep, known : SUBSET (Artifact \X LedgerState), missing : SUBSET Artifact,
           update : SUBSET (Artifact \X LedgerState), delete : SUBSET Thing]

ArtifactTypeOK ==
  /\ partial \subseteq Artifact
  /\ object \in [Artifact -> ObjectState]
  /\ old \subseteq Thing
  /\ ledgerState \in [Artifact -> LedgerState]
  /\ mirror \in [Artifact -> MirrorStep]
  /\ rec \in [Reconciler -> Survey]
  /\ artifactFaults \in 0 .. MaxArtifactFaults /\ longPauses \in 0 .. MaxLongPauses

ArtifactInit ==
  /\ partial = {} /\ old = {}
  /\ object = [a \in Artifact |-> "absent"]
  /\ ledgerState = [a \in Artifact |-> "none"]
  /\ mirror = [a \in Artifact |-> "captured"]
  /\ rec = [p \in Reconciler |-> NoSurvey]
  /\ artifactFaults = MaxArtifactFaults /\ longPauses = MaxLongPauses

SpendArtifactFault == artifactFaults > 0 /\ artifactFaults' = artifactFaults - 1

MirrorTo(a, step) == mirror' = [mirror EXCEPT ![a] = step]

---------------------------------------------------------------------------
(* mirrorArtifactsToConfiguredStore *)

Upload(a) ==
  /\ mirror[a] = "captured"
  /\ \/ partial' = partial \cup {a} /\ MirrorTo(a, "uploaded") /\ UNCHANGED artifactFaults
     \/ SpendArtifactFault /\ MirrorTo(a, "over") /\ UNCHANGED partial
  /\ UNCHANGED <<object, old, ledgerState, rec, longPauses>>

\* The temporary object is checked and copied; if it is gone or a request
\* fails, what is left is the deletion in the finally.
Promote(a) ==
  /\ mirror[a] = "uploaded"
  /\ \/ /\ a \in partial /\ UNCHANGED artifactFaults
        /\ object' = [object EXCEPT ![a] = "good"] /\ MirrorTo(a, "copied")
     \/ a \notin partial /\ MirrorTo(a, "over") /\ UNCHANGED <<object, artifactFaults>>
     \/ SpendArtifactFault /\ MirrorTo(a, "cleanup") /\ UNCHANGED object
  /\ UNCHANGED <<partial, old, ledgerState, rec, longPauses>>

\* Only an object that was read back as it should be is reported as committed.
\* The deletion of the temporary one may fail silently.
ReadBack(a) ==
  /\ mirror[a] = "copied"
  /\ MirrorTo(a, IF object[a] = "good" THEN "mirrored" ELSE "over")
  /\ \/ partial' = partial \ {a} /\ old' = old \ {<<"partial", a>>} /\ UNCHANGED artifactFaults
     \/ SpendArtifactFault /\ UNCHANGED <<partial, old>>
  /\ UNCHANGED <<object, ledgerState, rec, longPauses>>

CleanUp(a) ==
  /\ mirror[a] = "cleanup"
  /\ MirrorTo(a, "over")
  /\ \/ partial' = partial \ {a} /\ old' = old \ {<<"partial", a>>} /\ UNCHANGED artifactFaults
     \/ SpendArtifactFault /\ UNCHANGED <<partial, old>>
  /\ UNCHANGED <<object, ledgerState, rec, longPauses>>

\* persistExecutionResult after the execution, and again after the judge: the
\* row is replaced by the artifact as the run bundle has it.
PersistArtifact(a) ==
  /\ \/ mirror[a] = "mirrored" /\ MirrorTo(a, "persisted")
     \/ mirror[a] = "persisted" /\ MirrorTo(a, "over")
  /\ ledgerState' = [ledgerState EXCEPT ![a] = "committed"]
  /\ UNCHANGED <<partial, object, old, rec, artifactFaults, longPauses>>

MirrorStepOf(a) == Upload(a) \/ Promote(a) \/ ReadBack(a) \/ CleanUp(a) \/ PersistArtifact(a)

Killed(a) ==
  /\ mirror[a] # "over" /\ SpendArtifactFault /\ MirrorTo(a, "over")
  /\ UNCHANGED <<partial, object, old, ledgerState, rec, longPauses>>

---------------------------------------------------------------------------
(* reconcileConfiguredArtifactStore with apply *)

Referenced(p) == {k[1] : k \in rec[p].known}

\* SELECT id, run_id, payload FROM artifacts_v1
ReadRows(p) ==
  /\ rec[p].at = "resting"
  /\ rec' = [rec EXCEPT ![p] = [NoSurvey EXCEPT !.at = "listing",
       !.known = {k \in Artifact \X LedgerState : k[2] # "none" /\ ledgerState[k[1]] = k[2]}]]
  /\ UNCHANGED <<partial, object, old, ledgerState, mirror, artifactFaults, longPauses>>

\* Mutant: the plan deletes whatever the rows do not name.
PlanWithoutGrace(p) ==
  {t \in Thing : IF t[1] = "partial" THEN t[2] \in partial
                 ELSE object[t[2]] # "absent" /\ t[2] \notin Referenced(p)}

\* buildArtifactObjectReconciliationPlan
PlanDeletions(p) ==
  {t \in old : IF t[1] = "partial" THEN t[2] \in partial
               ELSE object[t[2]] # "absent" /\ t[2] \notin Referenced(p)}

List(p) ==
  /\ rec[p].at = "listing"
  /\ rec' = [rec EXCEPT ![p].at = "checking", ![p].delete = PlanDeletions(p),
                        ![p].missing = {a \in Referenced(p) : object[a] = "absent"}]
  /\ UNCHANGED <<partial, object, old, ledgerState, mirror, artifactFaults, longPauses>>

\* Mutant: an object that is listed is not looked at.
CheckedByListing(p, a) == IF a \in rec[p].missing THEN "missing" ELSE "committed"

\* checkedState of what the listing and the HEAD requests found
Checked(p, a) == IF a \in rec[p].missing \/ object[a] # "good" THEN "missing" ELSE "committed"

HeadObjects(p) ==
  /\ rec[p].at = "checking"
  /\ rec' = [rec EXCEPT ![p].at = "updating",
       ![p].update = {<<k[1], Checked(p, k[1])>> : k \in {j \in rec[p].known : Checked(p, j[1]) # j[2]}}]
  /\ UNCHANGED <<partial, object, old, ledgerState, mirror, artifactFaults, longPauses>>

\* One transaction of UPDATEs that do not ask what the row says by now.
UpdateRows(p) ==
  LET update == rec[p].update
      named == {k[1] : k \in update}
  IN /\ rec[p].at = "updating"
     /\ ledgerState' = [a \in Artifact |->
          IF a \in named THEN (CHOOSE k \in update : k[1] = a)[2] ELSE ledgerState[a]]
     /\ rec' = [rec EXCEPT ![p].at = "deleting"]
     /\ UNCHANGED <<partial, object, old, mirror, artifactFaults, longPauses>>

DeletePlanned(p) ==
  /\ rec[p].at = "deleting"
  /\ IF rec[p].delete = {}
       THEN rec' = [rec EXCEPT ![p] = NoSurvey] /\ UNCHANGED <<partial, object, old>>
       ELSE \E t \in rec[p].delete :
              /\ rec' = [rec EXCEPT ![p].delete = @ \ {t}]
              /\ old' = old \ {t}
              /\ partial' = IF t[1] = "partial" THEN partial \ {t[2]} ELSE partial
              /\ object' = IF t[1] = "object" THEN [object EXCEPT ![t[2]] = "absent"] ELSE object
  /\ UNCHANGED <<ledgerState, mirror, artifactFaults, longPauses>>

ReconcileStep(p) == ReadRows(p) \/ List(p) \/ HeadObjects(p) \/ UpdateRows(p) \/ DeletePlanned(p)

\* A request or the transaction fails, or the process dies: the rest is left to
\* the next time.
ReconcileFails(p) ==
  /\ rec[p].at # "resting" /\ SpendArtifactFault
  /\ rec' = [rec EXCEPT ![p] = NoSurvey]
  /\ UNCHANGED <<partial, object, old, ledgerState, mirror, longPauses>>

---------------------------------------------------------------------------
(* The object store and time *)

LoseObject(a) ==
  /\ object[a] = "good" /\ SpendArtifactFault
  /\ \E s \in {"absent", "spoiled"} : object' = [object EXCEPT ![a] = s]
  /\ UNCHANGED <<partial, old, ledgerState, mirror, rec, longPauses>>

UnderWay ==
  \/ \E a \in Artifact : mirror[a] \notin {"captured", "persisted", "over"}
  \/ \E p \in Reconciler : rec[p].at # "resting"

GracePasses ==
  LET present == {t \in Thing : IF t[1] = "partial" THEN t[2] \in partial ELSE object[t[2]] # "absent"}
  IN /\ old # present /\ old' = present
     /\ IF UnderWay THEN longPauses > 0 /\ longPauses' = longPauses - 1 ELSE UNCHANGED longPauses
     /\ UNCHANGED <<partial, object, ledgerState, mirror, rec, artifactFaults>>

ArtifactNext ==
  \/ \E a \in Artifact : MirrorStepOf(a) \/ Killed(a) \/ LoseObject(a)
  \/ \E p \in Reconciler : ReconcileStep(p) \/ ReconcileFails(p)
  \/ GracePasses

\* The reconciliation runs on a timer.
ArtifactFairness == \A p \in Reconciler : WF_artifactVars(ReconcileStep(p))

ArtifactSpec == ArtifactInit /\ [][ArtifactNext]_artifactVars /\ ArtifactFairness

---------------------------------------------------------------------------
(* Properties *)

\* Reconciliation never takes away an object that the ledger names: an object
\* whose rows are still on their way is young, unless its worker paused for the
\* whole grace period (buildArtifactObjectReconciliationPlan: "an object that
\* might still be between the S3 commit and PostgreSQL metadata transaction is
\* retained for the configured grace period").
ReferencedObjectIsKept ==
  [][ \A a \in Artifact :
        (\E p \in Reconciler : rec[p].at = "deleting" /\ rec'[p] # rec[p])
        /\ object[a] = "good" /\ ledgerState[a] # "none" /\ longPauses = MaxLongPauses
        => object'[a] = "good" ]_artifactVars

\* An object that is lost is in the end marked missing for good, whichever
\* reconciliation died, acted on what it had read before or was overtaken by a
\* persist (UpdateRows, PersistArtifact).
LostObjectStaysMarked ==
  \A a \in Artifact :
    [](object[a] # "good" /\ ledgerState[a] # "none" => <>[](ledgerState[a] = "missing"))
=============================================================================
