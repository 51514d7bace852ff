--------------------------- MODULE MCRunExecution ---------------------------
(***************************************************************************)
(* Instances of RunExecution for TLC.  There are as many attempts as the   *)
(* bounds on failures and retries allow leases to be acquired.             *)
(***************************************************************************)
EXTENDS RunExecution, TLC

CONSTANTS w1, w2, p1, a1, a2, a3, a4, a5

TwoWorkers  == {w1, w2}
OneWorker   == {w1}
OneRecoverer == {p1}
Attempts    == {a1, a2, a3, a4, a5}

\* The workers run the same code, and no property names one.
WorkerSymmetry == Permutations(TwoWorkers)
=============================================================================
