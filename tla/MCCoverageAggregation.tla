----------------------- MODULE MCCoverageAggregation ------------------------
(***************************************************************************)
(* Instances of CoverageAggregation for TLC.  Attempts are named by the    *)
(* versions of the parent's jobs.                                          *)
(***************************************************************************)
EXTENDS CoverageAggregation

CONSTANTS w1, w2

TwoItems   == {1, 2}
OneWorker  == {w1}
TwoWorkers == {w1, w2}
Versions   == 1 .. 16
=============================================================================
