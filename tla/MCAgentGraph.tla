---------------------------- MODULE MCAgentGraph ----------------------------
(***************************************************************************)
(* Instances of AgentGraph for TLC: two processes that serve HTTP, so that *)
(* an approval may or may not reach the one that is starting the graph.    *)
(***************************************************************************)
EXTENDS AgentGraph

CONSTANTS api1, api2, wk

TwoApis == {api1, api2}
NoAttempts == {}
=============================================================================
