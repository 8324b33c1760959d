---------------------------- MODULE MCAgentProcess ----------------------------
(***************************************************************************)
(* Instances of AgentProcess for TLC.                                      *)
(***************************************************************************)
EXTENDS AgentProcess

CONSTANTS boot, s1, s2, r1, r2, q1, f1
=============================================================================
