----------------------------- MODULE MCAgentRuns -----------------------------
(***************************************************************************)
(* Instances of AgentRuns for TLC.                                         *)
(***************************************************************************)
EXTENDS AgentRuns, TLC

CONSTANTS s1, r1, r2, m1, m2

\* Two runs of one session: the second may only start after the first.
MCOneSession == [r \in {r1, r2} |-> s1]

MessageSymmetry == Permutations({m1, m2})

=============================================================================
