------------------------- MODULE MCSessionScheduler -------------------------
(***************************************************************************)
(* Instances of SessionScheduler for TLC.                                  *)
(***************************************************************************)
EXTENDS SessionScheduler, TLC

CONSTANTS s1, s2, a1, a2, a3, b1, k1

\* One session with three jobs: queue order, stops, continuations.
MCOneSession == [j \in {a1, a2, a3} |-> s1]

\* Two jobs of one session, one of another: fences and session keys.
MCTwoSessions == [j \in {a1, a2, b1} |-> IF j = b1 THEN s2 ELSE s1]

\* Jobs of the same session are interchangeable.
PairSymmetry == Permutations({a1, a2})

=============================================================================
