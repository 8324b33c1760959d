--------------------------- MODULE MCSessionRouting ---------------------------
(***************************************************************************)
(* Instances of SessionRouting for TLC.                                    *)
(***************************************************************************)
EXTENDS SessionRouting

CONSTANTS m1, m2, m3, k1

\* A chat whose user clears it twice and writes in between.
MCOneChat == [m \in {m1, m2, m3} |-> k1]
MCClears == [m \in {m1, m2, m3} |-> IF m = m3 THEN {"text"} ELSE {"clear"}]
=============================================================================
