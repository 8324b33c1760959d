----------------------------- MODULE TurnReports -----------------------------
(***************************************************************************)
(* What the upload of turn usage promises (native-statistics-upload.md):   *)
(* from the turn at which the reports begin, the server gets every         *)
(* recorded turn in order and without a gap, and progress is what the      *)
(* server has confirmed.                                                   *)
(***************************************************************************)
EXTENDS Integers

CONSTANT MaxTurns       \* bound: turns recorded

VARIABLES
    recorded,   \* the sequence number of the last turn recorded
    base,       \* the turn before the first to be reported, -1 before that is known
    stored,     \* the turns the server has
    cursor      \* the last turn confirmed by the server

vars == <<recorded, base, stored, cursor>>

Init ==
    /\ recorded \in 0..MaxTurns
    /\ base = -1 /\ cursor = -1
    /\ stored = {}

Record ==
    /\ recorded < MaxTurns
    /\ recorded' = recorded + 1
    /\ UNCHANGED <<base, stored, cursor>>

Begin ==
    /\ base = -1
    /\ base' \in 0..recorded
    /\ cursor' = base'
    /\ UNCHANGED <<recorded, stored>>

\* The server takes turns up to some number, all that come before included.
Report ==
    /\ base # -1
    /\ \E n \in base..recorded : stored' = stored \cup (base + 1)..n
    /\ UNCHANGED <<recorded, base, cursor>>

Confirm ==
    /\ \E n \in stored : n > cursor /\ (base + 1)..n \subseteq stored /\ cursor' = n
    /\ UNCHANGED <<recorded, base, stored>>

Next == Record \/ Begin \/ Report \/ Confirm

Spec == Init /\ [][Next]_vars
=============================================================================
