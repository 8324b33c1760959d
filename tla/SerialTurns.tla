----------------------------- MODULE SerialTurns -----------------------------
(***************************************************************************)
(* What the scheduler promises its callers, without queues, fences or      *)
(* cancellation: a turn that was accepted waits, runs and ends, or is      *)
(* withdrawn while it waits; turns never go back; and at any moment at     *)
(* most one turn of a session runs.                                        *)
(***************************************************************************)
CONSTANTS Turns, Sessions, SessionOf

VARIABLE phase

Phases == {"absent", "waiting", "running", "ended"}

SerialTypeOK == phase \in [Turns -> Phases]

\* The phases one step may lead to: a turn can be accepted and started in the
\* same step, but it never ends in the step that started it.
Successors(p) ==
    CASE p = "absent"  -> {"absent", "waiting", "running"}
      [] p = "waiting" -> {"waiting", "running", "ended"}
      [] p = "running" -> {"running", "ended"}
      [] p = "ended"   -> {"ended"}

\* At most one running turn per session.
Serial(ph) ==
    \A t, u \in Turns :
       /\ SessionOf[t] = SessionOf[u]
       /\ ph[t] = "running" /\ ph[u] = "running"
       => t = u

\* A turn starts only once the run before it in its session has ended.
Advance(t) ==
    /\ phase'[t] \in Successors(phase[t])
    /\ phase[t] # "running" /\ phase'[t] = "running" =>
          \A u \in Turns : SessionOf[u] = SessionOf[t] => phase[u] # "running" \/ phase'[u] = "ended"

SerialInit == phase = [t \in Turns |-> "absent"]

SerialNext ==
    /\ phase' \in [Turns -> Phases]
    /\ \A t \in Turns : Advance(t)
    /\ Serial(phase')

SerialSpec == SerialInit /\ [][SerialNext]_phase

=============================================================================
