------------------------------ MODULE Approvals ------------------------------
(***************************************************************************)
(* Single-operation approvals: a tool call that asks, the users who decide *)
(* it, the turn that is aborted, the session that is deleted and the agent *)
(* that stops, with the audit events each of them has to write first.      *)
(*                                                                         *)
(* Audit events of all calls go through the write queue of their session,  *)
(* so they are recorded in the order they were asked for; a write may      *)
(* fail.                                                                   *)
(***************************************************************************)
EXTENDS Integers, Sequences, SequencesExt

CONSTANTS
    Calls,      \* tool calls that ask for an approval
    Sessions,
    SessionOf,  \* the session of a call
    MaxFailures \* bound: audit writes that fail

ApprovalsAssumption ==
    IsFiniteSet(Calls) /\ SessionOf \in [Calls -> Sessions] /\ MaxFailures \in Nat

VARIABLES
    call,       \* where each request() stands
    aborted,    \* the calls whose turn was aborted
    decision,   \* decisions: the answer that was taken first
    audits,     \* auditWrites, in the order they will be recorded
    recorded,   \* the audit events in the transcripts
    closed,     \* the whole service, or sessions of it
    forgetting, \* forgetSession() and stop(): the writes each still waits for
    failures    \* how many writes have failed (bound)

vars == <<call, aborted, decision, audits, recorded, closed, forgetting, failures>>

-----------------------------------------------------------------------------
Runtime == "runtime"    \* the whole service, as something to be closed
Owners == Sessions \cup {Runtime}

Open(c) == closed \cap {SessionOf[c], Runtime} = {}

\* "asking" writes its first event; "cancelled" waits for its last one.
States == {"none", "asking", "pending", "cancelled", "granted", "refused"}
Unsettled == {"asking", "pending", "cancelled"}

Event(c, kind) == <<c, kind>>

NotForgetting == [waiting |-> FALSE, writes |-> {}, done |-> FALSE]

Init ==
    /\ call = [c \in Calls |-> "none"]
    /\ aborted = {}
    /\ decision = [c \in Calls |-> "none"]
    /\ audits = <<>> /\ recorded = {}
    /\ closed = {}
    /\ forgetting = [o \in Owners |-> NotForgetting]
    /\ failures = 0

-----------------------------------------------------------------------------
\* request(): refused at once, or after the event of the request was recorded.
Request(c) ==
    /\ call[c] = "none"
    /\ IF c \in aborted \/ ~Open(c)
       THEN call' = [call EXCEPT ![c] = "refused"] /\ UNCHANGED audits
       ELSE /\ call' = [call EXCEPT ![c] = "asking"]
            /\ audits' = Append(audits, Event(c, "requested"))
    /\ UNCHANGED <<aborted, decision, recorded, closed, forgetting, failures>>

\* decide(): the first answer counts, and is repeated to who gives it again.
Decide(c, answer) ==
    /\ call[c] = "pending" /\ c \notin aborted
    /\ decision[c] = "none"
    /\ decision' = [decision EXCEPT ![c] = answer]
    /\ audits' = Append(audits, Event(c, answer))
    /\ UNCHANGED <<call, aborted, recorded, closed, forgetting, failures>>

\* cancel(): not pending from now on, and rejected once that is recorded.
Cancelled(cs) == [c \in Calls |-> IF c \in cs THEN "cancelled" ELSE call[c]]
Cancellations(cs) == SetToSeq({Event(c, "cancelled") : c \in cs})

AbortTurn(c) ==
    /\ c \notin aborted
    /\ aborted' = aborted \cup {c}
    /\ LET cs == {c} \cap {d \in Calls : call[d] = "pending"}
       IN  /\ call' = Cancelled(cs)
           /\ audits' = audits \o Cancellations(cs)
    /\ UNCHANGED <<decision, recorded, closed, forgetting, failures>>

\* What becomes of a call when one of its events is written, or cannot be.
AfterRequested(c, ok) ==
    IF ok /\ c \notin aborted /\ Open(c) THEN "pending" ELSE "refused"

\* Fault: nobody looks again after the decision was recorded.
AfterDecisionAtOnce(c, answer, ok) ==
    IF ok THEN IF answer = "allow" THEN "granted" ELSE "refused" ELSE call[c]

AfterDecision(c, answer, ok) ==
    IF ok /\ call[c] = "pending" /\ c \notin aborted
    THEN IF answer = "allow" THEN "granted" ELSE "refused"
    ELSE IF call[c] \in Unsettled THEN "refused" ELSE call[c]

AfterCancelled(c) == IF call[c] = "cancelled" THEN "refused" ELSE call[c]

After(e, ok) ==
    CASE e[2] = "requested" -> AfterRequested(e[1], ok)
      [] e[2] = "cancelled" -> AfterCancelled(e[1])
      [] OTHER -> AfterDecision(e[1], e[2], ok)

\* The next write of a session is done: those who wait for it are told.  When one
\* fails, who waits for all of them fails at once.
WriteAudit(s) ==
    \E n \in DOMAIN audits :
      /\ SessionOf[audits[n][1]] = s
      /\ \A m \in 1..(n - 1) : SessionOf[audits[m][1]] # s
      /\ audits' = RemoveAt(audits, n)
      /\ \E ok \in BOOLEAN :
           /\ ok \/ failures < MaxFailures
           /\ failures' = IF ok THEN failures ELSE failures + 1
           /\ call' = [call EXCEPT ![audits[n][1]] = After(audits[n], ok)]
           /\ recorded' = IF ok THEN recorded \cup {audits[n]} ELSE recorded
           /\ forgetting' = [o \in Owners |->
                LET f == forgetting[o]
                IN  IF ~(f.waiting /\ audits[n] \in f.writes) THEN f
                    ELSE IF ok THEN [f EXCEPT !.writes = @ \ {audits[n]}]
                    ELSE NotForgetting]
      /\ UNCHANGED <<aborted, decision, closed>>

\* forgetSession() and stop(): closed first, then everything pending is cancelled,
\* then all the writes there are are awaited.
Close(o) ==
    /\ ~forgetting[o].waiting /\ ~forgetting[o].done
    /\ closed' = closed \cup {o}
    /\ LET cs == {c \in Calls : call[c] = "pending" /\ o \in {SessionOf[c], Runtime}}
       IN  /\ call' = Cancelled(cs)
           /\ audits' = audits \o Cancellations(cs)
    /\ decision' = [c \in Calls |-> IF o = SessionOf[c] THEN "none" ELSE decision[c]]
    /\ forgetting' = [forgetting EXCEPT ![o] =
                        [waiting |-> TRUE, writes |-> ToSet(audits'), done |-> FALSE]]
    /\ UNCHANGED <<aborted, recorded, failures>>

CloseEnds(o) ==
    /\ forgetting[o].waiting /\ forgetting[o].writes = {}
    /\ forgetting' = [forgetting EXCEPT ![o] =
                        [waiting |-> FALSE, writes |-> {}, done |-> TRUE]]
    /\ decision' = IF o = Runtime THEN [c \in Calls |-> "none"] ELSE decision
    /\ UNCHANGED <<call, aborted, audits, recorded, closed, failures>>

Next ==
    \/ \E c \in Calls : Request(c) \/ AbortTurn(c)
    \/ \E c \in Calls, answer \in {"allow", "deny"} : Decide(c, answer)
    \/ \E s \in Sessions : WriteAudit(s)
    \/ \E o \in Owners : Close(o) \/ CloseEnds(o)

Spec == Init /\ [][Next]_vars

-----------------------------------------------------------------------------
TypeOK ==
    /\ call \in [Calls -> States]
    /\ aborted \subseteq Calls
    /\ decision \in [Calls -> {"none", "allow", "deny"}]
    /\ \A n \in DOMAIN audits :
         audits[n] \in Calls \X {"requested", "allow", "deny", "cancelled"}
    /\ recorded \subseteq Calls \X {"requested", "allow", "deny", "cancelled"}
    /\ closed \subseteq Owners
    /\ failures \in 0..MaxFailures

\* Every request is settled by what is still to be written or by somebody who may
\* decide or cancel it, and when a session is forgotten or the service stopped
\* without an error, none of its requests is left (forgetSession, stop).
RequestsSettle ==
    /\ \A c \in Calls : call[c] = "asking" => Contains(audits, Event(c, "requested"))
    /\ \A c \in Calls : call[c] = "cancelled" =>
         \E n \in DOMAIN audits : audits[n][1] = c
    /\ \A c \in Calls : forgetting[SessionOf[c]].done \/ forgetting[Runtime].done =>
         call[c] \notin Unsettled

\* What is granted was asked for and allowed on the record, by the only decision on
\* it, in a session that is open and a turn that goes on at that moment: a decision
\* whose record is being written gives nothing to a call cancelled meanwhile.
GrantsAreLive ==
    \A c \in Calls : call'[c] = "granted" /\ call[c] # "granted" =>
      /\ Event(c, "requested") \in recorded /\ Event(c, "allow") \in recorded'
      /\ Event(c, "deny") \notin recorded' /\ Event(c, "cancelled") \notin recorded'
      /\ c \notin aborted /\ Open(c)

=============================================================================
