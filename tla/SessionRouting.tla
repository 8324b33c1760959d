---------------------------- MODULE SessionRouting ----------------------------
(***************************************************************************)
(* A message of a channel on its way to the session its key is bound to,   *)
(* the control commands, and the deletion of a session from the desktop,   *)
(* which removes the same bindings and rows.  Sessions are numbered as     *)
(* their ids are made.  The scheduler is what the router sees of it: the   *)
(* work of a session and the fences of deletions.                          *)
(*                                                                         *)
(* Left out: workspaces, sources and contents of a message, response       *)
(* routes (never read here), the update fence, and the texts of feedback.  *)
(***************************************************************************)
EXTENDS Naturals, FiniteSets

CONSTANTS
    Messages,     \* messages a channel delivers
    KeyOf,        \* the session key of each
    KindsOf,      \* what each may be: a "text", "stop", "steer" or "clear"
    Deletions,    \* deletions a user asks for
    MaxSessions,  \* bound: sessions
    MaxFailures   \* bound: calls of the agent that fail

Keys == {KeyOf[m] : m \in Messages}
Sessions == 1..MaxSessions
None == 0

RoutingAssumption ==
    /\ KindsOf \in [Messages -> SUBSET {"text", "stop", "steer", "clear"}]
    /\ DOMAIN KeyOf = Messages
    /\ MaxSessions \in Nat \ {0} /\ MaxFailures \in Nat

VARIABLES
    bindings,     \* sessions.json
    rows,         \* gateway_sessions, agent_sessions
    made,         \* ids made so far
    switches,     \* SessionRuntimeState: sessions that steer, sessions that are suspended
    work,         \* the scheduler: where a message is, once it was taken
    msg,          \* the handler of each message
    del,          \* each sessions.delete
    failures

vars == <<bindings, rows, made, switches, work, msg, del, failures>>

-----------------------------------------------------------------------------
Sent(kind) == [kind |-> kind, at |-> "sent", session |-> None, row |-> FALSE, late |-> {}]
NoDeletion == [at |-> "new", session |-> None, keys |-> {}, row |-> FALSE, removed |-> {}]

Init ==
    /\ bindings = [k \in Keys |-> 1]
    /\ rows = [gateway |-> {1}, agent |-> {1}] /\ made = 1
    /\ switches \in [steering : {{}, {1}}, suspended : {{}}]
    /\ work = [m \in Messages |-> "none"]
    /\ \E kinds \in [Messages -> UNION {KindsOf[m] : m \in Messages}] :
          /\ \A m \in Messages : kinds[m] \in KindsOf[m]
          /\ msg = [m \in Messages |-> Sent(kinds[m])]
    /\ del = [d \in Deletions |-> NoDeletion]
    /\ failures = 0

\* The fences of beginSessionDeletion(), up until the deletion has ended.
Deleting == {d \in Deletions : del[d].at \in {"before", "agent", "answered", "lost"}}
FencedSessions == {del[d].session : d \in Deleting}
FencedKeys == UNION {del[d].keys : d \in Deleting}

\* hasInflightWork(), activeRun().
InSession(s, where) == \E m \in Messages : msg[m].session = s /\ work[m] \in where
Busy(s) == InSession(s, {"queued", "running"})
Active(s) == InSession(s, {"running"})

Deleted == {del[d].session : d \in {x \in Deletions : del[x].at = "deleted"}}

Goes(m, at) == msg' = [msg EXCEPT ![m].at = at]
Fail == failures < MaxFailures /\ failures' = failures + 1

-----------------------------------------------------------------------------
(* routeContext() with a text. *)

\* The fences are looked at once, and the binding with them; a key without a binding gets
\* a new session, whose row in the gateway is written at once.
ReceiveText(m) ==
    /\ msg[m].at = "sent" /\ msg[m].kind = "text"
    /\ LET k == KeyOf[m]
           s == bindings[k]
       IN \/ /\ k \in FencedKeys \/ s \in FencedSessions
             /\ Goes(m, "refused")
             /\ UNCHANGED <<bindings, rows, made>>
          \/ /\ k \notin FencedKeys /\ s # None /\ s \notin FencedSessions
             /\ msg' = [msg EXCEPT ![m] = [@ EXCEPT !.at = "load", !.session = s,
                                                    !.late = Deleted]]
             /\ UNCHANGED <<bindings, rows, made>>
          \/ /\ k \notin FencedKeys /\ s = None /\ made < MaxSessions
             /\ made' = made + 1 /\ bindings' = [bindings EXCEPT ![k] = made']
             /\ rows' = [rows EXCEPT !.gateway = @ \cup {made'}]
             /\ msg' = [msg EXCEPT ![m] = [@ EXCEPT !.at = "ensure", !.session = made',
                                                    !.late = Deleted]]
    /\ UNCHANGED <<switches, work, del, failures>>

\* The answer to the first getSession(): ensureSession() writes the row of the gateway.
Loaded(m) ==
    /\ msg[m].at = "load"
    /\ rows' = [rows EXCEPT !.gateway = @ \cup {msg[m].session}]
    /\ Goes(m, "ensure")
    /\ UNCHANGED <<bindings, made, switches, work, del, failures>>

\* The agent writes its row, and the session is read again: the gateway's row at once.
Ensured(m) ==
    /\ msg[m].at = "ensure"
    /\ rows' = [rows EXCEPT !.agent = @ \cup {msg[m].session}]
    /\ msg' = [msg EXCEPT ![m].at = "check", ![m].row = msg[m].session \in rows.gateway]
    /\ UNCHANGED <<bindings, made, switches, work, del, failures>>

\* A call of the agent fails: the message is refused with its error.
AgentFails(m) ==
    /\ msg[m].at \in {"load", "ensure", "check", "lookup", "ensureNext", "steer", "stop"}
    /\ Fail /\ Goes(m, "refused")
    /\ UNCHANGED <<bindings, rows, made, switches, work, del>>

\* enqueue().
Enqueue(m) ==
    IF msg[m].session \in FencedSessions
    THEN Goes(m, "refused") /\ UNCHANGED work
    ELSE Goes(m, "routed") /\ work' = [work EXCEPT ![m] = "queued"]

\* A session the agent does not have is answered by the row of the gateway.
Found(m) == msg[m].row \/ msg[m].session \in rows.agent

\* The session is read, autonomy resumed, and the message steers, or is queued.
Admit(m) ==
    /\ msg[m].at = "check"
    /\ IF ~Found(m) THEN Goes(m, "refused") /\ UNCHANGED <<switches, work>>
       ELSE /\ switches' = [switches EXCEPT !.suspended = @ \ {msg[m].session}]
            /\ IF msg[m].session \in switches.steering /\ Active(msg[m].session)
               THEN Goes(m, "steer") /\ UNCHANGED work
               ELSE Enqueue(m)
    /\ UNCHANGED <<bindings, rows, made, del, failures>>

\* steer_turn: taken by a run, or queued when the run is unavailable.
Steered(m) ==
    /\ msg[m].at = "steer"
    /\ \/ Active(msg[m].session) /\ Goes(m, "routed")
          /\ work' = [work EXCEPT ![m] = "steered"]
       \/ Enqueue(m)
    /\ UNCHANGED <<bindings, rows, made, switches, del, failures>>

-----------------------------------------------------------------------------
(* routeContext() with a command: no fence is looked at. *)

ReceiveCommand(m) ==
    /\ msg[m].at = "sent" /\ msg[m].kind # "text"
    /\ LET s == bindings[KeyOf[m]]
       IN /\ s # None
          /\ msg' = [msg EXCEPT ![m] = [@ EXCEPT !.at = "lookup", !.session = s,
                                                 !.late = Deleted, !.row = s \in rows.gateway]]
    /\ UNCHANGED <<bindings, rows, made, switches, work, del, failures>>

\* The session was looked up, or there is no binding; a binding whose session is in
\* neither store is no session.
Commands(m, kind) ==
    /\ msg[m].kind = kind
    /\ msg[m].at = "sent" => bindings[KeyOf[m]] = None
    /\ msg[m].at \in {"sent", "lookup"}

LookedUp(m) == IF msg[m].at = "lookup" /\ Found(m) THEN msg[m].session ELSE None

Stop(m) ==
    /\ Commands(m, "stop")
    /\ LET s == LookedUp(m)
           mine(where) == {o \in Messages : msg[o].session = s /\ work[o] \in where}
       IN IF s = None THEN Goes(m, "routed") /\ UNCHANGED work
          ELSE /\ work' = [o \in Messages |-> IF o \in mine({"queued"}) THEN "cleared"
                                              ELSE work[o]]
               /\ Goes(m, "stop")
    /\ UNCHANGED <<bindings, rows, made, switches, del, failures>>

\* The stop was acknowledged, or there was nothing to stop.
Stopped(m) ==
    /\ msg[m].at = "stop"
    /\ switches' = [switches EXCEPT !.suspended = @ \cup {msg[m].session}]
    /\ Goes(m, "routed")
    /\ UNCHANGED <<bindings, rows, made, work, del, failures>>

ToggleSteering(m) ==
    /\ Commands(m, "steer")
    /\ LET s == LookedUp(m)
       IN switches' = IF s = None THEN switches
                      ELSE [switches EXCEPT !.steering =
                               IF s \in @ THEN @ \ {s} ELSE @ \cup {s}]
    /\ Goes(m, "routed")
    /\ UNCHANGED <<bindings, rows, made, work, del, failures>>

\* Fault: the binding is replaced under work that is queued or runs.
ClearAlways(m) ==
    /\ Commands(m, "clear") /\ made < MaxSessions
    /\ made' = made + 1 /\ bindings' = [bindings EXCEPT ![KeyOf[m]] = made']
    /\ rows' = [rows EXCEPT !.gateway = @ \cup {made'}]
    /\ msg' = [msg EXCEPT ![m].at = "ensureNext", ![m].session = made']
    /\ UNCHANGED <<switches, work, del, failures>>

\* rotate(): the key is bound to a new session, unless the old one has work.
Clear(m) ==
    /\ Commands(m, "clear")
    /\ LET s == LookedUp(m)
       IN IF s # None /\ Busy(s)
          THEN Goes(m, "routed") /\ UNCHANGED <<bindings, rows, made, switches>>
          ELSE /\ made < MaxSessions /\ made' = made + 1
               /\ switches' = [switches EXCEPT !.suspended = @ \ {s}]
               /\ bindings' = [bindings EXCEPT ![KeyOf[m]] = made']
               /\ rows' = [rows EXCEPT !.gateway = @ \cup {made'}]
               /\ msg' = [msg EXCEPT ![m].at = "ensureNext", ![m].session = made']
    /\ UNCHANGED <<work, del, failures>>

Cleared(m) ==
    /\ msg[m].at = "ensureNext"
    /\ rows' = [rows EXCEPT !.agent = @ \cup {msg[m].session}]
    /\ Goes(m, "routed")
    /\ UNCHANGED <<bindings, made, switches, work, del, failures>>

-----------------------------------------------------------------------------
(* The scheduler: one run of a session at a time. *)

RunStarts(m) ==
    /\ work[m] = "queued" /\ ~Active(msg[m].session)
    /\ work' = [work EXCEPT ![m] = "running"]
    /\ UNCHANGED <<bindings, rows, made, switches, msg, del, failures>>

RunEnds(m) ==
    /\ work[m] = "running"
    /\ work' = [work EXCEPT ![m] = "done"]
    /\ UNCHANGED <<bindings, rows, made, switches, msg, del, failures>>

-----------------------------------------------------------------------------
(* sessions.delete. *)

BeginDeletion(d) ==
    /\ del[d].at = "new"
    /\ \E s \in rows.agent :
          LET keys == {k \in Keys : bindings[k] = s}
          IN /\ s \notin FencedSessions /\ ~Busy(s) /\ keys \cap FencedKeys = {}
             /\ del' = [del EXCEPT ![d] = [@ EXCEPT !.at = "before", !.session = s,
                                                    !.keys = keys]]
    /\ UNCHANGED <<bindings, rows, made, switches, work, msg, failures>>

\* The terminals of the session are closed; its row and its bindings are taken away.
Detach(d) ==
    /\ del[d].at = "before"
    /\ LET s == del[d].session
           bound == {k \in Keys : bindings[k] = s}
       IN /\ del' = [del EXCEPT ![d] = [@ EXCEPT !.at = "agent", !.removed = bound,
                                                 !.row = s \in rows.gateway]]
          /\ rows' = [rows EXCEPT !.gateway = @ \ {s}]
          /\ bindings' = [k \in Keys |-> IF k \in bound THEN None ELSE bindings[k]]
    /\ UNCHANGED <<made, switches, work, msg, failures>>

DetachFails(d) ==
    /\ del[d].at = "before" /\ Fail
    /\ del' = [del EXCEPT ![d].at = "failed"]
    /\ UNCHANGED <<bindings, rows, made, switches, work, msg>>

\* The agent deletes the session, knows none, or fails; its answer may be lost.
AgentDeletes(d) ==
    /\ del[d].at = "agent"
    /\ \/ /\ rows' = [rows EXCEPT !.agent = @ \ {del[d].session}]
          /\ \/ del' = [del EXCEPT ![d].at = IF del[d].session \in rows.agent
                                             THEN "answered" ELSE "lost"]
                /\ UNCHANGED failures
             \/ Fail /\ del' = [del EXCEPT ![d].at = "lost"]
       \/ Fail /\ del' = [del EXCEPT ![d].at = "lost"] /\ UNCHANGED rows
    /\ UNCHANGED <<bindings, made, switches, work, msg>>

DeletionEnds(d) ==
    /\ del[d].at = "answered"
    /\ del' = [del EXCEPT ![d].at = "deleted"]
    /\ switches' = [steering |-> switches.steering \ {del[d].session},
                    suspended |-> switches.suspended \ {del[d].session}]
    /\ UNCHANGED <<bindings, rows, made, work, msg, failures>>

\* restoreSession(), restore(): what was taken away is put back.
PutBack(d) ==
    /\ del[d].at = "lost"
    /\ del' = [del EXCEPT ![d].at = "failed"]
    /\ rows' = IF del[d].row THEN [rows EXCEPT !.gateway = @ \cup {del[d].session}] ELSE rows
    /\ bindings' = [k \in Keys |-> IF k \in del[d].removed THEN del[d].session
                                   ELSE bindings[k]]
    /\ UNCHANGED <<made, switches, work, msg, failures>>

-----------------------------------------------------------------------------
TextStep(m) ==
    ReceiveText(m) \/ Loaded(m) \/ Ensured(m) \/ Admit(m) \/ Steered(m)

CommandStep(m) ==
    ReceiveCommand(m) \/ Stop(m) \/ Stopped(m) \/ ToggleSteering(m) \/ Clear(m) \/ Cleared(m)

DeletionStep(d) ==
    \/ BeginDeletion(d) \/ Detach(d) \/ DetachFails(d) \/ AgentDeletes(d)
    \/ DeletionEnds(d) \/ PutBack(d)

Next ==
    \/ \E m \in Messages :
          TextStep(m) \/ CommandStep(m) \/ AgentFails(m) \/ RunStarts(m) \/ RunEnds(m)
    \/ \E d \in Deletions : DeletionStep(d)

Spec == Init /\ [][Next]_vars

-----------------------------------------------------------------------------
TypeOK ==
    /\ bindings \in [Keys -> Sessions \cup {None}]
    /\ rows \in [gateway : SUBSET Sessions, agent : SUBSET Sessions]
    /\ made \in Sessions /\ failures \in 0..MaxFailures
    /\ switches \in [steering : SUBSET Sessions, suspended : SUBSET Sessions]

\* A binding leads to a session of the gateway's store, and to one that was not deleted.
BindingsLead ==
    \A k \in Keys : bindings[k] # None =>
        bindings[k] \in rows.gateway /\ bindings[k] \notin Deleted

\* A deleted session comes back only by a text that had read the binding before it was
\* deleted, and no text that came later is queued or steers there.
DeletedStaysAway ==
    \A s \in Deleted :
        /\ s \in rows.gateway \cup rows.agent =>
              \E m \in Messages : msg[m].kind = "text" /\ msg[m].session = s
        /\ \A m \in Messages : msg[m].session = s => s \notin msg[m].late

\* A deletion that failed leaves no key unbound.
FailuresPutBack ==
    \A d \in Deletions : del[d].at = "failed" => \A k \in del[d].removed :
        bindings[k] # None \/ \E o \in Deletions \ {d} : k \in del[o].removed

RoutingInv == TypeOK /\ BindingsLead /\ DeletedStaysAway /\ FailuresPutBack

\* No key is taken from a session that has work, which a stop of its chat would no longer
\* reach: not by a deletion, nor by one that is taken back, nor by a clear, but for one that
\* looked at the session before.
KeysLeaveIdleSessions ==
    \A k \in Keys :
        bindings[k] # None /\ bindings'[k] # bindings[k] /\ Busy(bindings[k]) =>
            \E m \in Messages :
                /\ msg[m].at = "lookup" /\ msg[m].session # bindings[k]
                /\ msg'[m].at = "ensureNext"

\* A /clear is refused while the session of its key has work, which would otherwise be
\* answered in a session the chat has left (session_routing.md:65).
ClearsSpareWork ==
    [][\A m \in Messages :
           /\ msg[m].kind = "clear" /\ bindings'[KeyOf[m]] # bindings[KeyOf[m]]
           /\ msg'[m].at = "ensureNext" /\ msg[m].at # "ensureNext"
           => ~Busy(bindings[KeyOf[m]])]_vars
=============================================================================
