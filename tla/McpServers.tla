------------------------------- MODULE McpServers -------------------------------
(***************************************************************************)
(* The connection to one MCP server and the tools that come with it, kept  *)
(* by the McpManager of the agent.  Connecting takes as long as the other  *)
(* side pleases; the server may be switched off and on again, and the      *)
(* agent may stop, while an attempt is under way, and an attempt that was  *)
(* given up may still come about.                                          *)
(*                                                                         *)
(* A step runs from one await to the next.  A connection is named by the   *)
(* attempt that opened it.  The manager does not hear of a connection that *)
(* breaks: the calls of its tools fail, and that is all.                   *)
(***************************************************************************)
EXTENDS Integers, FiniteSets

CONSTANTS
    Calls,
    KindOf,          \* KindOf[k]: start, enable, disable, stop
    MaxAttempts      \* bound: connections tried

Kinds == {"start", "enable", "disable", "stop"}

McpServersAssumption == KindOf \in [Calls -> Kinds] /\ MaxAttempts \in Nat \ {0}

Attempts == 1..MaxAttempts

VARIABLES
    registry,        \* the manager was started and not stopped
    enabled,         \* server.enabled
    connection,      \* connections.get(name), 0 without
    tools,           \* the connection the registered tools call, 0 without
    error,           \* errors.get(name)
    connecting,      \* connecting.get(name), 0 without
    attempt,         \* attempt[a]: its promise, its signal, and what it will reject with
    link,            \* link[a]: the client and the transport of the connector
    call             \* call[k]: where it is, and what it waits for

vars == <<registry, enabled, connection, tools, error, connecting, attempt, link, call>>

Init ==
    /\ registry = FALSE
    /\ enabled \in BOOLEAN
    /\ connection = 0 /\ tools = 0 /\ connecting = 0
    /\ error = "none"
    /\ attempt = [a \in Attempts |-> [at |-> "none", aborted |-> FALSE, fault |-> "none"]]
    /\ link = [a \in Attempts |-> "none"]
    /\ call = [k \in Calls |-> [at |-> "new", of |-> 0, conn |-> 0]]

At(k, place) == call[k].at = place
To(k, place) == call' = [call EXCEPT ![k].at = place]
Settled(a) == a # 0 => attempt[a].at = "settled"

\* What promises have still to run; timers and the other side wait for it.
Quiet ==
    /\ \A a \in Attempts : attempt[a].at \notin {"resolved", "over", "rejected"}
    /\ \A k \in Calls :
          call[k].at \in {"joined", "chained", "awaiting", "draining"} => ~Settled(call[k].of)

\* connect(): a new attempt, the one there is, or what comes after one that was aborted.
Connect(k) ==
    LET wait(place, a) == call' = [call EXCEPT ![k].at = place, ![k].of = a] IN
    IF connecting # 0
    THEN /\ wait(IF attempt[connecting].aborted THEN "chained" ELSE "joined", connecting)
         /\ UNCHANGED <<attempt, link, connecting>>
    ELSE \E a \in Attempts :
            /\ attempt[a].at = "none" /\ \A b \in Attempts : b < a => attempt[b].at # "none"
            /\ attempt' = [attempt EXCEPT ![a].at = "connecting"]
            /\ link' = [link EXCEPT ![a] = "opening"]
            /\ connecting' = a
            /\ wait("joined", a)

\* controller.abort(): the race of withTimeout() is lost at once, unless it was won.
Abort ==
    attempt' = [a \in Attempts |->
        IF a # connecting THEN attempt[a]
        ELSE [attempt[a] EXCEPT !.aborted = TRUE,
                !.at = IF @ = "connecting" THEN "rejected" ELSE @,
                !.fault = IF attempt[a].at = "connecting" THEN "aborted" ELSE @]]

-----------------------------------------------------------------------------
\* The runtime starts its services once, and stops them when they were started.
Start(k) ==
    /\ KindOf[k] = "start" /\ At(k, "new")
    /\ registry' = TRUE
    /\ IF enabled THEN Connect(k)
       ELSE To(k, "done") /\ UNCHANGED <<attempt, link, connecting>>
    /\ UNCHANGED <<enabled, connection, tools, error>>

\* setEnabled() before start() or after stop() throws.
NotStarted(k) ==
    /\ KindOf[k] \in {"enable", "disable"} /\ At(k, "new") /\ ~registry
    /\ To(k, "done")
    /\ UNCHANGED <<registry, enabled, connection, tools, error, connecting, attempt, link>>

AlreadySo(k) ==
    /\ KindOf[k] \in {"enable", "disable"} /\ At(k, "new") /\ registry
    /\ enabled = (KindOf[k] = "enable") /\ (connection # 0) = enabled /\ connecting = 0
    /\ To(k, "done")
    /\ UNCHANGED <<registry, enabled, connection, tools, error, connecting, attempt, link>>

Enable(k) ==
    /\ KindOf[k] = "enable" /\ At(k, "new") /\ registry
    /\ ~(enabled /\ connection # 0 /\ connecting = 0)
    /\ enabled' = TRUE
    /\ Connect(k)
    /\ UNCHANGED <<registry, connection, tools, error>>

\* The tools are gone before the connection is closed and the attempt has ended.
Disable(k) ==
    /\ KindOf[k] = "disable" /\ At(k, "new") /\ registry
    /\ enabled \/ connection # 0 \/ connecting # 0
    /\ enabled' = FALSE
    /\ Abort
    /\ tools' = 0 /\ connection' = 0
    /\ call' = [call EXCEPT ![k] = [at |-> "closing", of |-> connecting, conn |-> connection]]
    /\ UNCHANGED <<registry, error, connecting, link>>

Stop(k) ==
    /\ KindOf[k] = "stop" /\ At(k, "new") /\ registry
    /\ registry' = FALSE
    /\ Abort
    /\ call' = [call EXCEPT ![k].at = "draining", ![k].of = connecting]
    /\ UNCHANGED <<enabled, connection, tools, error, connecting, link>>

Drain(k) ==
    /\ At(k, "draining") /\ Settled(call[k].of)
    /\ connection' = 0 /\ error' = "none"
    /\ tools' = IF connection # 0 THEN 0 ELSE tools
    /\ call' = [call EXCEPT ![k] = [at |-> "closing", of |-> 0, conn |-> connection]]
    /\ UNCHANGED <<registry, enabled, connecting, attempt, link>>

Closes(k) ==
    /\ At(k, "closing") /\ Quiet
    /\ link' = [a \in Attempts |-> IF a = call[k].conn THEN "closed" ELSE link[a]]
    /\ To(k, "awaiting")
    /\ UNCHANGED <<registry, enabled, connection, tools, error, connecting, attempt>>

Returns(k) ==
    /\ At(k, "awaiting") /\ Settled(call[k].of)
    /\ To(k, "done")
    /\ UNCHANGED <<registry, enabled, connection, tools, error, connecting, attempt, link>>

\* The caller of connect() notes what went wrong, if it is still wanted.
Joined(k) ==
    /\ At(k, "joined") /\ Settled(call[k].of)
    /\ error' = IF attempt[call[k].of].fault # "none" /\ enabled /\ registry
                THEN attempt[call[k].of].fault ELSE error
    /\ To(k, "done")
    /\ UNCHANGED <<registry, enabled, connection, tools, connecting, attempt, link>>

Chained(k) ==
    /\ At(k, "chained") /\ Settled(call[k].of)
    /\ IF enabled /\ registry THEN Connect(k)
       ELSE To(k, "done") /\ UNCHANGED <<attempt, link, connecting>>
    /\ UNCHANGED <<registry, enabled, connection, tools, error>>

-----------------------------------------------------------------------------
\* Fault: what comes after the race was lost is kept open.
OpensKept(a) ==
    /\ link[a] = "opening" /\ Quiet
    /\ link' = [link EXCEPT ![a] = "open"]
    /\ attempt' = IF attempt[a].at # "connecting" THEN attempt
                  ELSE [attempt EXCEPT ![a].at = "resolved"]
    /\ UNCHANGED <<registry, enabled, connection, tools, error, connecting, call>>

\* The other side: it answers, in time or late, or it does not.
Opens(a) ==
    /\ link[a] = "opening" /\ Quiet
    /\ IF attempt[a].at = "connecting"
       THEN /\ link' = [link EXCEPT ![a] = "open"]
            /\ attempt' = [attempt EXCEPT ![a].at = "resolved"]
       ELSE link' = [link EXCEPT ![a] = "late"] /\ UNCHANGED attempt
    /\ UNCHANGED <<registry, enabled, connection, tools, error, connecting, call>>

\* signal.aborted, in what withTimeout() has left behind.
LateClose(a) ==
    /\ link[a] = "late" /\ Quiet
    /\ link' = [link EXCEPT ![a] = "closed"]
    /\ UNCHANGED <<registry, enabled, connection, tools, error, connecting, attempt, call>>

Refuses(a) ==
    /\ link[a] = "opening" /\ Quiet
    /\ link' = [link EXCEPT ![a] = "closed"]
    /\ attempt' = IF attempt[a].at # "connecting" THEN attempt
                  ELSE [attempt EXCEPT ![a].at = "rejected", ![a].fault = "failed"]
    /\ UNCHANGED <<registry, enabled, connection, tools, error, connecting, call>>

TimesOut(a) ==
    /\ attempt[a].at = "connecting" /\ Quiet
    /\ attempt' = [attempt EXCEPT ![a].at = "rejected", ![a].fault = "failed"]
    /\ UNCHANGED <<registry, enabled, connection, tools, error, connecting, link, call>>

\* connectAndRegister() after the race, if it is still wanted.
Wanted(a) == ~attempt[a].aborted /\ enabled /\ registry

Register(a) ==
    /\ attempt[a].at = "resolved" /\ Wanted(a)
    /\ connection' = a /\ tools' = a /\ error' = "none"
    /\ attempt' = [attempt EXCEPT ![a].at = "over"]
    /\ UNCHANGED <<registry, enabled, connecting, link, call>>

Discard(a) ==
    /\ attempt[a].at = "resolved" /\ ~Wanted(a)
    /\ attempt' = [attempt EXCEPT ![a].at = "closing"]
    /\ UNCHANGED <<registry, enabled, connection, tools, error, connecting, link, call>>

Discarded(a) ==
    /\ attempt[a].at = "closing" /\ Quiet
    /\ link' = [link EXCEPT ![a] = "closed"]
    /\ attempt' = [attempt EXCEPT ![a].at = "over"]
    /\ UNCHANGED <<registry, enabled, connection, tools, error, connecting, call>>

\* finally
Settle(a) ==
    /\ attempt[a].at \in {"over", "rejected"}
    /\ attempt' = [attempt EXCEPT ![a].at = "settled"]
    /\ connecting' = IF connecting = a THEN 0 ELSE connecting
    /\ UNCHANGED <<registry, enabled, connection, tools, error, link, call>>

Next ==
    \/ \E k \in Calls :
          \/ Start(k) \/ NotStarted(k) \/ AlreadySo(k) \/ Enable(k) \/ Disable(k) \/ Stop(k)
          \/ Drain(k) \/ Closes(k) \/ Returns(k) \/ Joined(k) \/ Chained(k)
    \/ \E a \in Attempts :
          \/ Opens(a) \/ LateClose(a) \/ Refuses(a) \/ TimesOut(a)
          \/ Register(a) \/ Discard(a) \/ Discarded(a) \/ Settle(a)

Spec == Init /\ [][Next]_vars

-----------------------------------------------------------------------------
Places == {"new", "joined", "chained", "closing", "awaiting", "draining", "done"}

TypeOK ==
    /\ registry \in BOOLEAN /\ enabled \in BOOLEAN
    /\ {connection, tools, connecting} \subseteq 0..MaxAttempts
    /\ error \in {"none", "failed", "aborted"}
    /\ \A a \in Attempts :
          /\ attempt[a].at \in {"none", "connecting", "resolved", "closing", "over", "rejected",
                               "settled"}
          /\ attempt[a].aborted \in BOOLEAN /\ attempt[a].fault \in {"none", "failed", "aborted"}
          /\ link[a] \in {"none", "opening", "open", "late", "closed"}
    /\ \A k \in Calls : call[k].at \in Places /\ {call[k].of, call[k].conn} \subseteq 0..MaxAttempts

\* The tools the model can see call a connection that is open and is the one on record, and
\* there are none of a server that is switched off; a stop takes them away last.
ToolsAreLive ==
    /\ tools = connection
    /\ tools # 0 => link[tools] = "open" /\ enabled
    /\ tools # 0 => registry \/ \E k \in Calls : At(k, "draining")

\* A connection that is open is on record, or somebody is about to look at it or to close
\* it: none is left behind, however late it came.
NothingIsLeftOpen ==
    \A a \in Attempts : link[a] = "open" =>
        \/ a = connection
        \/ attempt[a].at \in {"resolved", "closing"}
        \/ \E k \in Calls : At(k, "closing") /\ call[k].conn = a

\* Two attempts are not made at once, but one may follow another that was given up.
OneAttempt ==
    \A a, b \in Attempts :
        attempt[a].at \in {"connecting", "resolved"} /\ ~attempt[a].aborted
        /\ attempt[b].at \in {"connecting", "resolved"} /\ ~attempt[b].aborted => a = b

\* When nothing is under way the last word has come true: a server that is on is connected,
\* or shows why it could not be, and not only that somebody had once switched it off.
LastWordHolds ==
    (\A k \in Calls : call[k].at \in {"new", "done"}) /\ registry =>
        /\ enabled => connection # 0 \/ error = "failed"
        /\ ~enabled => connection = 0 /\ connecting = 0

ServersInv == TypeOK /\ ToolsAreLive /\ NothingIsLeftOpen /\ OneAttempt /\ LastWordHolds
=============================================================================
