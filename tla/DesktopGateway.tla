---------------------------- MODULE DesktopGateway ----------------------------
(***************************************************************************)
(* The gateways the desktop application makes and gives up: start(),       *)
(* stop(), restart(), restartAgent(), the permissions that are handed to   *)
(* the agent, beginUpdate() and recoverAfterUpdate(), called by windows,   *)
(* by the cloud service, by an update and by the end of the application.   *)
(* None of them waits for another.                                         *)
(*                                                                         *)
(* A gateway is its composition with its store, its runtime and its        *)
(* automations.  How a composition starts and stops is what                *)
(* GatewayLifecycle promises; a child is "stuck" when its exit is not      *)
(* confirmed.                                                              *)
(***************************************************************************)
EXTENDS Integers

CONSTANTS
    Calls,
    KindOf,        \* KindOf[k]: what a call asks for
    MaxGateways,   \* bound: gateways made
    MaxFaults      \* bound: failures

Kinds == {"start", "restart", "agent", "grant", "update", "quit"}
DesktopGatewayAssumption ==
    /\ KindOf \in [Calls -> Kinds]
    /\ MaxGateways \in Nat /\ MaxFaults \in Nat

Gateways == 1..MaxGateways
None == 0

VARIABLES
    own,           \* the gateway of composition, runtime and store
    tools,         \* the gateway of automations
    health,        \* gatewayState
    preparing,     \* updatePreparing
    exited,        \* the application has ended, or its installer runs
    gateway,       \* the gateways made
    call,          \* call[k]: where a call stands and the gateway it works on
    made,
    crossed,       \* history: calls ran beside each other, other than about the agent
    stray,         \* history: the gateways that calls beside each other have lost
    faults

vars == <<own, tools, health, preparing, exited, gateway, call, made, crossed, stray,
          faults>>

Unmade == [life |-> "none", closing |-> "no", child |-> "none", ticking |-> FALSE,
           store |-> FALSE, trouble |-> FALSE]

Init ==
    /\ own = None /\ tools = None /\ health = "stopped"
    /\ preparing = FALSE /\ exited = FALSE
    /\ gateway = [g \in Gateways |-> Unmade]
    /\ call = [k \in Calls |-> [at |-> "idle", gateway |-> None]]
    /\ made = 0 /\ crossed = FALSE /\ stray = {} /\ faults = 0

At(k, place) == call[k].at = place /\ ~exited
GoTo(k, place) == call' = [call EXCEPT ![k].at = place]
GoWith(k, place, g) == call' = [call EXCEPT ![k] = [at |-> place, gateway |-> g]]
Over(k) == GoWith(k, "over", None)

Fault == faults < MaxFaults /\ faults' = faults + 1
NoFault == UNCHANGED faults

\* runtime.hasProcess of the gateway that is owned.
HasProcess == own # None /\ gateway[own].child # "none"
Ready(g) ==
    gateway[g].life = "up" /\ gateway[g].closing = "no" /\ gateway[g].child = "alive"

\* The changes of a gateway that other changes are combined with.
Quieted(gs) ==                  \* automations?.service.stop()
    IF tools = None THEN gs ELSE [gs EXCEPT ![tools].ticking = FALSE]
\* Fault: the store is forgotten without being stopped.
StoreLeft(gs) == gs
StoreClosed(gs) ==              \* store?.stop()
    IF own = None THEN gs ELSE [gs EXCEPT ![own].store = FALSE]
Closing(gs, g) ==               \* composition.stop(), which is joined when it was called
    [gs EXCEPT ![g].closing = IF @ = "no" THEN "begun" ELSE @]

-----------------------------------------------------------------------------
\* start(), with what its caller has done in the same stretch.
StartFrom(k, mine, its, gs) ==
    IF preparing \/ mine # None
    THEN /\ own' = mine /\ tools' = its /\ gateway' = gs
         /\ Over(k)
         /\ UNCHANGED <<health, made>>
    ELSE /\ made < MaxGateways
         /\ made' = made + 1 /\ own' = made' /\ tools' = made'
         /\ health' = "starting"
         /\ gateway' = [gs EXCEPT ![made'] = [Unmade EXCEPT !.life = "made", !.store = TRUE]]
         /\ GoWith(k, "pipe", made')

\* A start that failed gives its gateway up.
GiveUp(k) ==
    /\ health' = "error"
    /\ gateway' = Closing(gateway, call[k].gateway)
    /\ GoTo(k, "undo")
    /\ UNCHANGED <<own, tools, preparing, exited, made>>

PipeOpens(k) ==
    /\ At(k, "pipe")
    /\ LET g == call[k].gateway IN
       IF gateway[g].closing # "no"
       THEN GiveUp(k)
       ELSE /\ gateway' = [gateway EXCEPT ![g].life = "starting"]
            /\ GoTo(k, "compose")
            /\ UNCHANGED <<own, tools, health, preparing, exited, made>>
    /\ NoFault

PipeFails(k) == At(k, "pipe") /\ GiveUp(k) /\ Fault

\* The automations that are started are those of the field, whoever's they are by then.
CompositionStarts(k) ==
    /\ At(k, "compose")
    /\ LET g == call[k].gateway IN
       IF gateway[g].life \in {"up", "off"} /\ tools # None
       THEN /\ gateway' = [gateway EXCEPT ![tools].ticking = TRUE]
            /\ health' = "ready"
            /\ Over(k)
            /\ UNCHANGED <<own, tools, preparing, exited, made>>
       ELSE gateway[g].life # "starting" /\ GiveUp(k)
    /\ NoFault

Undone(k) ==
    /\ At(k, "undo") /\ gateway[call[k].gateway].closing = "done"
    /\ gateway' = Quieted(gateway)
    /\ GoTo(k, "drop")
    /\ UNCHANGED <<own, tools, health, preparing, exited, made, faults>>

\* The gateway that is owned is given up with the one that failed.
Dropped(k) ==
    /\ At(k, "drop")
    /\ gateway' = [gateway EXCEPT ![call[k].gateway].store = FALSE]
    /\ own' = None /\ tools' = None
    /\ Over(k)
    /\ UNCHANGED <<health, preparing, exited, made, faults>>

-----------------------------------------------------------------------------
\* stop() and restart()
BeginStop(k) ==
    /\ gateway' = Quieted(gateway)
    /\ GoTo(k, "quiesce")
    /\ UNCHANGED <<own, tools, health, preparing, exited, made, faults>>

Quiesced(k) ==
    /\ At(k, "quiesce")
    /\ IF own = None
       THEN gateway' = Quieted(gateway) /\ GoTo(k, "close")
       ELSE gateway' = Closing(gateway, own) /\ GoWith(k, "stop", own)
    /\ UNCHANGED <<own, tools, health, preparing, exited, made, faults>>

\* An update that failed lifts its fence and then looks for a gateway to bring back.
Fails(k) ==
    /\ CASE KindOf[k] = "update" ->
              preparing' = FALSE /\ GoWith(k, "recover", None) /\ UNCHANGED exited
         [] KindOf[k] = "quit" -> exited' = TRUE /\ Over(k) /\ UNCHANGED preparing
         [] OTHER -> Over(k) /\ UNCHANGED <<preparing, exited>>

CompositionStops(k) ==
    /\ At(k, "stop") /\ gateway[call[k].gateway].closing = "done"
    /\ IF HasProcess \/ (KindOf[k] = "update" /\ gateway[call[k].gateway].trouble)
       THEN Fails(k) /\ UNCHANGED gateway
       ELSE gateway' = Quieted(gateway) /\ GoTo(k, "close") /\ UNCHANGED <<preparing, exited>>
    /\ UNCHANGED <<own, tools, health, made, faults>>

Closed(k) ==
    /\ At(k, "close")
    /\ own' = None /\ tools' = None
    /\ gateway' = StoreClosed(gateway)
    /\ health' = "stopped"
    /\ CASE KindOf[k] = "restart" -> GoWith(k, "stopped", None) /\ UNCHANGED exited
         [] KindOf[k] = "update" -> GoWith(k, "installing", None) /\ UNCHANGED exited
         [] OTHER -> Over(k) /\ exited' = TRUE
    /\ UNCHANGED <<preparing, made, faults>>

StartAgain(k) ==
    /\ At(k, "stopped")
    /\ StartFrom(k, own, tools, gateway)
    /\ UNCHANGED <<preparing, exited, faults>>

-----------------------------------------------------------------------------
\* restartAgent(), and updateSkillPermissions() whose request may be refused.
RestartAgent(k) ==
    /\ health' = "starting"
    /\ GoTo(k, "health")
    /\ UNCHANGED <<own, tools, preparing, exited, gateway, made, faults>>

AgentFails(k) ==
    /\ health' = IF KindOf[k] = "agent" THEN "error" ELSE health
    /\ Over(k)

\* The runtime that is restarted is the one of the field after the await.
HealthStops(k) ==
    /\ At(k, "health")
    /\ IF own = None THEN AgentFails(k) ELSE GoWith(k, "down", own) /\ UNCHANGED health
    /\ UNCHANGED <<own, tools, preparing, exited, gateway, made, faults>>

Granted(k) ==
    /\ At(k, "grant") /\ Over(k)
    /\ UNCHANGED <<own, tools, health, preparing, exited, gateway, made, faults>>

Refused(k) ==
    /\ At(k, "grant")
    /\ IF own = None THEN AgentFails(k) ELSE GoWith(k, "down", own) /\ UNCHANGED health
    /\ Fault
    /\ UNCHANGED <<own, tools, preparing, exited, gateway, made>>

\* runtime.restart() is stop() and start() of the runtime, whether its gateway is closed
\* by then or not.
AgentStops(k) ==
    /\ At(k, "down")
    /\ LET g == call[k].gateway IN
       \/ /\ gateway' = [gateway EXCEPT ![g].child = "none"]
          /\ GoTo(k, "relaunch") /\ NoFault /\ UNCHANGED health
       \/ /\ gateway[g].child # "none"
          /\ gateway' = [gateway EXCEPT ![g].child = "stuck"]
          /\ AgentFails(k) /\ Fault
    /\ UNCHANGED <<own, tools, preparing, exited, made>>

AgentStarts(k) ==
    /\ At(k, "relaunch")
    /\ LET g == call[k].gateway IN
       \/ /\ gateway[g].child # "stuck"
          /\ gateway' = [gateway EXCEPT ![g].child = "alive"]
          /\ health' = IF KindOf[k] = "agent" THEN "ready" ELSE health
          /\ Over(k) /\ NoFault
       \/ /\ IF gateway[g].child = "stuck" THEN NoFault ELSE Fault
          /\ AgentFails(k) /\ UNCHANGED gateway
    /\ UNCHANGED <<own, tools, preparing, exited, made>>

-----------------------------------------------------------------------------
\* An update: its fence, its cleanup, and what it does when nothing is installed.
GiveUpdateUp(k) ==
    /\ At(k, "fenced")
    /\ preparing' = FALSE /\ Over(k)
    /\ UNCHANGED <<own, tools, health, exited, gateway, made, faults>>

CleanUp(k) == At(k, "fenced") /\ BeginStop(k)

Installs(k) ==
    /\ At(k, "installing")
    /\ exited' = TRUE /\ Over(k)
    /\ UNCHANGED <<own, tools, health, preparing, gateway, made, faults>>

InstallFails(k) ==
    /\ At(k, "installing")
    /\ Fails(k) /\ Fault
    /\ UNCHANGED <<own, tools, health, gateway, made>>

Recover(k) ==
    /\ At(k, "recover")
    /\ IF HasProcess THEN Over(k) /\ UNCHANGED gateway
       ELSE gateway' = Quieted(gateway) /\ GoWith(k, "reopen", own)
    /\ UNCHANGED <<own, tools, health, preparing, exited, made, faults>>

RecoveryFails(k) ==
    /\ At(k, "recover") /\ Over(k) /\ Fault
    /\ UNCHANGED <<own, tools, health, preparing, exited, gateway, made>>

Reopen(k) ==
    /\ At(k, "reopen")
    /\ StartFrom(k, None, None, StoreClosed(gateway))
    /\ UNCHANGED <<preparing, exited, faults>>

-----------------------------------------------------------------------------
\* Only restarts of the agent and permissions for it may run beside each other, and whatever
\* the fence of an update refuses.
OnTheAgent == {"health", "grant", "down", "relaunch"}
Fenced(k) == preparing /\ KindOf[k] \in {"start", "restart", "agent"}
Crosses(k) ==
    /\ call'[k].at # "over" /\ ~Fenced(k)
    /\ \E other \in Calls \ {k} :
          /\ call[other].at \notin {"idle", "over"}
          /\ ~({call[other].at, call'[k].at} \subseteq OnTheAgent)

\* What a call does before it first waits.
Begin(k) ==
    /\ At(k, "idle")
    /\ \/ /\ KindOf[k] = "start" \/ (KindOf[k] = "agent" /\ own = None)
          /\ StartFrom(k, own, tools, gateway)
          /\ UNCHANGED <<preparing, exited, faults>>
       \/ KindOf[k] = "restart" /\ ~preparing /\ BeginStop(k)
       \/ KindOf[k] = "quit" /\ BeginStop(k)
       \/ KindOf[k] = "agent" /\ own # None /\ ~preparing /\ RestartAgent(k)
       \/ /\ KindOf[k] = "grant" /\ own # None
          /\ GoTo(k, "grant")
          /\ UNCHANGED <<own, tools, health, preparing, exited, gateway, made, faults>>
       \/ /\ KindOf[k] = "update" /\ own # None /\ Ready(own) /\ ~preparing
          /\ preparing' = TRUE
          /\ GoTo(k, "fenced")
          /\ UNCHANGED <<own, tools, health, exited, gateway, made, faults>>
    /\ crossed' = (crossed \/ Crosses(k))

-----------------------------------------------------------------------------
\* The composition: what GatewayLifecycle does between start(), stop() and their ends.
Become(g, new) ==
    /\ gateway' = [gateway EXCEPT ![g] = new]
    /\ UNCHANGED <<own, tools, health, preparing, exited, call, made>>

Spawns(g) ==
    /\ gateway[g].life = "starting" /\ gateway[g].closing = "no" /\ gateway[g].child = "none"
    /\ Become(g, [gateway[g] EXCEPT !.child = "alive"]) /\ NoFault

ComesUp(g) ==
    /\ gateway[g].life = "starting" /\ gateway[g].closing = "no" /\ gateway[g].child = "alive"
    /\ Become(g, [gateway[g] EXCEPT !.life = "up"]) /\ NoFault

FailsToComeUp(g) ==
    /\ gateway[g].life = "starting" /\ gateway[g].closing = "no"
    /\ \E left \in IF gateway[g].child = "none" THEN {"none"} ELSE {"none", "stuck"} :
          Become(g, [gateway[g] EXCEPT !.life = "failed", !.child = left])
    /\ Fault

IsAborted(g) ==
    /\ gateway[g].life = "starting" /\ gateway[g].closing = "begun"
    /\ Become(g, [gateway[g] EXCEPT !.life = "failed"]) /\ NoFault

GoesDown(g) ==
    /\ gateway[g].closing = "begun" /\ gateway[g].life # "starting"
    /\ LET off == [gateway[g] EXCEPT !.life = IF @ = "up" THEN "off" ELSE "failed",
                                      !.closing = "done"] IN
       \/ gateway[g].child # "stuck" /\ Become(g, [off EXCEPT !.child = "none"]) /\ NoFault
       \/ gateway[g].child = "stuck" /\ Become(g, [off EXCEPT !.trouble = TRUE]) /\ NoFault
       \/ /\ \E left \in IF gateway[g].child = "none" THEN {"none"} ELSE {"none", "stuck"} :
                Become(g, [off EXCEPT !.trouble = TRUE, !.child = left])
          /\ Fault

LateExit(g) ==
    /\ gateway[g].child = "stuck"
    /\ Become(g, [gateway[g] EXCEPT !.child = "none"]) /\ NoFault

-----------------------------------------------------------------------------
\* How a gateway is lost.  The end of a stop, of a start that failed or of a recovery gives
\* up what is owned by then, be it the gateway it has stopped or another; and a recovery
\* gives up any that has no process, be it stopped or not.
LetGo(k) ==
    {g \in {own} \ {None} :
        \/ own' # g /\ g # call[k].gateway
        \/ call'[k].at = "reopen" /\ gateway[g].closing # "done"}

\* And the agent or the automations of a gateway are started again after its stop, while a
\* call is about to give it up or when it has been given up.
WorksOn(k, g) == call[k].gateway = g /\ call[k].at \notin OnTheAgent
Revived ==
    {g \in Gateways :
        /\ gateway[g].closing = "done"
        /\ g # own \/ \E k \in Calls : WorksOn(k, g)
        /\ \/ ~gateway[g].ticking /\ gateway'[g].ticking
           \/ gateway[g].child # "alive" /\ gateway'[g].child = "alive"}

\* A call goes on after an await; a composition goes on by itself.
Proceeds(k) ==
    \/ PipeOpens(k) \/ PipeFails(k) \/ CompositionStarts(k) \/ Undone(k) \/ Dropped(k)
    \/ Quiesced(k) \/ CompositionStops(k) \/ Closed(k) \/ StartAgain(k)
    \/ HealthStops(k) \/ Granted(k) \/ Refused(k) \/ AgentStops(k) \/ AgentStarts(k)
    \/ GiveUpdateUp(k) \/ CleanUp(k) \/ Installs(k) \/ InstallFails(k)
    \/ Recover(k) \/ RecoveryFails(k) \/ Reopen(k)
Advances(g) ==
    Spawns(g) \/ ComesUp(g) \/ FailsToComeUp(g) \/ IsAborted(g) \/ GoesDown(g) \/ LateExit(g)

Next ==
    \/ \E k \in Calls : Begin(k) /\ UNCHANGED stray
    \/ /\ UNCHANGED crossed
       /\ \E k \in Calls : Proceeds(k) /\ stray' = stray \cup LetGo(k) \cup Revived
    \/ /\ ~exited /\ UNCHANGED <<crossed, stray>>
       /\ \E g \in Gateways : Advances(g)

Spec == Init /\ [][Next]_vars

-----------------------------------------------------------------------------
Places == {"idle", "pipe", "compose", "undo", "drop", "quiesce", "stop", "close", "stopped",
           "health", "grant", "down", "relaunch", "fenced", "installing", "recover",
           "reopen", "over"}

TypeOK ==
    /\ {own, tools} \subseteq Gateways \cup {None}
    /\ health \in {"stopped", "starting", "ready", "error"}
    /\ {preparing, exited, crossed} \subseteq BOOLEAN
    /\ gateway \in [Gateways -> [
          life : {"none", "made", "starting", "up", "failed", "off"},
          closing : {"no", "begun", "done"}, child : {"none", "alive", "stuck"},
          ticking : BOOLEAN, store : BOOLEAN, trouble : BOOLEAN]]
    /\ call \in [Calls -> [at : Places, gateway : Gateways \cup {None}]]
    /\ stray \subseteq Gateways
    /\ made \in 0..MaxGateways /\ faults \in 0..MaxFaults

\* A gateway of which nothing runs.
Quiet(g) ==
    /\ gateway[g].life \notin {"starting", "up"}
    /\ ~gateway[g].ticking /\ ~gateway[g].store
    /\ gateway[g].child = "none"

\* What start() gives up when it fails may keep a child whose exit nobody confirmed.
Unconfirmed(g) == gateway[g].life = "failed" /\ gateway[g].child = "stuck"
Left(g) == Quiet(g) \/ Unconfirmed(g)

\* However calls overlap and whatever fails: nothing runs of a gateway that is not owned any
\* more, also while other calls still work on it, but of those that were lost in one of the
\* two ways above.  None is lost as long as only calls about the agent ran beside each other,
\* and whatever the fence of an update refuses.
NoStrays ==
    /\ \A g \in Gateways \ stray : g # own => Left(g)
    /\ ~crossed => stray = {}

\* An installer finds nothing running, of the gateway that was stopped for it and of any
\* other that was not lost, whatever was called before and during the update.
InstallsAtRest ==
    (\E k \in Calls : At(k, "installing")) => \A g \in Gateways \ stray : Left(g)

\* The health that windows are shown is true: "stopped" is nothing at all, but what was lost;
\* and "ready", between calls that did not overlap, is a gateway that is up with its
\* automations, or one whose stop failed.
Idle == ~exited /\ \A k \in Calls : call[k].at \in {"idle", "over"}
Serves(g) == gateway[g].life = "up" /\ gateway[g].closing = "no" /\ gateway[g].ticking
HealthTells ==
    /\ health = "stopped" => \A g \in Gateways \ stray : Left(g)
    /\ Idle /\ ~crossed /\ health = "ready" =>
          own # None /\ (Serves(own) \/ gateway[own].trouble)
=============================================================================
