--------------------------- MODULE GatewayLifecycle ---------------------------
(***************************************************************************)
(* The start and the stop of a gateway: the agent, the heartbeat, the      *)
(* dispatching of the scheduler and the Feishu channel with the timer that *)
(* renews its connection.  stop() may come at any point of start(); it     *)
(* tears down, waits for start() to notice, and tears down once more.      *)
(* Each step of a teardown has a deadline, and what it called goes on when *)
(* the deadline has passed.  The agent comes back by itself when it goes   *)
(* down, until it is stopped.                                              *)
(***************************************************************************)
EXTENDS Integers

CONSTANTS
    MaxRuns,       \* bound: runs the scheduler starts
    MaxFaults      \* bound: failures and deadlines that pass

GatewayLifecycleAssumption == MaxRuns \in Nat /\ MaxFaults \in Nat

Teardowns == {"cleanup", "first", "second"}

VARIABLES
    start,         \* where startOnce() stands; "started" and "failed" when it has settled
    stop,          \* where stopOnce() stands
    joined,        \* stop() found start() under way
    flags,         \* the fields of GatewayLifecycle
    teardown,      \* teardown[t]: the step it waits for
    waits,         \* waits[t]: the run whose end a step waits for
    stopping,      \* stopping[t]: runtimeLifecycle.stop() as called by a teardown
    errors,        \* teardowns, or the wait for start(), that recorded an error
    agent,         \* "down", "starting" or "up"
    manual,        \* the agent was told to stop
    run,           \* the run that is active, or 0
    runs,          \* runs started
    hung,          \* the run does not end when it is aborted
    dispatch,      \* the scheduler hands runs to the agent
    heartbeat,     \* the bridge takes wakes
    registry,      \* ChannelRegistry
    adapter,       \* FeishuAdapter
    restart,       \* FeishuIdleRestart
    conn,          \* the connection to Feishu
    faults

vars == <<start, stop, joined, flags, teardown, waits, stopping, errors, agent, manual, run,
          runs, hung, dispatch, heartbeat, registry, adapter, restart, conn, faults>>
startVars == <<start, flags>>
stopVars == <<stop, joined, teardown, waits, errors>>
agentVars == <<stopping, agent, manual, run, runs, hung, dispatch>>
channelVars == <<registry, adapter, restart, conn>>

Init ==
    /\ start = "none" /\ stop = "none" /\ joined = FALSE
    /\ flags = [channels |-> FALSE, heartbeat |-> FALSE, accepting |-> FALSE,
                started |-> FALSE, shutdown |-> FALSE]
    /\ teardown = [t \in Teardowns |-> "none"]
    /\ waits = [t \in Teardowns |-> 0]
    /\ stopping = [t \in Teardowns |-> "none"]
    /\ errors = {}
    /\ agent = "down" /\ manual = FALSE
    /\ run = 0 /\ runs = 0 /\ hung = FALSE
    /\ dispatch = FALSE /\ heartbeat = FALSE
    /\ registry = [desired |-> FALSE, started |-> FALSE, start |-> "none", stop |-> "none"]
    /\ adapter = [desired |-> FALSE, ready |-> FALSE, sdk |-> FALSE, start |-> "none",
                  stop |-> "none"]
    /\ restart = [running |-> FALSE, timer |-> FALSE, attempt |-> "none"]
    /\ conn = "closed"
    /\ faults = 0

Fault == faults < MaxFaults /\ faults' = faults + 1
NoFault == UNCHANGED faults

-----------------------------------------------------------------------------
\* start()
StartSettled == start \in {"none", "started", "failed"}

Start ==
    /\ start = "none" /\ ~flags.shutdown
    /\ start' = "state"
    /\ UNCHANGED <<flags, stopVars, agentVars, heartbeat, channelVars, faults>>

\* Fault: a start that fails leaves what it had started.
FailedUncleaned ==
    /\ flags' = [flags EXCEPT !.accepting = FALSE]
    /\ start' = "failed" /\ UNCHANGED teardown

\* startOnce() throws: a stop() that has begun cleans up for it, otherwise it does so itself.
Failed ==
    /\ flags' = [flags EXCEPT !.accepting = FALSE]
    /\ IF flags.shutdown THEN start' = "failed" /\ UNCHANGED teardown
       ELSE start' = "cleanup" /\ teardown' = [teardown EXCEPT !["cleanup"] = "begin"]

StateUsable ==
    /\ start = "state"
    /\ \/ /\ ~flags.shutdown
          /\ start' = "runtime" /\ agent' = "starting" /\ manual' = FALSE
          /\ NoFault /\ UNCHANGED <<flags, teardown>>
       \/ flags.shutdown /\ Failed /\ NoFault /\ UNCHANGED <<agent, manual>>
       \/ Failed /\ Fault /\ UNCHANGED <<agent, manual>>
    /\ UNCHANGED <<stop, joined, waits, stopping, errors, run, runs, hung, dispatch, heartbeat,
                   channelVars>>

\* startAll() opens the connection of the adapter, which is marked first.
StartAll ==
    /\ registry' = [registry EXCEPT !.desired = TRUE, !.started = TRUE, !.start = "adapter"]
    /\ adapter' = [adapter EXCEPT !.desired = TRUE, !.sdk = TRUE, !.start = "connecting"]
    /\ conn' = "opening"
    /\ UNCHANGED restart

\* The agent is ready, and the heartbeat is started and the ingress opened before the
\* channels; or the agent is not.
RuntimeStarted ==
    /\ start = "runtime" /\ agent # "starting"
    /\ IF agent = "up" /\ ~flags.shutdown
       THEN /\ start' = "channels" /\ heartbeat' = TRUE /\ dispatch' = TRUE
            /\ flags' = [flags EXCEPT !.heartbeat = TRUE, !.accepting = TRUE, !.channels = TRUE]
            /\ StartAll /\ UNCHANGED teardown
       ELSE /\ Failed /\ dispatch' = (agent = "up" \/ dispatch)
            /\ UNCHANGED <<heartbeat, channelVars>>
    /\ UNCHANGED <<stop, joined, waits, errors, stopping, agent, manual, run, runs, hung, faults>>

ChannelsStarted ==
    /\ start = "channels" /\ registry.start \in {"ok", "error"}
    /\ IF registry.start = "ok" /\ ~flags.shutdown
       THEN start' = "started" /\ flags' = [flags EXCEPT !.started = TRUE] /\ UNCHANGED teardown
       ELSE Failed
    /\ UNCHANGED <<stop, joined, waits, errors, agentVars, heartbeat, channelVars, faults>>

CleanedUp ==
    /\ start = "cleanup" /\ teardown["cleanup"] = "done"
    /\ start' = "failed"
    /\ UNCHANGED <<flags, stopVars, agentVars, heartbeat, channelVars, faults>>

-----------------------------------------------------------------------------
\* stop()
Stop ==
    /\ stop = "none"
    /\ stop' = "first"
    /\ joined' = ~StartSettled
    /\ flags' = [flags EXCEPT !.shutdown = TRUE, !.accepting = FALSE]
    /\ teardown' = [teardown EXCEPT !["first"] = "begin"]
    /\ UNCHANGED <<start, waits, errors, agentVars, heartbeat, channelVars, faults>>

FirstDone ==
    /\ stop = "first" /\ teardown["first"] = "done"
    /\ stop' = IF joined THEN "startup" ELSE "done"
    /\ UNCHANGED <<startVars, joined, teardown, waits, errors, agentVars, heartbeat,
                   channelVars, faults>>

StartupOver ==
    /\ stop = "startup"
    /\ \/ StartSettled /\ NoFault /\ UNCHANGED errors
       \/ ~StartSettled /\ Fault /\ errors' = errors \cup {"startup"}
    /\ stop' = "second"
    /\ teardown' = [teardown EXCEPT !["second"] = "begin"]
    /\ UNCHANGED <<startVars, joined, waits, agentVars, heartbeat, channelVars>>

SecondDone ==
    /\ stop = "second" /\ teardown["second"] = "done"
    /\ stop' = "done"
    /\ UNCHANGED <<startVars, joined, teardown, waits, errors, agentVars, heartbeat,
                   channelVars, faults>>

\* teardown(): the channels, when starting them was attempted.
BeginTeardown(t) ==
    /\ teardown[t] = "begin"
    /\ IF flags.channels
       THEN /\ teardown' = [teardown EXCEPT ![t] = "channels"]
            /\ registry' = [registry EXCEPT !.desired = FALSE,
                                            !.stop = IF @ = "none" THEN "start" ELSE @]
       ELSE teardown' = [teardown EXCEPT ![t] = "heartbeat"] /\ UNCHANGED registry
    /\ UNCHANGED <<startVars, stop, joined, waits, errors, agentVars, heartbeat, adapter,
                   restart, conn, faults>>

\* A step ends when what it called does, or when its deadline passes.
StepEnds(t, done) ==
    \/ done /\ NoFault /\ UNCHANGED errors
    \/ ~done /\ Fault /\ errors' = errors \cup {t}

ChannelsStopped(t) ==
    /\ teardown[t] = "channels"
    /\ StepEnds(t, registry.stop = "none")
    /\ teardown' = [teardown EXCEPT ![t] = "heartbeat"]
    /\ UNCHANGED <<startVars, stop, joined, waits, agentVars, heartbeat, channelVars>>

\* The heartbeat stops and the dispatching ends.  The first teardown of a stop() that joined
\* a start() remembers what was attempted.
Quieten(t) ==
    LET keep == t = "first" /\ joined
    IN /\ teardown[t] = "heartbeat"
       /\ heartbeat' = (heartbeat /\ ~flags.heartbeat)
       /\ flags' = [flags EXCEPT !.channels = @ /\ keep, !.heartbeat = @ /\ keep]
       /\ dispatch' = FALSE
       /\ teardown' = [teardown EXCEPT ![t] = "runs"]
       /\ waits' = [waits EXCEPT ![t] = run]
       /\ UNCHANGED <<start, stop, joined, errors, stopping, agent, manual, run, runs, hung,
                      channelVars, faults>>

RunOver(t) == run = 0 \/ run # waits[t]

\* failActiveRuns() has aborted the run and waits for its end.  Then the runtime is stopped,
\* which waits for the runs it finds.
RunsFailed(t) ==
    /\ teardown[t] = "runs"
    /\ StepEnds(t, RunOver(t))
    /\ teardown' = [teardown EXCEPT ![t] = "runtime"]
    /\ stopping' = [stopping EXCEPT ![t] = "runs"]
    /\ waits' = [waits EXCEPT ![t] = run]
    /\ dispatch' = FALSE
    /\ UNCHANGED <<startVars, stop, joined, agent, manual, run, runs, hung, heartbeat,
                   channelVars>>

RunsSettled(t) ==
    /\ stopping[t] = "runs" /\ RunOver(t)
    /\ stopping' = [stopping EXCEPT ![t] = "agent"]
    /\ manual' = TRUE
    /\ UNCHANGED <<startVars, stopVars, agent, run, runs, hung, dispatch, heartbeat,
                   channelVars, faults>>

\* The process of the agent is gone, and with it its run; or it could not be confirmed.
AgentStopped(t) ==
    /\ stopping[t] = "agent"
    /\ \/ /\ agent' = "down" /\ run' = 0 /\ hung' = FALSE /\ dispatch' = FALSE
          /\ stopping' = [stopping EXCEPT ![t] = "done"] /\ NoFault
       \/ /\ agent # "down" /\ Fault
          /\ stopping' = [stopping EXCEPT ![t] = "failed"]
          /\ UNCHANGED <<agent, run, hung, dispatch>>
    /\ UNCHANGED <<startVars, stopVars, manual, runs, heartbeat, channelVars>>

RuntimeStopped(t) ==
    /\ teardown[t] = "runtime"
    /\ IF stopping[t] = "failed" THEN errors' = errors \cup {t} /\ NoFault
       ELSE StepEnds(t, stopping[t] = "done")
    /\ teardown' = [teardown EXCEPT ![t] = "done"]
    /\ flags' = [flags EXCEPT !.started = FALSE]
    /\ UNCHANGED <<start, stop, joined, waits, agentVars, heartbeat, channelVars>>

-----------------------------------------------------------------------------
\* The agent: its status is handed on to the scheduler.
AgentReady ==
    /\ agent = "starting"
    /\ agent' = "up" /\ dispatch' = TRUE
    /\ UNCHANGED <<startVars, stopVars, stopping, manual, run, runs, hung, heartbeat,
                   channelVars, faults>>

AgentDown ==
    /\ agent # "down" /\ Fault
    /\ agent' = "down" /\ dispatch' = FALSE /\ run' = 0 /\ hung' = FALSE
    /\ UNCHANGED <<startVars, stopVars, stopping, manual, runs, heartbeat, channelVars>>

AgentRecovers ==
    /\ agent = "down" /\ ~manual /\ start \notin {"none", "state", "runtime"}
    /\ agent' = "starting"
    /\ UNCHANGED <<startVars, stopVars, stopping, manual, run, runs, hung, dispatch, heartbeat,
                   channelVars, faults>>

RunStarts ==
    /\ dispatch /\ agent = "up" /\ run = 0 /\ runs < MaxRuns
    /\ runs' = runs + 1 /\ run' = runs + 1
    /\ UNCHANGED <<startVars, stopVars, stopping, agent, manual, hung, dispatch, heartbeat,
                   channelVars, faults>>

RunHangs ==
    /\ run # 0 /\ ~hung /\ Fault
    /\ hung' = TRUE
    /\ UNCHANGED <<startVars, stopVars, stopping, agent, manual, run, runs, dispatch,
                   heartbeat, channelVars>>

RunEnds ==
    /\ run # 0 /\ ~hung
    /\ run' = 0
    /\ UNCHANGED <<startVars, stopVars, stopping, agent, manual, runs, hung, dispatch,
                   heartbeat, channelVars, faults>>

-----------------------------------------------------------------------------
\* The registry: adapter.stop() is called for an adapter that was started, and joined.
Others == UNCHANGED <<startVars, stopVars, agentVars, heartbeat>>

StopAdapter ==
    /\ adapter' = [adapter EXCEPT !.desired = FALSE, !.ready = FALSE,
                                  !.stop = IF @ = "none" THEN "restart" ELSE @]
    /\ restart' = [restart EXCEPT !.running = FALSE, !.timer = FALSE]

\* stopStarted()
StopStarted(field, after) ==
    IF registry.started
    THEN /\ registry' = [registry EXCEPT !.started = FALSE, ![field] = "adapter.stop",
                                         !.desired = @ /\ field = "stop"]
         /\ StopAdapter
    ELSE registry' = [registry EXCEPT ![field] = after] /\ UNCHANGED <<adapter, restart>>

\* startGeneration(): the adapter has started, or not, or is not wanted any more.
AdapterStarted ==
    /\ registry.start = "adapter" /\ adapter.start \in {"done", "failed"}
    /\ IF adapter.start = "done" /\ registry.desired
       THEN registry' = [registry EXCEPT !.start = "ok"] /\ UNCHANGED <<adapter, restart>>
       ELSE StopStarted("start", "error")
    /\ Others /\ UNCHANGED <<conn, faults>>

StartUndone ==
    /\ registry.start = "adapter.stop" /\ adapter.stop = "none"
    /\ registry' = [registry EXCEPT !.start = "error"]
    /\ Others /\ UNCHANGED <<adapter, restart, conn, faults>>

\* stopAll(): the start that was under way is waited for.
StopAll ==
    /\ registry.stop = "start" /\ registry.start \notin {"adapter", "adapter.stop"}
    /\ StopStarted("stop", "none")
    /\ Others /\ UNCHANGED <<conn, faults>>

StoppedAll ==
    /\ registry.stop = "adapter.stop" /\ adapter.stop = "none"
    /\ registry' = [registry EXCEPT !.stop = "none"]
    /\ Others /\ UNCHANGED <<adapter, restart, conn, faults>>

-----------------------------------------------------------------------------
\* The adapter.  onReady of the SDK, which looks at desiredStarted.
ConnectionOpens ==
    /\ conn = "opening"
    /\ conn' = "open"
    /\ adapter' = [adapter EXCEPT !.ready = adapter.desired]
    /\ Others /\ UNCHANGED <<registry, restart, faults>>

ConnectionFails ==
    /\ conn = "opening" /\ Fault
    /\ conn' = "closed"
    /\ Others /\ UNCHANGED <<registry, adapter, restart>>

\* The SDK loses the connection and opens it again.
ConnectionDrops ==
    /\ conn = "open" /\ restart.attempt = "none" /\ Fault
    /\ conn' = "opening"
    /\ adapter' = [adapter EXCEPT !.ready = FALSE]
    /\ Others /\ UNCHANGED <<registry, restart>>

\* startInternal(): connection.start() has answered.
Connected ==
    /\ adapter.start = "connecting" /\ conn # "opening"
    /\ IF conn = "open" /\ adapter.desired
       THEN /\ adapter' = [adapter EXCEPT !.start = "done", !.ready = TRUE]
            /\ restart' = [restart EXCEPT !.running = TRUE, !.timer = TRUE]
            /\ UNCHANGED conn
       ELSE /\ adapter' = [adapter EXCEPT !.start = "failed", !.ready = FALSE]
            /\ conn' = "closed" /\ UNCHANGED restart
    /\ Others /\ UNCHANGED <<registry, faults>>

\* stopInternal(): an attempt to renew the connection is waited for, up to a deadline.
RestartStopped ==
    /\ adapter.stop = "restart"
    /\ IF restart.attempt = "none" THEN NoFault ELSE Fault
    /\ adapter' = [adapter EXCEPT !.stop = IF adapter.sdk THEN "graceful" ELSE "none"]
    /\ Others /\ UNCHANGED <<registry, restart, conn>>

\* The connection closes, gracefully or, after another deadline, by force.
ConnectionStopped ==
    /\ adapter.stop \in {"graceful", "forced"}
    /\ \/ /\ conn' = "closed" /\ NoFault
          /\ adapter' = [adapter EXCEPT !.stop = "none", !.ready = FALSE, !.sdk = FALSE]
       \/ /\ adapter.stop = "graceful" /\ Fault /\ UNCHANGED conn
          /\ adapter' = [adapter EXCEPT !.stop = "forced"]
    /\ Others /\ UNCHANGED <<registry, restart>>

\* FeishuIdleRestart: the timer puts the renewal off while there is work.
TimerFires ==
    /\ restart.timer /\ restart.attempt = "none" /\ run = 0
    /\ restart' = [restart EXCEPT !.timer = FALSE, !.attempt = "closing"]
    /\ adapter' = [adapter EXCEPT !.ready = FALSE]
    /\ Others /\ UNCHANGED <<registry, conn, faults>>

AttemptEnds == restart' = [restart EXCEPT !.attempt = "none", !.timer = restart.running]

\* restartConnection(): desiredStarted is asked again after every wait.
RestartClosed ==
    /\ restart.attempt = "closing"
    /\ IF adapter.desired
       THEN conn' = "opening" /\ restart' = [restart EXCEPT !.attempt = "opening"]
       ELSE conn' = "closed" /\ AttemptEnds
    /\ Others /\ UNCHANGED <<registry, adapter, faults>>

RestartOpened ==
    /\ restart.attempt = "opening" /\ conn # "opening"
    /\ adapter' = [adapter EXCEPT !.ready = @ \/ (conn = "open" /\ adapter.desired)]
    /\ AttemptEnds
    /\ Others /\ UNCHANGED <<registry, conn, faults>>

LifecycleStep ==
    \/ Start \/ StateUsable \/ RuntimeStarted \/ ChannelsStarted \/ CleanedUp
    \/ Stop \/ FirstDone \/ StartupOver \/ SecondDone
    \/ \E t \in Teardowns :
          \/ BeginTeardown(t) \/ ChannelsStopped(t) \/ Quieten(t) \/ RunsFailed(t)
          \/ RunsSettled(t) \/ AgentStopped(t) \/ RuntimeStopped(t)
AgentStep ==
    AgentReady \/ AgentDown \/ AgentRecovers \/ RunStarts \/ RunHangs \/ RunEnds
ChannelStep ==
    \/ AdapterStarted \/ StartUndone \/ StopAll \/ StoppedAll
    \/ ConnectionOpens \/ ConnectionFails \/ ConnectionDrops \/ Connected
    \/ RestartStopped \/ ConnectionStopped \/ TimerFires \/ RestartClosed \/ RestartOpened

Next == LifecycleStep \/ AgentStep \/ ChannelStep

Spec == Init /\ [][Next]_vars

-----------------------------------------------------------------------------
TypeOK ==
    /\ errors \subseteq Teardowns \cup {"startup"}
    /\ agent \in {"down", "starting", "up"} /\ conn \in {"closed", "opening", "open"}
    /\ run \in 0 .. MaxRuns /\ faults \in 0 .. MaxFaults

ChannelDown == conn = "closed" /\ ~adapter.ready /\ ~restart.timer
Down ==
    /\ ChannelDown /\ ~heartbeat /\ ~dispatch /\ agent = "down" /\ run = 0
    /\ ~flags.accepting /\ ~flags.started

\* A stop() that recorded no error has left nothing up, wherever start() was; and a start()
\* that failed has undone what it had done.
CleanEndsAreDown ==
    /\ (stop = "done" /\ errors \cap {"first", "startup", "second"} = {}) => Down /\ StartSettled
    /\ (start = "failed" /\ stop = "none" /\ errors = {}) => Down

\* Nothing is under way any more.
AtRest ==
    /\ start \in {"none", "failed", "started"}
    /\ registry.start \notin {"adapter", "adapter.stop"} /\ registry.stop = "none"
    /\ adapter.stop = "none" /\ restart.attempt = "none" /\ conn # "opening"
    /\ \A t \in Teardowns : stopping[t] # "agent" /\ ~(stopping[t] = "runs" /\ RunOver(t))
    /\ agent # "starting"

\* Whatever failed and whatever deadline passed: after stop() the channel, the heartbeat and
\* the ingress are down when the last of the calls has ended, and the agent is but for a run
\* that does not end and a process that could not be killed.
StopsInTheEnd ==
    (stop = "done" /\ AtRest) =>
        /\ ChannelDown /\ ~heartbeat /\ ~flags.accepting /\ ~flags.started
        /\ \/ agent = "down" /\ ~dispatch
           \/ \E t \in Teardowns : stopping[t] \in {"runs", "failed"}
=============================================================================
