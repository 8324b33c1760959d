----------------------------- MODULE AgentProcess -----------------------------
(***************************************************************************)
(* The life of the agent-cli child: start, stop and restart called by the  *)
(* desktop, the clean-up after a failed connection, and the automatic      *)
(* recovery, all sharing one ProcessAgentRuntime.                          *)
(*                                                                         *)
(* Each asynchronous call is an operation that stands at one of its        *)
(* awaits: at[o] is the await and woken[o] says how it settled.  JavaScript *)
(* runs everything that was woken before it takes the next event, so an    *)
(* event (an exit, an answer, a timer, a call from outside) needs all      *)
(* operations to be asleep.  The order in which several are woken by one   *)
(* event is left open.                                                     *)
(***************************************************************************)
EXTENDS Integers, FiniteSets

CONSTANTS
    Boot,           \* start(), which the gateway lifecycle calls once
    Stoppers,       \* calls of stop() by the lifecycle that may overlap
    Restarters,     \* callers of restart() that may overlap
    Recoveries,     \* launch(true) calls that may overlap
    Failures,       \* failConnection() calls that may overlap
    MaxChildren,    \* bound: children spawned
    MaxAttempts     \* restartDelaysMs.length

AgentProcessAssumption ==
    /\ MaxChildren \in Nat
    /\ MaxAttempts \in Nat
    /\ Boot \notin Stoppers \cup Restarters \cup Recoveries \cup Failures
    /\ Stoppers \cap (Restarters \cup Recoveries \cup Failures) = {}
    /\ Restarters \cap (Recoveries \cup Failures) = {}
    /\ Recoveries \cap Failures = {}

VARIABLES
    killsTrees,         \* whether terminateProcessTree is there (Windows)
    process,            \* the children as the operating system sees them
    child,              \* the child that is owned, or NoChild
    generation,
    state,
    stopping, manuallyStopped, incompatible,
    restartAttempt,
    restartTimer,
    treeTermination,    \* "none", "pending" or "failed"
    termination,        \* terminateChildOnce(): "none", "waiting" or "exited"
    target,             \* the child it terminates
    treeKilled,         \* its descendants are known to be gone
    at, woken,          \* where each operation is
    launched,           \* the child and the generation a launch() works with
    seen                \* the generation a failConnection() remembers

flags == <<stopping, manuallyStopped, incompatible>>
recovery == <<restartAttempt, restartTimer>>
killing == <<treeTermination, termination, target, treeKilled>>
calls == <<at, woken, launched, seen>>
vars == <<killsTrees, process, child, generation, state, flags, recovery,
          killing, calls>>

-----------------------------------------------------------------------------
Operations == {Boot} \cup Stoppers \cup Restarters \cup Recoveries \cup Failures
NoChild == 0
Children == 1..MaxChildren

\* The awaits: stop() joins a termination, asks for a shutdown, gives the exit a
\* moment of grace, terminates; restart() is between stop() and start();
\* launch() terminates what is there, waits for initialize, cleans up;
\* failConnection() terminates.
Awaits == {"idle", "join", "shutdown", "grace", "stop", "start", "launch",
           "init", "cleanup", "fail"}
Terminations == {"join", "stop", "launch", "cleanup", "fail"}

Live == {p \in Children : process[p] = "live"}

\* The operations with a request in the pending map.
Pending == {o \in Operations : at[o] \in {"shutdown", "init"} /\ woken[o] = "no"}

\* Nothing has been woken and not run yet: the event loop may take an event.
Asleep == \A o \in Operations : woken[o] = "no"
Quiet == Asleep /\ termination # "exited"

\* Sending a signal marks the child as killed; taskkill does not.
Killed == ~killsTrees /\ target = child
IsReady == state = "ready" /\ child # NoChild /\ ~Killed

TypeOK ==
    /\ killsTrees \in BOOLEAN
    /\ process \in [Children -> {"none", "live", "gone"}]
    /\ child \in Children \cup {NoChild}
    /\ generation \in Nat
    /\ state \in {"stopped", "starting", "ready", "error"}
    /\ stopping \in BOOLEAN /\ manuallyStopped \in BOOLEAN /\ incompatible \in BOOLEAN
    /\ restartAttempt \in 0..MaxAttempts
    /\ restartTimer \in BOOLEAN
    /\ treeTermination \in {"none", "pending", "failed"}
    /\ termination \in {"none", "waiting", "exited"}
    /\ target \in Children \cup {NoChild}
    /\ treeKilled \in BOOLEAN
    /\ at \in [Operations -> Awaits]
    /\ woken \in [Operations -> {"no", "resolved", "rejected"}]
    /\ launched \in [Operations -> [child : Children \cup {NoChild}, generation : Nat]]
    /\ seen \in [Failures -> Nat]

Init ==
    /\ killsTrees \in BOOLEAN
    /\ process = [p \in Children |-> "none"]
    /\ child = NoChild
    /\ generation = 0
    /\ state = "stopped"
    /\ stopping = FALSE
    /\ manuallyStopped = TRUE
    /\ incompatible = FALSE
    /\ restartAttempt = 0
    /\ restartTimer = FALSE
    /\ treeTermination = "none"
    /\ termination = "none"
    /\ target = NoChild
    /\ treeKilled = FALSE
    /\ at = [o \in Operations |-> "idle"]
    /\ woken = [o \in Operations |-> "no"]
    /\ launched = [o \in Operations |-> [child |-> NoChild, generation |-> 0]]
    /\ seen = [f \in Failures |-> 0]

-----------------------------------------------------------------------------
(* Steps the operations share. *)

\* The operation returns or throws to its caller.
Return(o) ==
    /\ at' = [at EXCEPT ![o] = "idle"]
    /\ woken' = [woken EXCEPT ![o] = "no"]

\* rejectPending()
Rejected == [o \in Operations |-> IF o \in Pending THEN "rejected" ELSE woken[o]]

MayRecover ==
    /\ ~manuallyStopped /\ ~incompatible /\ ~restartTimer
    /\ treeTermination = "none"
    /\ restartAttempt < MaxAttempts

ScheduleRecovery ==
    /\ restartTimer' = (restartTimer \/ MayRecover)
    /\ restartAttempt' = IF MayRecover THEN restartAttempt + 1 ELSE restartAttempt

\* terminateChild(), awaited by o at a; others are the operations as they are
\* when it is called.  It joins the termination that is running, refuses while a
\* tree is unconfirmed, has nothing to do without a child, or begins.
TerminateChild(o, a, others) ==
    LET begins == termination = "none" /\ treeTermination = "none" /\ child # NoChild
    IN  /\ at' = [at EXCEPT ![o] = a]
        /\ woken' = [others EXCEPT ![o] =
                CASE termination # "none" \/ begins -> "no"
                  [] termination = "none" /\ treeTermination # "none" -> "rejected"
                  [] OTHER -> "resolved"]
        /\ IF begins
              THEN /\ termination' = "waiting"
                   /\ target' = child
                   /\ treeTermination' = IF killsTrees THEN "pending" ELSE "none"
                   /\ treeKilled' = ~killsTrees
              ELSE UNCHANGED killing

-----------------------------------------------------------------------------
(* launch() *)

\* The child is spawned without another look at who owns what.
Spawn(o) == \E p \in Children :
    /\ process[p] = "none"
    /\ \A q \in 1..(p - 1) : process[q] # "none"
    /\ process' = [process EXCEPT ![p] = "live"]
    /\ child' = p
    /\ generation' = generation + 1
    /\ launched' = [launched EXCEPT ![o] = [child |-> p, generation |-> generation + 1]]
    /\ state' = "starting"
    /\ stopping' = FALSE
    /\ at' = [at EXCEPT ![o] = "init"]
    /\ woken' = [woken EXCEPT ![o] = "no"]
    /\ UNCHANGED <<killsTrees, killing, seen>>

\* launch() up to its first await; the caller sees to the flags and the timer.
Launch(o) ==
    \/ /\ treeTermination # "none" \/ IsReady
       /\ Return(o)
       /\ UNCHANGED <<killsTrees, process, child, generation, state, stopping,
                      killing, launched, seen>>
    \/ /\ treeTermination = "none" /\ ~IsReady /\ child # NoChild
       /\ TerminateChild(o, "launch", woken)
       /\ UNCHANGED <<killsTrees, process, child, generation, state, stopping,
                      launched, seen>>
    \/ /\ treeTermination = "none" /\ child = NoChild
       /\ Spawn(o)

LaunchTerminated(o) ==
    /\ at[o] = "launch"
    /\ \/ woken[o] = "resolved" /\ Spawn(o)
       \/ /\ woken[o] = "rejected"
          /\ Return(o)
          /\ UNCHANGED <<killsTrees, process, child, generation, state, stopping,
                         killing, launched, seen>>
    /\ UNCHANGED <<manuallyStopped, incompatible, recovery>>

\* The agent answers initialize with the version this gateway speaks.
Initialized(o) ==
    /\ Quiet
    /\ at[o] = "init" /\ child = launched[o].child
    /\ state' = "ready"
    /\ restartAttempt' = 0
    /\ Return(o)
    /\ UNCHANGED <<killsTrees, process, child, generation, flags, restartTimer,
                   killing, launched, seen>>

\* The end of launch() after a failure.
LaunchFails(o) ==
    LET mine == child = NoChild /\ generation <= launched[o].generation + 1
    IN  /\ state' = IF mine THEN "error" ELSE state
        /\ IF mine /\ o \in Recoveries THEN ScheduleRecovery ELSE UNCHANGED recovery
        /\ Return(o)
        /\ UNCHANGED <<killsTrees, process, child, generation, stopping,
                       manuallyStopped, killing, launched, seen>>

\* initialize is rejected, times out, or brings another version.
InitializeFails(o) ==
    /\ at[o] = "init"
    /\ woken[o] = "rejected" \/ Quiet
    /\ \/ UNCHANGED incompatible
       \/ Quiet /\ incompatible' = TRUE
    /\ IF child = launched[o].child
          THEN /\ TerminateChild(o, "cleanup", woken)
               /\ UNCHANGED <<killsTrees, process, child, generation, state, stopping,
                              manuallyStopped, recovery, launched, seen>>
          ELSE LaunchFails(o)

CleanedUp(o) ==
    /\ at[o] = "cleanup"
    /\ \/ woken[o] = "resolved" /\ LaunchFails(o)
       \/ /\ woken[o] = "rejected"
          /\ Return(o)
          /\ UNCHANGED <<killsTrees, process, child, generation, state, stopping,
                         manuallyStopped, recovery, killing, launched, seen>>
    /\ UNCHANGED incompatible

-----------------------------------------------------------------------------
(* start(), stop() and restart() *)

Start(o) ==
    /\ manuallyStopped' = FALSE
    /\ incompatible' = FALSE
    /\ Launch(o)
    /\ UNCHANGED recovery

LifecycleStarts ==
    /\ Quiet
    /\ generation = 0
    /\ Start(Boot)

\* stop() returns; inside restart() that leads to start().
StopReturns(o) ==
    IF o \in Restarters
      THEN /\ at' = [at EXCEPT ![o] = "start"]
           /\ woken' = [woken EXCEPT ![o] = "resolved"]
      ELSE Return(o)

\* stop() once no termination is running: it refuses an unconfirmed tree, is done
\* without a child, or asks the child to shut down.
StopOwnedChild(o) ==
    \/ /\ treeTermination # "none"
       /\ Return(o)
       /\ UNCHANGED <<state, stopping>>
    \/ /\ treeTermination = "none" /\ child = NoChild
       /\ state' = "stopped"
       /\ StopReturns(o)
       /\ UNCHANGED stopping
    \/ /\ treeTermination = "none" /\ child # NoChild
       /\ stopping' = TRUE
       /\ at' = [at EXCEPT ![o] = "shutdown"]
       /\ woken' = [woken EXCEPT ![o] = "no"]
       /\ UNCHANGED state

StopCalled(o) ==
    /\ Quiet
    /\ generation # 0
    /\ o \in Stoppers \/ (o \in Restarters /\ at[Boot] = "idle")
    /\ at[o] = "idle"
    /\ manuallyStopped' = TRUE
    /\ restartTimer' = FALSE
    /\ restartAttempt' = 0
    /\ IF termination # "none"
         THEN /\ at' = [at EXCEPT ![o] = "join"]
              /\ UNCHANGED <<woken, state, stopping>>
         ELSE StopOwnedChild(o)
    /\ UNCHANGED <<killsTrees, process, child, generation, incompatible, killing,
                   launched, seen>>

StopJoined(o) ==
    /\ at[o] = "join"
    /\ \/ woken[o] = "resolved" /\ StopOwnedChild(o)
       \/ woken[o] = "rejected" /\ Return(o) /\ UNCHANGED <<state, stopping>>
    /\ UNCHANGED <<killsTrees, process, child, generation, manuallyStopped,
                   incompatible, recovery, killing, launched, seen>>

\* The answer to shutdown: the exit gets a moment.
ShutdownAnswered(o) ==
    /\ Quiet
    /\ at[o] = "shutdown"
    /\ at' = [at EXCEPT ![o] = "grace"]
    /\ UNCHANGED <<killsTrees, process, child, generation, state, flags, recovery,
                   killing, woken, launched, seen>>

\* The request fails or times out, or the grace is over: terminate in any case.
ShutdownOver(o) ==
    /\ at[o] \in {"shutdown", "grace"}
    /\ woken[o] # "no" \/ Quiet
    /\ TerminateChild(o, "stop", woken)
    /\ UNCHANGED <<killsTrees, process, child, generation, state, flags, recovery,
                   launched, seen>>

StopTerminated(o) ==
    /\ at[o] = "stop"
    /\ \/ /\ woken[o] = "resolved"
          /\ state' = "stopped"
          /\ stopping' = FALSE
          /\ StopReturns(o)
       \/ woken[o] = "rejected" /\ Return(o) /\ UNCHANGED <<state, stopping>>
    /\ UNCHANGED <<killsTrees, process, child, generation, manuallyStopped,
                   incompatible, recovery, killing, launched, seen>>

RestartStarts(o) ==
    /\ at[o] = "start" /\ woken[o] = "resolved"
    /\ Start(o)

-----------------------------------------------------------------------------
(* The end of a child *)

\* The requests of the child are rejected and a stop() in its grace goes on.
AfterExit == [o \in Operations |->
    IF at[o] = "grace" /\ woken[o] = "no" THEN "resolved" ELSE Rejected[o]]

\* Fault: an exit in state error counts as already handled.
HandleExitOnce(p) ==
    LET planned == stopping \/ manuallyStopped \/ state = "error"
    IN  IF p = child
          THEN /\ child' = NoChild
               /\ generation' = generation + 1
               /\ woken' = AfterExit
               /\ state' = IF stopping \/ manuallyStopped THEN "stopped" ELSE "error"
               /\ IF planned THEN UNCHANGED recovery ELSE ScheduleRecovery
          ELSE UNCHANGED <<child, generation, woken, state, recovery>>

\* handleExit(), when the child is the one that is owned.
HandleExit(p) ==
    LET planned == stopping \/ manuallyStopped
    IN  IF p = child
          THEN /\ child' = NoChild
               /\ generation' = generation + 1
               /\ woken' = AfterExit
               /\ state' = IF planned THEN "stopped" ELSE "error"
               /\ IF planned THEN UNCHANGED recovery ELSE ScheduleRecovery
          ELSE UNCHANGED <<child, generation, woken, state, recovery>>

ChildExits(p) ==
    /\ Quiet
    /\ process[p] = "live"
    /\ process' = [process EXCEPT ![p] = "gone"]
    /\ HandleExit(p)
    /\ termination' = IF termination = "waiting" /\ target = p /\ treeKilled
                      THEN "exited" ELSE termination
    /\ UNCHANGED <<killsTrees, flags, treeTermination, target, treeKilled, at,
                   launched, seen>>

\* taskkill reports success.
TreeKilled ==
    /\ Quiet
    /\ termination = "waiting" /\ ~treeKilled
    /\ treeKilled' = TRUE
    /\ termination' = IF process[target] = "gone" THEN "exited" ELSE "waiting"
    /\ UNCHANGED <<killsTrees, process, child, generation, state, flags, recovery,
                   treeTermination, target, calls>>

\* The operations that await the termination.
Waiting == {o \in Operations : at[o] \in Terminations /\ woken[o] = "no"}

\* terminateChildOnce() goes on after the exit, once what the exit woke has run.
TerminationSucceeds ==
    /\ termination = "exited" /\ Asleep
    /\ termination' = "none"
    /\ treeTermination' = "none"
    /\ target' = NoChild
    /\ child' = NoChild
    /\ generation' = generation + 1
    /\ woken' = [o \in Operations |-> IF o \in Waiting THEN "resolved" ELSE Rejected[o]]
    /\ UNCHANGED <<killsTrees, process, state, flags, recovery, treeKilled, at,
                   launched, seen>>

\* Fault: a child that missed its deadline is given up.
TerminationGivesUp ==
    /\ Quiet
    /\ termination = "waiting"
    /\ termination' = "none"
    /\ child' = NoChild
    /\ IF killsTrees
         THEN treeTermination' = "failed" /\ state' = "error"
         ELSE UNCHANGED <<treeTermination, state>>
    /\ woken' = [o \in Operations |-> IF o \in Waiting THEN "rejected" ELSE woken[o]]
    /\ UNCHANGED <<killsTrees, process, generation, flags, recovery, target,
                   treeKilled, at, launched, seen>>

\* The deadline passes, or taskkill fails: the child stays owned, and a tree that
\* may still be there stays unconfirmed.
TerminationFails ==
    /\ Quiet
    /\ termination = "waiting"
    /\ termination' = "none"
    /\ IF killsTrees
         THEN treeTermination' = "failed" /\ state' = "error"
         ELSE UNCHANGED <<treeTermination, state>>
    /\ woken' = [o \in Operations |-> IF o \in Waiting THEN "rejected" ELSE woken[o]]
    /\ UNCHANGED <<killsTrees, process, child, generation, flags, recovery, target,
                   treeKilled, at, launched, seen>>

\* A signal could not be sent: the error of a child that lives.
SignalFails ==
    /\ Quiet
    /\ termination = "waiting" /\ ~killsTrees
    /\ state' = "error"
    /\ woken' = Rejected
    /\ UNCHANGED <<killsTrees, process, child, generation, flags, recovery, killing,
                   at, launched, seen>>

\* Output that breaks the protocol.
FailConnection(f) ==
    /\ Quiet
    /\ at[f] = "idle" /\ child # NoChild
    /\ state' = "error"
    /\ TerminateChild(f, "fail", Rejected)
    /\ seen' = [seen EXCEPT ![f] = generation]
    /\ UNCHANGED <<killsTrees, process, child, generation, flags, recovery, launched>>

ConnectionFailed(f) ==
    /\ at[f] = "fail" /\ woken[f] # "no"
    /\ IF /\ woken[f] = "resolved"
          /\ generation = seen[f] /\ child = NoChild
          /\ ~stopping /\ ~manuallyStopped
         THEN ScheduleRecovery
         ELSE UNCHANGED recovery
    /\ Return(f)
    /\ UNCHANGED <<killsTrees, process, child, generation, state, flags, killing,
                   launched, seen>>

TimerFires(o) ==
    /\ Quiet
    /\ restartTimer /\ at[o] = "idle"
    /\ restartTimer' = FALSE
    /\ IF manuallyStopped \/ incompatible
         THEN UNCHANGED <<killsTrees, process, child, generation, state, stopping,
                          killing, calls>>
         ELSE Launch(o)
    /\ UNCHANGED <<manuallyStopped, incompatible, restartAttempt>>

-----------------------------------------------------------------------------
Next ==
    \/ LifecycleStarts
    \/ \E o \in Operations :
         \/ StopCalled(o) \/ StopJoined(o) \/ ShutdownAnswered(o)
         \/ ShutdownOver(o) \/ StopTerminated(o) \/ RestartStarts(o)
         \/ LaunchTerminated(o) \/ Initialized(o) \/ InitializeFails(o) \/ CleanedUp(o)
    \/ \E p \in Children : ChildExits(p)
    \/ TreeKilled \/ TerminationSucceeds \/ TerminationFails \/ SignalFails
    \/ \E f \in Failures : FailConnection(f) \/ ConnectionFailed(f)
    \/ \E o \in Recoveries : TimerFires(o)

Spec == Init /\ [][Next]_vars

-----------------------------------------------------------------------------
(* Properties *)

\* What the steps rely on (process-runtime.ts): the owned child is a process that
\* has not exited, an unconfirmed tree keeps its termination or its failure, a
\* request that waits for initialize belongs to the owned child, and no timer runs
\* while the agent is stopped by hand.
AgentProcessInv ==
    /\ TypeOK
    /\ child # NoChild => process[child] = "live"
    /\ (treeTermination = "pending") = (killsTrees /\ termination # "none")
    /\ \A o \in Pending : at[o] = "init" => child = launched[o].child
    /\ restartTimer => ~manuallyStopped

\* Sending SIGKILL is not proof of exit (process-runtime.ts:610): whatever calls
\* overlap, a child that has not exited is still owned, so there is never a second
\* agent next to it.
NoOrphans == \A p \in Live : p = child

\* A new agent is only spawned when no other lives and every tree that was killed is
\* known to be gone (launch(), also after it waited for a termination).
AloneWhenSpawned ==
    process' # process /\ Live' \ Live # {} => Live = {} /\ treeTermination = "none"

AllIdle == \A o \in Operations : at[o] = "idle"

\* When all calls are over, stop() had the last word and the agent is reported as
\* stopped, then it is: no child is left alive but one that outlived the signals it
\* was sent (stop(), handleExit(), and the hasProcess check of the gateway's stop()).
StoppedMeansGone ==
    AllIdle /\ manuallyStopped /\ state = "stopped" => Live = {} \/ Killed

\* The child is down, nothing is on its way to bring it back, and attempts are left.
Down ==
    /\ state = "error" /\ child = NoChild /\ treeTermination = "none"
    /\ ~stopping /\ ~manuallyStopped /\ ~incompatible
    /\ restartAttempt < MaxAttempts
    /\ AllIdle

\* An agent that went down by itself is brought back while attempts are left
\* (handleExit(), launch(), failConnection()), where children are ended by signals.
RecoveryScheduled == Down /\ ~killsTrees => restartTimer

\* A connection that is ended because the agent broke the protocol is followed by a
\* recovery with the configured back-off (docs/desktop/gateway/agent-protocol.md:101),
\* wherever the agent runs: failConnection() does not return without a timer.
FailedConnectionsRecover ==
    [][\A f \in Failures :
         /\ at[f] = "fail" /\ woken[f] = "resolved" /\ at'[f] = "idle"
         /\ child = NoChild /\ restartAttempt < MaxAttempts
         /\ ~stopping /\ ~manuallyStopped /\ ~incompatible
         => restartTimer']_vars
=============================================================================
