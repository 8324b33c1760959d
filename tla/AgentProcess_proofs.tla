------------------------- MODULE AgentProcess_proofs -------------------------
(***************************************************************************)
(* Proofs about AgentProcess, for any children, attempts, recoveries and   *)
(* failed connections.  Ownership is proved for any calls of stop() and    *)
(* one caller of restart(), as launch() does not look again at what it     *)
(* owns after it waited; that recovery is scheduled is proved for any      *)
(* callers of restart() when stop() is only called inside of it.           *)
(***************************************************************************)
EXTENDS AgentProcess, TLAPS

\* No two callers of restart() overlap.
OneRestarter == \A r, s \in Restarters : r = s

\* Only restart() calls stop().
RestartsOnly == Stoppers = {}

\* The stages of a stop(), and those that a termination ends.
InStop == {"join", "shutdown", "grace", "stop"}

\* How an await may settle.
Settlings == {"no", "resolved", "rejected"}

-----------------------------------------------------------------------------
(* What ownership rests on *)

\* The owned child lives and nobody else does, a tree that is killed is on record, a request
\* that waits for initialize belongs to the owned child, and what was launched is a process.
OwnershipAgrees ==
    /\ child # NoChild => process[child] = "live"
    /\ NoOrphans
    /\ (treeTermination = "pending") = (killsTrees /\ termination # "none")
    /\ \A o \in Operations :
          at[o] = "init" => launched[o].child # NoChild
                            /\ (woken[o] = "no" => child = launched[o].child)

\* Before the first launch nothing has happened.
NothingBeforeBoot ==
    generation = 0 =>
       /\ child = NoChild /\ termination = "none" /\ treeTermination = "none" /\ ~restartTimer
       /\ \A o \in Operations : at[o] = "idle"

\* The timer runs only while no child is owned, so no launch finds one to terminate, and not
\* while the agent is stopped by hand.
TimerNeedsNoChild ==
    /\ restartTimer => child = NoChild /\ ~manuallyStopped
    /\ \A o \in Operations : at[o] # "launch"

\* While restart() is in its stop() the agent is stopped by hand, and when that is about to
\* return nobody owns a child or terminates one.
RestartsComeAlone ==
    /\ \A o \in Operations : at[o] = "start" => o \in Restarters
    /\ \A r \in Restarters :
          /\ at[r] \in InStop \cup {"start"} => manuallyStopped
          /\ at[r] = "start" => woken[r] = "resolved"
          /\ at[r] \in {"join", "stop", "start"} /\ woken[r] = "resolved" =>
                child = NoChild /\ termination = "none"

\* What is terminated lives and is owned, or has exited and left its tree behind.
TargetIsOwned ==
    /\ termination # "none" =>
          /\ target \in Children
          /\ ~killsTrees => treeKilled
          /\ process[target] # "live" => process[target] = "gone" /\ child = NoChild
    /\ termination = "waiting" /\ process[target] = "gone" => ~treeKilled
    /\ termination = "exited" => process[target] = "gone"

\* A stop() that was woken with success is not about to report success over a child, but for
\* one that restart() has spawned since.
StopsAreEarned ==
    \A o \in Operations :
       at[o] = "stop" /\ woken[o] = "resolved" =>
          /\ treeTermination # "failed"
          /\ child # NoChild => ~manuallyStopped

\* A termination is awaited; and the agent is reported as stopped over a child only while
\* someone goes on to stop it, or after it outlived its signals.
StopsAreHonest ==
    /\ termination # "none" => Waiting # {}
    /\ treeTermination = "failed" /\ child # NoChild => state \in {"error", "ready"}
    /\ /\ manuallyStopped /\ state = "stopped" /\ child # NoChild
       /\ treeTermination = "none" /\ termination = "none"
       => Killed \/ \E o \in Operations : at[o] \in {"shutdown", "grace"}

\* The inductive invariant of ownership.
OwnedInv ==
    /\ TypeOK /\ OwnershipAgrees /\ NothingBeforeBoot /\ TimerNeedsNoChild
    /\ RestartsComeAlone /\ TargetIsOwned /\ StopsAreEarned /\ StopsAreHonest

-----------------------------------------------------------------------------
(* What recovery rests on *)

\* The operations that spawn a child when they are woken by a termination that succeeds.
Relaunch(o) == at[o] \in {"launch", "join", "stop"}

\* One of them waits for it.
Awaited == \E o \in Operations : Relaunch(o) /\ woken[o] = "no"

\* Somebody was woken to launch and has not spawned yet.
LaunchIsWoken == \E l \in Operations : at[l] = "launch" /\ woken[l] = "resolved"

\* One of them was woken, or stop() has returned inside restart().
OnItsWay ==
    \E o \in Operations : (Relaunch(o) \/ at[o] = "start") /\ woken[o] = "resolved"

\* What was launched is a process; a request that was rejected over a termination belongs to
\* a child that is gone.
LaunchesAreReal ==
    \A o \in Operations :
       at[o] = "init" =>
          /\ launched[o].child \in Children
          /\ process[launched[o].child] # "none"
          /\ woken[o] = "rejected" /\ LaunchIsWoken => child # launched[o].child

\* Where signals are used: a child is terminated by someone who starts another, unless it is
\* still the one that is owned.
TargetIsReplaced ==
    ~killsTrees =>
       /\ treeTermination = "none"
       /\ termination # "none" => treeKilled /\ target \in Children
       /\ termination = "exited" =>
             /\ process[target] = "gone"
             /\ \A o \in Operations : /\ at[o] # "start"
                                      /\ at[o] \in Terminations => woken[o] = "no"
             /\ child # NoChild => Awaited
       /\ termination = "waiting" /\ (child # target \/ LaunchIsWoken) => Awaited

\* Where signals are used: without a child, and unless it was stopped or given up, the timer
\* runs or a launch is on its way.
ChildComesBack ==
    /\ ~killsTrees /\ child = NoChild
    /\ ~stopping /\ ~manuallyStopped /\ ~incompatible
    /\ restartAttempt < MaxAttempts
    => restartTimer \/ OnItsWay

\* Only restart() is in a stop(), and before the first launch nothing has happened.
CallsAreRestarts ==
    /\ child # NoChild => process[child] = "live"
    /\ \A o \in Operations :
          /\ at[o] \in InStop \cup {"start"} => o \in Restarters
          /\ at[o] = "start" => woken[o] = "resolved"
    /\ generation = 0 =>
          child = NoChild /\ termination = "none" /\ \A o \in Operations : at[o] = "idle"

\* The inductive invariant of recovery.
RecoveryInv ==
    TypeOK /\ CallsAreRestarts /\ LaunchesAreReal /\ TargetIsReplaced /\ ChildComesBack

-----------------------------------------------------------------------------
(* Types *)

\* A restart, a stop, a recovery and a failed connection are operations.
LEMMA OperationSets ==
    /\ Boot \in Operations /\ Stoppers \subseteq Operations /\ Restarters \subseteq Operations
    /\ Recoveries \subseteq Operations /\ Failures \subseteq Operations
  BY DEF Operations

\* A termination that is called for keeps the types of what it changes.
LEMMA TerminateTypes ==
    ASSUME TypeOK, NEW o \in Operations, NEW a \in Awaits,
           NEW others \in [Operations -> Settlings], TerminateChild(o, a, others)
    PROVE  /\ at' \in [Operations -> Awaits] /\ woken' \in [Operations -> Settlings]
           /\ treeTermination' \in {"none", "pending", "failed"}
           /\ termination' \in {"none", "waiting", "exited"}
           /\ target' \in Children \cup {NoChild} /\ treeKilled' \in BOOLEAN
<1>1. at \in [Operations -> Awaits]
  BY DEF TypeOK
<1>2. at' \in [Operations -> Awaits]
  BY <1>1 DEF TerminateChild
<1>3. woken' \in [Operations -> Settlings]
  BY DEF TerminateChild, Settlings
<1> QED
  BY <1>2, <1>3 DEF TypeOK, TerminateChild, killing

\* Recovery that is scheduled keeps the types of what it changes.
LEMMA ScheduleTypes ==
    ASSUME AgentProcessAssumption, TypeOK, ScheduleRecovery \/ UNCHANGED recovery
    PROVE  restartTimer' \in BOOLEAN /\ restartAttempt' \in 0..MaxAttempts
<1>1. restartAttempt \in 0..MaxAttempts /\ restartTimer \in BOOLEAN /\ MaxAttempts \in Nat
  BY DEF TypeOK, AgentProcessAssumption
<1>2. CASE UNCHANGED recovery
  BY <1>1, <1>2 DEF recovery
<1>3. CASE ScheduleRecovery
  <2>1. MayRecover \in BOOLEAN
    BY DEF MayRecover
  <2>2. restartTimer' \in BOOLEAN
    BY <1>1, <1>3, <2>1 DEF ScheduleRecovery
  <2>3. restartAttempt' \in 0..MaxAttempts
    BY <1>1, <1>3 DEF ScheduleRecovery, MayRecover
  <2> QED
    BY <2>2, <2>3
<1> QED
  BY <1>2, <1>3

\* The operations as an exit and a rejection of the requests leave them.
LEMMA SettlingTypes ==
    ASSUME TypeOK
    PROVE  /\ woken \in [Operations -> Settlings] /\ Rejected \in [Operations -> Settlings]
           /\ AfterExit \in [Operations -> Settlings]
<1>1. woken \in [Operations -> Settlings]
  BY DEF TypeOK, Settlings
<1>2. Rejected \in [Operations -> Settlings]
  BY <1>1 DEF Rejected, Settlings
<1>3. AfterExit \in [Operations -> Settlings]
  BY <1>2 DEF AfterExit, Settlings
<1> QED
  BY <1>1, <1>2, <1>3

\* A launch keeps the types.
LEMMA SpawnTypes ==
    ASSUME TypeOK, NEW o \in Operations, Spawn(o),
           manuallyStopped' \in BOOLEAN, incompatible' \in BOOLEAN,
           restartTimer' \in BOOLEAN, restartAttempt' \in 0..MaxAttempts
    PROVE  TypeOK'
<1>1. PICK p \in Children :
        /\ process' = [process EXCEPT ![p] = "live"] /\ child' = p
        /\ generation' = generation + 1
        /\ launched' = [launched EXCEPT ![o] = [child |-> p, generation |-> generation + 1]]
        /\ state' = "starting" /\ stopping' = FALSE
        /\ at' = [at EXCEPT ![o] = "init"] /\ woken' = [woken EXCEPT ![o] = "no"]
        /\ UNCHANGED <<killsTrees, treeTermination, termination, target, treeKilled, seen>>
  BY DEF Spawn, killing
<1>2. generation' \in Nat /\ launched' \in [Operations -> [child : Children \cup {NoChild},
                                                           generation : Nat]]
  BY <1>1 DEF TypeOK
<1>3. /\ process' \in [Children -> {"none", "live", "gone"}]
      /\ at' \in [Operations -> Awaits] /\ woken' \in [Operations -> Settlings]
  BY <1>1 DEF TypeOK, Awaits, Settlings
<1> QED
  BY <1>1, <1>2, <1>3 DEF TypeOK, Settlings

\* launch() up to its first await keeps the types.
LEMMA LaunchTypes ==
    ASSUME TypeOK, NEW o \in Operations, Launch(o),
           manuallyStopped' \in BOOLEAN, incompatible' \in BOOLEAN,
           restartTimer' \in BOOLEAN, restartAttempt' \in 0..MaxAttempts
    PROVE  TypeOK'
<1>1. CASE Spawn(o)
  BY <1>1, SpawnTypes
<1>2. CASE /\ Return(o)
           /\ UNCHANGED <<killsTrees, process, child, generation, state, stopping,
                          killing, launched, seen>>
  BY <1>2 DEF TypeOK, Return, killing, Awaits
<1>3. CASE /\ TerminateChild(o, "launch", woken)
           /\ UNCHANGED <<killsTrees, process, child, generation, state, stopping,
                          launched, seen>>
  <2>1. "launch" \in Awaits
    BY DEF Awaits
  <2> QED
    BY <1>3, <2>1, TerminateTypes, SettlingTypes DEF TypeOK, Settlings
<1> QED
  BY <1>1, <1>2, <1>3 DEF Launch

\* The end of launch() keeps the types.
LEMMA LaunchFailsTypes ==
    ASSUME AgentProcessAssumption, TypeOK, NEW o \in Operations, LaunchFails(o),
           incompatible' \in BOOLEAN
    PROVE  TypeOK'
<1>1. restartTimer' \in BOOLEAN /\ restartAttempt' \in 0..MaxAttempts
  BY ScheduleTypes DEF LaunchFails
<1>2. state' \in {"stopped", "starting", "ready", "error"}
  BY DEF LaunchFails, TypeOK
<1>3. at' \in [Operations -> Awaits] /\ woken' \in [Operations -> Settlings]
  BY DEF LaunchFails, Return, TypeOK, Awaits, Settlings
<1> QED
  BY <1>1, <1>2, <1>3 DEF LaunchFails, TypeOK, killing, Settlings

\* What stop() does once no termination is running keeps the types.
LEMMA StopTypes ==
    ASSUME TypeOK, NEW o \in Operations, StopOwnedChild(o) \/ StopReturns(o) \/ Return(o)
    PROVE  at' \in [Operations -> Awaits] /\ woken' \in [Operations -> Settlings]
  BY DEF StopOwnedChild, StopReturns, Return, TypeOK, Awaits, Settlings

\* The steps of launch() keep the types.
LEMMA LaunchingTypes ==
    ASSUME AgentProcessAssumption, TypeOK, NEW o \in Operations,
           \/ LifecycleStarts \/ RestartStarts(o) \/ LaunchTerminated(o) \/ Initialized(o)
           \/ InitializeFails(o) \/ CleanedUp(o) \/ (o \in Recoveries /\ TimerFires(o))
    PROVE  TypeOK'
<1> USE OperationSets
<1>1. /\ restartTimer \in BOOLEAN /\ restartAttempt \in 0..MaxAttempts /\ 0 \in 0..MaxAttempts
      /\ manuallyStopped \in BOOLEAN /\ incompatible \in BOOLEAN
  BY DEF TypeOK, AgentProcessAssumption
<1>2. CASE LifecycleStarts
  BY <1>1, <1>2, LaunchTypes DEF LifecycleStarts, Start, recovery
<1>3. CASE RestartStarts(o)
  BY <1>1, <1>3, LaunchTypes DEF RestartStarts, Start, recovery
<1>4. CASE LaunchTerminated(o)
  <2>1. CASE Spawn(o)
    BY <1>1, <1>4, <2>1, SpawnTypes DEF LaunchTerminated, recovery
  <2>2. CASE ~Spawn(o)
    BY <1>4, <2>2 DEF LaunchTerminated, Return, TypeOK, killing, recovery, Awaits
  <2> QED
    BY <2>1, <2>2
<1>5. CASE Initialized(o)
  BY <1>1, <1>5 DEF Initialized, Return, TypeOK, flags, killing, Awaits
<1>6. CASE InitializeFails(o)
  <2>1. incompatible' \in BOOLEAN
    BY <1>1, <1>6 DEF InitializeFails
  <2>2. CASE LaunchFails(o)
    BY <2>1, <2>2, LaunchFailsTypes
  <2>3. CASE ~LaunchFails(o)
    <3>1. "cleanup" \in Awaits
      BY DEF Awaits
    <3> QED
      BY <1>6, <2>1, <2>3, <3>1, TerminateTypes, SettlingTypes
         DEF InitializeFails, TypeOK, recovery, Settlings
  <2> QED
    BY <2>2, <2>3
<1>7. CASE CleanedUp(o)
  <2>1. incompatible' \in BOOLEAN
    BY <1>1, <1>7 DEF CleanedUp
  <2>2. CASE LaunchFails(o)
    BY <2>1, <2>2, LaunchFailsTypes
  <2>3. CASE ~LaunchFails(o)
    BY <1>7, <2>3 DEF CleanedUp, Return, TypeOK, recovery, killing, Awaits
  <2> QED
    BY <2>2, <2>3
<1>8. CASE o \in Recoveries /\ TimerFires(o)
  <2>1. CASE manuallyStopped \/ incompatible
    BY <1>8, <2>1 DEF TimerFires, TypeOK, killing, calls
  <2>2. CASE ~(manuallyStopped \/ incompatible)
    BY <1>1, <1>8, <2>2, LaunchTypes DEF TimerFires
  <2> QED
    BY <2>1, <2>2
<1> QED
  BY <1>2, <1>3, <1>4, <1>5, <1>6, <1>7, <1>8

\* The steps of stop() keep the types.
LEMMA StoppingTypes ==
    ASSUME AgentProcessAssumption, TypeOK, NEW o \in Operations,
           \/ StopCalled(o) \/ StopJoined(o) \/ ShutdownAnswered(o) \/ ShutdownOver(o)
           \/ StopTerminated(o)
    PROVE  TypeOK'
<1>1. 0 \in 0..MaxAttempts
  BY DEF AgentProcessAssumption
<1>2. CASE StopCalled(o)
  <2>1. at' \in [Operations -> Awaits] /\ woken' \in [Operations -> Settlings]
    BY <1>2, StopTypes, SettlingTypes DEF StopCalled, TypeOK, Awaits
  <2>2. state' \in {"stopped", "starting", "ready", "error"} /\ stopping' \in BOOLEAN
    BY <1>2 DEF StopCalled, StopOwnedChild, TypeOK
  <2> QED
    BY <1>1, <1>2, <2>1, <2>2 DEF StopCalled, TypeOK, killing, Settlings
<1>3. CASE StopJoined(o)
  <2>1. at' \in [Operations -> Awaits] /\ woken' \in [Operations -> Settlings]
    BY <1>3, StopTypes DEF StopJoined
  <2>2. state' \in {"stopped", "starting", "ready", "error"} /\ stopping' \in BOOLEAN
    BY <1>3 DEF StopJoined, StopOwnedChild, TypeOK
  <2> QED
    BY <1>3, <2>1, <2>2 DEF StopJoined, TypeOK, killing, recovery, Settlings
<1>4. CASE ShutdownAnswered(o)
  BY <1>4 DEF ShutdownAnswered, TypeOK, flags, recovery, killing, Awaits
<1>5. CASE ShutdownOver(o)
  <2>1. "stop" \in Awaits
    BY DEF Awaits
  <2> QED
    BY <1>5, <2>1, TerminateTypes, SettlingTypes
       DEF ShutdownOver, TypeOK, flags, recovery, Settlings
<1>6. CASE StopTerminated(o)
  <2>1. at' \in [Operations -> Awaits] /\ woken' \in [Operations -> Settlings]
    BY <1>6, StopTypes DEF StopTerminated
  <2>2. state' \in {"stopped", "starting", "ready", "error"} /\ stopping' \in BOOLEAN
    BY <1>6 DEF StopTerminated, TypeOK
  <2> QED
    BY <1>6, <2>1, <2>2 DEF StopTerminated, TypeOK, killing, recovery, Settlings
<1> QED
  BY <1>2, <1>3, <1>4, <1>5, <1>6

\* The end of a child, of a termination or of a connection keeps the types.
LEMMA EndingTypes ==
    ASSUME AgentProcessAssumption, TypeOK,
           \/ \E p \in Children : ChildExits(p)
           \/ TreeKilled \/ TerminationSucceeds \/ TerminationFails \/ SignalFails
           \/ \E f \in Failures : FailConnection(f) \/ ConnectionFailed(f)
    PROVE  TypeOK'
<1>1. ASSUME NEW p \in Children, ChildExits(p)
      PROVE  TypeOK'
  <2>1. restartTimer' \in BOOLEAN /\ restartAttempt' \in 0..MaxAttempts
    BY <1>1, ScheduleTypes DEF ChildExits, HandleExit, recovery
  <2>2. woken' \in [Operations -> Settlings]
    BY <1>1, SettlingTypes DEF ChildExits, HandleExit
  <2>3. /\ child' \in Children \cup {NoChild} /\ generation' \in Nat
        /\ state' \in {"stopped", "starting", "ready", "error"}
    BY <1>1 DEF ChildExits, HandleExit, TypeOK
  <2>4. /\ process' \in [Children -> {"none", "live", "gone"}]
        /\ termination' \in {"none", "waiting", "exited"}
    BY <1>1 DEF ChildExits, TypeOK
  <2> QED
    BY <1>1, <2>1, <2>2, <2>3, <2>4 DEF ChildExits, TypeOK, flags, Settlings
<1>2. CASE TreeKilled
  BY <1>2 DEF TreeKilled, TypeOK, flags, recovery, calls
<1>3. CASE TerminationSucceeds
  <2>1. woken' \in [Operations -> Settlings]
    BY <1>3, SettlingTypes DEF TerminationSucceeds, Settlings
  <2> QED
    BY <1>3, <2>1 DEF TerminationSucceeds, TypeOK, flags, recovery, Settlings
<1>4. CASE TerminationFails
  <2>1. woken' \in [Operations -> Settlings]
    BY <1>4, SettlingTypes DEF TerminationFails, Settlings
  <2> QED
    BY <1>4, <2>1 DEF TerminationFails, TypeOK, flags, recovery, Settlings
<1>5. CASE SignalFails
  BY <1>5, SettlingTypes DEF SignalFails, TypeOK, flags, recovery, killing, Settlings
<1>6. ASSUME NEW f \in Failures, FailConnection(f)
      PROVE  TypeOK'
  <2>1. "fail" \in Awaits /\ f \in Operations
    BY OperationSets DEF Awaits
  <2> QED
    BY <1>6, <2>1, TerminateTypes, SettlingTypes
       DEF FailConnection, TypeOK, flags, recovery, Settlings
<1>7. ASSUME NEW f \in Failures, ConnectionFailed(f)
      PROVE  TypeOK'
  <2>1. restartTimer' \in BOOLEAN /\ restartAttempt' \in 0..MaxAttempts
    BY <1>7, ScheduleTypes DEF ConnectionFailed
  <2> QED
    BY <1>7, <2>1, OperationSets DEF ConnectionFailed, Return, TypeOK, flags, killing, Awaits
<1> QED
  BY <1>1, <1>2, <1>3, <1>4, <1>5, <1>6, <1>7

\* Every step keeps the types.
LEMMA NextKeepsTypes ==
    ASSUME AgentProcessAssumption, TypeOK, Next
    PROVE  TypeOK'
<1>1. Boot \in Operations
  BY OperationSets
<1> QED
  BY <1>1, LaunchingTypes, StoppingTypes, EndingTypes, OperationSets DEF Next

-----------------------------------------------------------------------------
(* Ownership, step by step *)

\* Nothing has happened.
LEMMA InitOwned ==
    ASSUME AgentProcessAssumption, Init
    PROVE  OwnedInv
<1>1. TypeOK
  <2>1. /\ launched \in [Operations -> [child : Children \cup {NoChild}, generation : Nat]]
        /\ seen \in [Failures -> Nat]
    BY DEF Init
  <2>2. at \in [Operations -> Awaits] /\ woken \in [Operations -> {"no", "resolved", "rejected"}]
    BY DEF Init, Awaits
  <2>3. process \in [Children -> {"none", "live", "gone"}] /\ restartAttempt \in 0..MaxAttempts
    BY DEF Init, AgentProcessAssumption
  <2> QED
    BY <2>1, <2>2, <2>3 DEF Init, TypeOK
<1>2. OwnershipAgrees /\ NothingBeforeBoot /\ TimerNeedsNoChild /\ TargetIsOwned
  BY DEF Init, OwnershipAgrees, NoOrphans, Live, NothingBeforeBoot, TimerNeedsNoChild,
         TargetIsOwned
<1>3. RestartsComeAlone /\ StopsAreEarned /\ StopsAreHonest
  BY OperationSets DEF Init, RestartsComeAlone, StopsAreEarned, StopsAreHonest, InStop
<1> QED
  BY <1>1, <1>2, <1>3 DEF OwnedInv

\* A child that is spawned when nobody owns one, nobody terminates one, no timer runs and
\* nobody restarts.
LEMMA SpawnOwned ==
    ASSUME OwnedInv, TypeOK', NEW o \in Operations, Spawn(o),
           child = NoChild, treeTermination = "none", termination = "none",
           ~manuallyStopped', ~restartTimer',
           \A r \in Restarters : r # o => at[r] \notin InStop \cup {"start"}
    PROVE  OwnedInv'
<1>1. PICK p \in Children :
        /\ process[p] = "none" /\ process' = [process EXCEPT ![p] = "live"] /\ child' = p
        /\ generation' = generation + 1
        /\ launched' = [launched EXCEPT ![o] = [child |-> p, generation |-> generation + 1]]
        /\ state' = "starting"
        /\ at' = [at EXCEPT ![o] = "init"] /\ woken' = [woken EXCEPT ![o] = "no"]
        /\ UNCHANGED <<killsTrees, treeTermination, termination, target, treeKilled>>
  BY DEF Spawn, killing
<1>2. /\ generation' # 0
      /\ \A q \in Children : q # NoChild
  BY <1>1 DEF OwnedInv, TypeOK, Children, NoChild
<1>3. \A x \in Operations : /\ at'[x] = IF x = o THEN "init" ELSE at[x]
                            /\ woken'[x] = IF x = o THEN "no" ELSE woken[x]
                            /\ launched'[x].child = IF x = o THEN p ELSE launched[x].child
  BY <1>1 DEF OwnedInv, TypeOK
<1>4. \A q \in Children : process'[q] = IF q = p THEN "live" ELSE process[q]
  BY <1>1 DEF OwnedInv, TypeOK
<1>5. OwnershipAgrees'
  <2>1. \A q \in Children : process[q] # "live"
    BY <1>2 DEF OwnedInv, OwnershipAgrees, NoOrphans, Live
  <2>2. NoOrphans'
    BY <1>1, <1>4, <2>1 DEF NoOrphans, Live
  <2>3. \A x \in Operations : at[x] = "init" => woken[x] # "no"
    BY DEF OwnedInv, OwnershipAgrees
  <2> QED
    BY <1>1, <1>2, <1>3, <1>4, <2>2, <2>3 DEF OwnedInv, OwnershipAgrees
<1>6. NothingBeforeBoot' /\ TimerNeedsNoChild'
  BY <1>2, <1>3 DEF OwnedInv, NothingBeforeBoot, TimerNeedsNoChild
<1>7. RestartsComeAlone'
  BY <1>3, OperationSets DEF OwnedInv, RestartsComeAlone, InStop
<1>8. TargetIsOwned' /\ StopsAreEarned' /\ StopsAreHonest'
  BY <1>1, <1>3 DEF OwnedInv, TargetIsOwned, StopsAreEarned, StopsAreHonest
<1> QED
  BY <1>5, <1>6, <1>7, <1>8 DEF OwnedInv

\* A termination that is called for, by a stop(), a clean-up or a failed connection.
LEMMA TerminateOwned ==
    ASSUME OwnedInv, TypeOK', NEW o \in Operations, NEW a \in {"stop", "cleanup", "fail"},
           NEW others \in [Operations -> Settlings], TerminateChild(o, a, others),
           \A x \in Operations : \/ others[x] = woken[x]
                                 \/ at[x] \in {"shutdown", "init"} /\ others[x] = "rejected",
           at[o] = "idle" => child # NoChild,
           o \in Restarters /\ a = "stop" => at[o] \in InStop,
           at[o] \in Terminations => woken[o] # "no",
           state' \in {state, "error"},
           UNCHANGED <<killsTrees, process, child, generation, manuallyStopped, restartTimer,
                       launched>>
    PROVE  OwnedInv'
<1>1. TypeOK
  BY DEF OwnedInv
<1>2. \A x \in Operations : /\ at'[x] = IF x = o THEN a ELSE at[x]
                            /\ x # o => woken'[x] = others[x]
  BY <1>1 DEF TypeOK, TerminateChild
<1>3. CASE termination = "none" /\ treeTermination = "none" /\ child # NoChild
  <2>1. /\ woken'[o] = "no" /\ termination' = "waiting" /\ target' = child
        /\ treeTermination' = IF killsTrees THEN "pending" ELSE "none"
        /\ treeKilled' = ~killsTrees
    BY <1>3 DEF TerminateChild, Settlings
  <2>2. OwnershipAgrees'
    BY <1>2, <1>3, <2>1 DEF OwnedInv, OwnershipAgrees, NoOrphans, Live
  <2>3. NothingBeforeBoot' /\ TimerNeedsNoChild'
    BY <1>2, <1>3 DEF OwnedInv, NothingBeforeBoot, TimerNeedsNoChild
  <2>4. RestartsComeAlone'
    BY <1>2, <1>3, <2>1, OperationSets DEF OwnedInv, RestartsComeAlone, InStop
  <2>5. TargetIsOwned'
    BY <1>1, <1>3, <2>1 DEF OwnedInv, TypeOK, OwnershipAgrees, TargetIsOwned
  <2>6. StopsAreEarned'
    BY <1>2, <2>1 DEF OwnedInv, StopsAreEarned
  <2>7. StopsAreHonest'
    <3>1. o \in Waiting'
      BY <1>2, <2>1 DEF Waiting, Terminations
    <3> QED
      BY <2>1, <3>1 DEF StopsAreHonest
  <2> QED
    BY <2>2, <2>3, <2>4, <2>5, <2>6, <2>7 DEF OwnedInv
<1>4. CASE ~(termination = "none" /\ treeTermination = "none" /\ child # NoChild)
  <2>1. /\ UNCHANGED <<treeTermination, termination, target, treeKilled>>
        /\ termination # "none" => woken'[o] = "no"
        /\ termination = "none" /\ treeTermination # "none" => woken'[o] = "rejected"
        /\ termination = "none" /\ treeTermination = "none" => woken'[o] = "resolved"
    BY <1>4 DEF TerminateChild, killing
  <2>2. OwnershipAgrees'
    BY <1>2, <2>1 DEF OwnedInv, OwnershipAgrees, NoOrphans, Live
  <2>3. NothingBeforeBoot' /\ TimerNeedsNoChild'
    BY <1>2, <2>1 DEF OwnedInv, NothingBeforeBoot, TimerNeedsNoChild
  <2>4. RestartsComeAlone'
    BY <1>2, <1>4, <2>1, OperationSets DEF OwnedInv, RestartsComeAlone, InStop
  <2>5. TargetIsOwned'
    BY <2>1 DEF OwnedInv, TargetIsOwned
  <2>6. StopsAreEarned'
    BY <1>2, <1>4, <2>1 DEF OwnedInv, StopsAreEarned
  <2>7. StopsAreHonest'
    <3>1. termination # "none" => o \in Waiting'
      BY <1>2, <2>1 DEF Waiting, Terminations
    <3> QED
      BY <1>4, <2>1, <3>1 DEF OwnedInv, StopsAreHonest, Killed
  <2> QED
    BY <2>2, <2>3, <2>4, <2>5, <2>6, <2>7 DEF OwnedInv
<1> QED
  BY <1>3, <1>4

\* One operation goes on and nobody launches, terminates or ends anything.
LEMMA MoveOwned ==
    ASSUME OwnedInv, TypeOK', NEW o \in Operations, generation # 0,
           UNCHANGED <<killsTrees, process, child, generation, treeTermination, termination,
                       target, treeKilled, launched>>,
           \A x \in Operations : x # o => at'[x] = at[x] /\ woken'[x] = woken[x],
           at'[o] \notin {"launch", "init", "stop"},
           at[o] \in Terminations => woken[o] # "no",
           restartTimer' => child = NoChild /\ ~manuallyStopped',
           manuallyStopped => manuallyStopped' \/ \A r \in Restarters : r = o,
           manuallyStopped' => manuallyStopped \/ \A x \in Operations : woken[x] = "no",
           o \in Restarters /\ at'[o] \in InStop \cup {"start"} => manuallyStopped',
           at'[o] = "start" => o \in Restarters /\ woken'[o] = "resolved",
           o \in Restarters /\ at'[o] \in {"join", "start"} /\ woken'[o] = "resolved" =>
              child = NoChild /\ termination = "none",
           treeTermination = "failed" /\ child # NoChild =>
              state' = state \/ state' \in {"error", "ready"},
           \/ child = NoChild
           \/ at'[o] \in {"shutdown", "grace"}
           \/ treeTermination # "none"
           \/ termination # "none"
           \/ ~(manuallyStopped' /\ state' = "stopped")
           \/ manuallyStopped /\ state = "stopped" /\ at[o] \notin {"shutdown", "grace"}
    PROVE  OwnedInv'
<1>1. OwnershipAgrees'
  BY DEF OwnedInv, OwnershipAgrees, NoOrphans, Live
<1>2. NothingBeforeBoot' /\ TimerNeedsNoChild'
  BY DEF OwnedInv, NothingBeforeBoot, TimerNeedsNoChild
<1>3. RestartsComeAlone'
  BY OperationSets DEF OwnedInv, RestartsComeAlone, InStop
<1>4. TargetIsOwned'
  BY DEF OwnedInv, TargetIsOwned
<1>5. StopsAreEarned'
  BY DEF OwnedInv, StopsAreEarned
<1>6. StopsAreHonest'
  <2>1. Waiting \subseteq Waiting'
    BY DEF Waiting
  <2> QED
    BY <2>1 DEF OwnedInv, StopsAreHonest, Killed
<1> QED
  BY <1>1, <1>2, <1>3, <1>4, <1>5, <1>6 DEF OwnedInv

\* An operation that is under way follows the first launch.
LEMMA AfterBoot ==
    ASSUME OwnedInv, \/ \E o \in Operations : at[o] # "idle"
                     \/ child # NoChild \/ termination # "none" \/ restartTimer
    PROVE  generation # 0
  BY DEF OwnedInv, NothingBeforeBoot

\* What returning does.
LEMMA Returning ==
    ASSUME TypeOK, NEW o \in Operations, Return(o)
    PROVE  /\ at'[o] = "idle" /\ woken'[o] = "no"
           /\ \A x \in Operations : x # o => at'[x] = at[x] /\ woken'[x] = woken[x]
  BY DEF TypeOK, Return

\* Whoever finds no child and no tree finds no termination, unless one was just woken.
LEMMA NothingToTerminate ==
    ASSUME OwnedInv, child = NoChild, treeTermination = "none", termination # "exited"
    PROVE  termination = "none"
<1>1. SUFFICES ASSUME termination = "waiting"
               PROVE  FALSE
  BY DEF OwnedInv, TypeOK
<1>2. target \in Children /\ treeKilled
  BY <1>1 DEF OwnedInv, TargetIsOwned, OwnershipAgrees, TypeOK
<1>3. process[target] # "live"
  BY <1>2 DEF OwnedInv, OwnershipAgrees, NoOrphans, Live, Children, NoChild
<1> QED
  BY <1>1, <1>2, <1>3 DEF OwnedInv, TargetIsOwned

\* The end of launch() after a failure.
LEMMA LaunchFailsOwned ==
    ASSUME OwnedInv, TypeOK', NEW o \in Operations, LaunchFails(o),
           at[o] \in {"init", "cleanup"}, at[o] = "cleanup" => woken[o] # "no"
    PROVE  OwnedInv'
<1>1. TypeOK
  BY DEF OwnedInv
<1>2. /\ at'[o] = "idle" /\ woken'[o] = "no"
      /\ \A x \in Operations : x # o => at'[x] = at[x] /\ woken'[x] = woken[x]
  BY <1>1, Returning DEF LaunchFails
<1>3. /\ generation # 0
      /\ UNCHANGED <<killsTrees, process, child, generation, manuallyStopped, treeTermination,
                     termination, target, treeKilled, launched>>
  BY AfterBoot DEF LaunchFails, killing
<1>4. restartTimer' => child = NoChild /\ ~manuallyStopped'
  <2>1. restartTimer => child = NoChild /\ ~manuallyStopped
    BY DEF OwnedInv, TimerNeedsNoChild
  <2>2. CASE UNCHANGED recovery
    BY <1>3, <2>1, <2>2 DEF recovery
  <2>3. CASE child = NoChild /\ ScheduleRecovery
    BY <1>3, <2>1, <2>3 DEF ScheduleRecovery, MayRecover
  <2> QED
    BY <2>2, <2>3 DEF LaunchFails
<1>5. child # NoChild => state' = state
  BY DEF LaunchFails
<1>6. at[o] \in Terminations => woken[o] # "no"
  BY DEF Terminations
<1> QED
  BY <1>2, <1>3, <1>4, <1>5, <1>6, MoveOwned DEF InStop

\* The steps of launch().
LEMMA LaunchingOwned ==
    ASSUME AgentProcessAssumption, OneRestarter, OwnedInv, TypeOK', NEW o \in Operations,
           \/ LifecycleStarts \/ RestartStarts(o) \/ LaunchTerminated(o) \/ Initialized(o)
           \/ InitializeFails(o) \/ CleanedUp(o) \/ (o \in Recoveries /\ TimerFires(o))
    PROVE  OwnedInv'
<1> USE OperationSets
<1>1. TypeOK
  BY DEF OwnedInv
<1>2. CASE LifecycleStarts
  <2>1. /\ child = NoChild /\ treeTermination = "none" /\ termination = "none"
        /\ ~restartTimer /\ \A x \in Operations : at[x] = "idle"
    BY <1>2 DEF LifecycleStarts, OwnedInv, NothingBeforeBoot
  <2>2. Spawn(Boot) /\ ~manuallyStopped' /\ ~restartTimer'
    BY <1>2, <2>1 DEF LifecycleStarts, Start, Launch, IsReady, recovery
  <2> QED
    BY <2>1, <2>2, SpawnOwned DEF InStop
<1>3. CASE RestartStarts(o)
  <2>1. /\ o \in Restarters /\ at[o] = "start" /\ woken[o] = "resolved"
        /\ child = NoChild /\ termination = "none" /\ ~restartTimer
    BY <1>3 DEF RestartStarts, OwnedInv, RestartsComeAlone, TimerNeedsNoChild, InStop
  <2>2. /\ ~manuallyStopped' /\ ~restartTimer'
        /\ \A r \in Restarters : r = o
    BY <1>3, <2>1 DEF RestartStarts, Start, recovery, OneRestarter
  <2>3. CASE treeTermination = "none"
    <3>1. Spawn(o)
      BY <1>3, <2>1, <2>3 DEF RestartStarts, Start, Launch, IsReady
    <3> QED
      BY <2>1, <2>2, <2>3, <3>1, SpawnOwned
  <2>4. CASE treeTermination # "none"
    <3>1. /\ Return(o) /\ state' = state
          /\ UNCHANGED <<killsTrees, process, child, generation, treeTermination, termination,
                         target, treeKilled, launched>>
      BY <1>3, <2>4 DEF RestartStarts, Start, Launch, Spawn, killing
    <3>2. /\ at'[o] = "idle" /\ woken'[o] = "no"
          /\ \A x \in Operations : x # o => at'[x] = at[x] /\ woken'[x] = woken[x]
      BY <1>1, <3>1, Returning
    <3>3. generation # 0
      BY <2>1, AfterBoot
    <3>4. at[o] \notin Terminations
      BY <2>1 DEF Terminations
    <3> QED
      BY <2>1, <2>2, <3>1, <3>2, <3>3, <3>4, MoveOwned DEF InStop
  <2> QED
    BY <2>3, <2>4
<1>4. CASE LaunchTerminated(o)
  BY <1>4 DEF LaunchTerminated, OwnedInv, TimerNeedsNoChild
<1>5. CASE Initialized(o)
  <2>1. /\ at[o] = "init" /\ at'[o] = "idle" /\ woken'[o] = "no"
        /\ \A x \in Operations : x # o => at'[x] = at[x] /\ woken'[x] = woken[x]
    BY <1>1, <1>5, Returning DEF Initialized
  <2>2. /\ generation # 0
        /\ UNCHANGED <<killsTrees, process, child, generation, manuallyStopped, restartTimer,
                       treeTermination, termination, target, treeKilled, launched>>
    BY <1>5, AfterBoot DEF Initialized, flags, killing
  <2>3. state' = "ready" /\ at[o] \notin Terminations
    BY <1>5, <2>1 DEF Initialized, Terminations
  <2>4. restartTimer => child = NoChild /\ ~manuallyStopped
    BY DEF OwnedInv, TimerNeedsNoChild
  <2> QED
    BY <2>1, <2>2, <2>3, <2>4, MoveOwned DEF InStop
<1>6. CASE InitializeFails(o)
  <2>1. CASE LaunchFails(o)
    <3>1. at[o] = "init"
      BY <1>6 DEF InitializeFails
    <3> QED
      BY <2>1, <3>1, LaunchFailsOwned
  <2>2. CASE ~LaunchFails(o)
    <3>1. /\ TerminateChild(o, "cleanup", woken) /\ state' = state
          /\ UNCHANGED <<killsTrees, process, child, generation, manuallyStopped,
                         restartTimer, launched>>
      BY <1>6, <2>2 DEF InitializeFails, recovery
    <3>2. at[o] = "init" /\ at[o] \notin Terminations
      BY <1>6 DEF InitializeFails, Terminations
    <3> QED
      BY <3>1, <3>2, SettlingTypes, <1>1, TerminateOwned
  <2> QED
    BY <2>1, <2>2
<1>7. CASE CleanedUp(o)
  <2>1. at[o] = "cleanup" /\ woken[o] # "no"
    BY <1>7 DEF CleanedUp
  <2>2. CASE LaunchFails(o)
    BY <2>1, <2>2, LaunchFailsOwned
  <2>3. CASE ~LaunchFails(o)
    <3>1. /\ Return(o) /\ state' = state
          /\ UNCHANGED <<killsTrees, process, child, generation, manuallyStopped, restartTimer,
                         treeTermination, termination, target, treeKilled, launched>>
      BY <1>7, <2>3 DEF CleanedUp, recovery, killing
    <3>2. generation # 0
      BY <2>1, AfterBoot
    <3>3. restartTimer => child = NoChild /\ ~manuallyStopped
      BY DEF OwnedInv, TimerNeedsNoChild
    <3>4. /\ at'[o] = "idle" /\ woken'[o] = "no"
          /\ \A x \in Operations : x # o => at'[x] = at[x] /\ woken'[x] = woken[x]
      BY <1>1, <3>1, Returning
    <3> QED
      BY <2>1, <3>1, <3>2, <3>3, <3>4, MoveOwned DEF InStop
  <2> QED
    BY <2>2, <2>3
<1>8. CASE o \in Recoveries /\ TimerFires(o)
  <2>1. /\ restartTimer /\ at[o] = "idle" /\ child = NoChild /\ ~manuallyStopped
        /\ generation # 0 /\ ~restartTimer' /\ manuallyStopped' = manuallyStopped
        /\ termination # "exited" /\ \A x \in Operations : woken[x] = "no"
    BY <1>8, AfterBoot DEF TimerFires, OwnedInv, TimerNeedsNoChild, Quiet, Asleep
  <2>2. CASE Spawn(o) /\ treeTermination = "none"
    <3>1. termination = "none"
      BY <2>1, <2>2, NothingToTerminate
    <3>2. \A r \in Restarters : at[r] \notin InStop \cup {"start"}
      BY <2>1 DEF OwnedInv, RestartsComeAlone
    <3> QED
      BY <2>1, <2>2, <3>1, <3>2, SpawnOwned
  <2>3. CASE ~(Spawn(o) /\ treeTermination = "none")
    <3>1. /\ state' = state
          /\ UNCHANGED <<killsTrees, process, child, generation, treeTermination, termination,
                         target, treeKilled, launched>>
          /\ Return(o) \/ UNCHANGED <<at, woken>>
      BY <1>8, <2>1, <2>3 DEF TimerFires, Launch, killing, calls
    <3>2. /\ at'[o] = "idle" /\ woken'[o] = "no"
          /\ \A x \in Operations : x # o => at'[x] = at[x] /\ woken'[x] = woken[x]
      BY <1>1, <2>1, <3>1, Returning
    <3>3. at[o] \notin Terminations
      BY <2>1 DEF Terminations
    <3> QED
      BY <2>1, <3>1, <3>2, <3>3, MoveOwned DEF InStop
  <2> QED
    BY <2>2, <2>3
<1> QED
  BY <1>2, <1>3, <1>4, <1>5, <1>6, <1>7, <1>8

\* The steps of stop().
LEMMA StoppingOwned ==
    ASSUME AgentProcessAssumption, OwnedInv, TypeOK', NEW o \in Operations,
           \/ StopCalled(o) \/ StopJoined(o) \/ ShutdownAnswered(o) \/ ShutdownOver(o)
           \/ StopTerminated(o)
    PROVE  OwnedInv'
<1> USE OperationSets
<1>1. TypeOK
  BY DEF OwnedInv
<1>2. restartTimer => child = NoChild /\ ~manuallyStopped
  BY DEF OwnedInv, TimerNeedsNoChild
<1>3. CASE StopCalled(o)
  <2>1. /\ at[o] = "idle" /\ generation # 0 /\ manuallyStopped' = TRUE /\ restartTimer' = FALSE
        /\ \A x \in Operations : woken[x] = "no"
        /\ UNCHANGED <<killsTrees, process, child, generation, treeTermination, termination,
                       target, treeKilled, launched>>
    BY <1>3 DEF StopCalled, Quiet, Asleep, killing
  <2>2. CASE termination # "none"
    <3>1. /\ at'[o] = "join" /\ woken'[o] = "no" /\ state' = state
          /\ \A x \in Operations : x # o => at'[x] = at[x] /\ woken'[x] = woken[x]
      BY <1>1, <1>3, <2>1, <2>2 DEF StopCalled, TypeOK
    <3>2. at[o] \notin Terminations
      BY <2>1 DEF Terminations
    <3> QED
      BY <2>1, <2>2, <3>1, <3>2, MoveOwned DEF InStop
  <2>3. CASE termination = "none"
    <3>1. StopOwnedChild(o)
      BY <1>3, <2>3 DEF StopCalled
    <3>2. /\ \A x \in Operations : x # o => at'[x] = at[x] /\ woken'[x] = woken[x]
          /\ \/ at'[o] = "idle" /\ woken'[o] = "no" /\ treeTermination # "none" /\ state' = state
             \/ /\ child = NoChild
                /\ \/ at'[o] = "idle" /\ woken'[o] = "no"
                   \/ o \in Restarters /\ at'[o] = "start" /\ woken'[o] = "resolved"
             \/ at'[o] = "shutdown" /\ woken'[o] = "no" /\ treeTermination = "none"
      BY <1>1, <3>1 DEF StopOwnedChild, StopReturns, Return, TypeOK
    <3>3. at[o] \notin Terminations
      BY <2>1 DEF Terminations
    <3> QED
      BY <2>1, <2>3, <3>2, <3>3, MoveOwned DEF InStop
  <2> QED
    BY <2>2, <2>3
<1>4. CASE StopJoined(o)
  <2>1. /\ at[o] = "join" /\ woken[o] # "no" /\ manuallyStopped' = manuallyStopped
        /\ restartTimer' = restartTimer
        /\ UNCHANGED <<killsTrees, process, child, generation, treeTermination, termination,
                       target, treeKilled, launched>>
    BY <1>4 DEF StopJoined, killing, recovery
  <2>2. /\ generation # 0
        /\ o \in Restarters => manuallyStopped
        /\ o \in Restarters /\ woken[o] = "resolved" => termination = "none"
    BY <2>1, AfterBoot DEF OwnedInv, RestartsComeAlone, InStop
  <2>3. /\ \A x \in Operations : x # o => at'[x] = at[x] /\ woken'[x] = woken[x]
        /\ \/ at'[o] = "idle" /\ woken'[o] = "no" /\ state' = state
           \/ /\ child = NoChild /\ woken[o] = "resolved"
              /\ \/ at'[o] = "idle" /\ woken'[o] = "no"
                 \/ o \in Restarters /\ at'[o] = "start" /\ woken'[o] = "resolved"
           \/ at'[o] = "shutdown" /\ woken'[o] = "no" /\ treeTermination = "none"
    BY <1>1, <1>4 DEF StopJoined, StopOwnedChild, StopReturns, Return, TypeOK
  <2> QED
    BY <1>2, <2>1, <2>2, <2>3, MoveOwned DEF InStop
<1>5. CASE ShutdownAnswered(o)
  <2>1. /\ at[o] = "shutdown" /\ at'[o] = "grace" /\ woken' = woken /\ state' = state
        /\ manuallyStopped' = manuallyStopped /\ restartTimer' = restartTimer
        /\ \A x \in Operations : x # o => at'[x] = at[x]
        /\ UNCHANGED <<killsTrees, process, child, generation, treeTermination, termination,
                       target, treeKilled, launched>>
    BY <1>1, <1>5 DEF ShutdownAnswered, killing, recovery, flags, TypeOK
  <2>2. /\ generation # 0
        /\ o \in Restarters => manuallyStopped
        /\ at[o] \notin Terminations
    BY <2>1, AfterBoot DEF OwnedInv, RestartsComeAlone, InStop, Terminations
  <2> QED
    BY <1>2, <2>1, <2>2, MoveOwned DEF InStop
<1>6. CASE ShutdownOver(o)
  <2>1. /\ at[o] \in {"shutdown", "grace"} /\ TerminateChild(o, "stop", woken)
        /\ UNCHANGED <<killsTrees, process, child, generation, state, manuallyStopped,
                       restartTimer, launched>>
    BY <1>6 DEF ShutdownOver, flags, recovery
  <2>2. at[o] \notin Terminations /\ at[o] \in InStop /\ at[o] # "idle"
    BY <2>1 DEF Terminations, InStop
  <2> QED
    BY <2>1, <2>2, SettlingTypes, <1>1, TerminateOwned
<1>7. CASE StopTerminated(o)
  <2>1. /\ at[o] = "stop" /\ woken[o] # "no" /\ manuallyStopped' = manuallyStopped
        /\ restartTimer' = restartTimer
        /\ UNCHANGED <<killsTrees, process, child, generation, treeTermination, termination,
                       target, treeKilled, launched>>
    BY <1>7 DEF StopTerminated, killing, recovery
  <2>2. /\ generation # 0
        /\ o \in Restarters => manuallyStopped
        /\ o \in Restarters /\ woken[o] = "resolved" => child = NoChild /\ termination = "none"
        /\ woken[o] = "resolved" => treeTermination # "failed" /\ (child # NoChild => ~manuallyStopped)
    BY <2>1, AfterBoot DEF OwnedInv, RestartsComeAlone, StopsAreEarned, InStop
  <2>3. /\ \A x \in Operations : x # o => at'[x] = at[x] /\ woken'[x] = woken[x]
        /\ \/ at'[o] = "idle" /\ woken'[o] = "no" /\ state' = state
           \/ /\ woken[o] = "resolved"
              /\ \/ at'[o] = "idle" /\ woken'[o] = "no"
                 \/ o \in Restarters /\ at'[o] = "start" /\ woken'[o] = "resolved"
    BY <1>1, <1>7 DEF StopTerminated, StopReturns, Return, TypeOK
  <2> QED
    BY <1>2, <2>1, <2>2, <2>3, MoveOwned DEF InStop
<1> QED
  BY <1>3, <1>4, <1>5, <1>6, <1>7

\* A child exits.
LEMMA ExitOwned ==
    ASSUME OwnedInv, TypeOK', NEW p \in Children, ChildExits(p)
    PROVE  OwnedInv'
<1>1. TypeOK /\ generation \in Nat
  BY DEF OwnedInv, TypeOK
<1>2. p = child /\ p # NoChild
  BY DEF ChildExits, OwnedInv, OwnershipAgrees, NoOrphans, Live, Children, NoChild
<1>3. /\ \A q \in Children : process'[q] = IF q = p THEN "gone" ELSE process[q]
      /\ child' = NoChild /\ generation' = generation + 1 /\ generation' # 0
      /\ \A x \in Operations : /\ at'[x] = at[x]
                               /\ woken[x] = "no"
                               /\ woken'[x] = IF at[x] = "grace" THEN "resolved" ELSE Rejected[x]
      /\ termination' = IF termination = "waiting" /\ target = p /\ treeKilled
                        THEN "exited" ELSE termination
      /\ UNCHANGED <<killsTrees, manuallyStopped, treeTermination, target, treeKilled, launched>>
  BY <1>1, <1>2 DEF ChildExits, HandleExit, AfterExit, Quiet, Asleep, TypeOK, flags
<1>4. \A x \in Operations :
        woken'[x] = CASE at[x] = "grace" -> "resolved"
                      [] at[x] \in {"shutdown", "init"} -> "rejected"
                      [] OTHER -> "no"
  BY <1>3 DEF Rejected, Pending
<1>5. \A q \in Children : process'[q] # "live"
  BY <1>2, <1>3 DEF OwnedInv, OwnershipAgrees, NoOrphans, Live
<1>6. termination # "exited" /\ (termination' = "none") = (termination = "none")
  BY <1>3 DEF ChildExits, Quiet
<1>7. OwnershipAgrees'
  BY <1>3, <1>4, <1>5, <1>6 DEF OwnedInv, OwnershipAgrees, NoOrphans, Live
<1>8. NothingBeforeBoot'
  BY <1>3 DEF NothingBeforeBoot
<1>9. TimerNeedsNoChild'
  <2>1. restartTimer' => ~manuallyStopped
    <3>1. restartTimer => ~manuallyStopped
      BY DEF OwnedInv, TimerNeedsNoChild
    <3>2. UNCHANGED recovery \/ ScheduleRecovery
      BY DEF ChildExits, HandleExit
    <3>3. ScheduleRecovery => (restartTimer' => restartTimer \/ MayRecover)
      BY DEF ScheduleRecovery
    <3> QED
      BY <3>1, <3>2, <3>3 DEF recovery, MayRecover
  <2> QED
    BY <1>3, <2>1 DEF OwnedInv, TimerNeedsNoChild
<1>10. RestartsComeAlone'
  BY <1>3, <1>4, OperationSets DEF OwnedInv, RestartsComeAlone, InStop
<1>11. TargetIsOwned'
  BY <1>1, <1>2, <1>3, <1>5, <1>6 DEF OwnedInv, TargetIsOwned, TypeOK
<1>12. StopsAreEarned'
  BY <1>3, <1>4 DEF StopsAreEarned
<1>13. StopsAreHonest'
  <2>1. Waiting \subseteq Waiting'
    BY <1>3, <1>4 DEF Waiting, Terminations
  <2> QED
    BY <1>3, <1>6, <2>1 DEF OwnedInv, StopsAreHonest
<1> QED
  BY <1>7, <1>8, <1>9, <1>10, <1>11, <1>12, <1>13 DEF OwnedInv

\* A termination ends, with success or not, or its taskkill does.
LEMMA TerminationEndsOwned ==
    ASSUME OwnedInv, TypeOK', TreeKilled \/ TerminationSucceeds \/ TerminationFails
    PROVE  OwnedInv'
<1>1. TypeOK
  BY DEF OwnedInv
<1>2. CASE TreeKilled
  <2>1. /\ termination = "waiting" /\ ~treeKilled /\ treeKilled' = TRUE
        /\ termination' = IF process[target] = "gone" THEN "exited" ELSE "waiting"
        /\ UNCHANGED <<killsTrees, process, child, generation, state, manuallyStopped,
                       restartTimer, treeTermination, target, at, woken, launched>>
    BY <1>2 DEF TreeKilled, flags, recovery, calls
  <2>2. Waiting' = Waiting
    BY <2>1 DEF Waiting
  <2>3. TargetIsOwned'
    BY <2>1 DEF OwnedInv, TargetIsOwned
  <2>4. RestartsComeAlone'
    BY <2>1 DEF OwnedInv, RestartsComeAlone
  <2> QED
    BY <2>1, <2>2, <2>3, <2>4
       DEF OwnedInv, OwnershipAgrees, NoOrphans, Live, NothingBeforeBoot, TimerNeedsNoChild,
           StopsAreEarned, StopsAreHonest
<1>3. CASE TerminationSucceeds
  <2>1. /\ termination = "exited" /\ termination' = "none" /\ treeTermination' = "none"
        /\ child' = NoChild /\ generation' = generation + 1 /\ generation' # 0
        /\ UNCHANGED <<killsTrees, process, state, manuallyStopped, restartTimer, at, launched>>
    BY <1>1, <1>3 DEF TerminationSucceeds, flags, recovery, TypeOK
  <2>2. \A x \in Operations : /\ at[x] \in Terminations => woken'[x] = "resolved"
                              /\ at[x] \in {"shutdown", "init"} => woken'[x] = "rejected"
                              /\ at[x] \in {"idle", "grace", "start"} => woken'[x] = "no"
    BY <1>3 DEF TerminationSucceeds, Asleep, Waiting, Rejected, Pending, Terminations
  <2>3. \A q \in Children : process[q] # "live"
    BY <2>1 DEF OwnedInv, TargetIsOwned, OwnershipAgrees, NoOrphans, Live, NoChild, Children
  <2>4. OwnershipAgrees'
    BY <2>1, <2>2, <2>3 DEF OwnedInv, OwnershipAgrees, NoOrphans, Live
  <2>5. RestartsComeAlone'
    <3>1. \A r \in Restarters : at[r] # "start"
      BY <1>3, OperationSets DEF TerminationSucceeds, Asleep, OwnedInv, RestartsComeAlone
    <3> QED
      BY <2>1, <3>1 DEF OwnedInv, RestartsComeAlone
  <2>6. NothingBeforeBoot' /\ TimerNeedsNoChild'
    BY <2>1 DEF OwnedInv, NothingBeforeBoot, TimerNeedsNoChild
  <2>7. TargetIsOwned' /\ StopsAreEarned' /\ StopsAreHonest'
    BY <2>1 DEF TargetIsOwned, StopsAreEarned, StopsAreHonest
  <2> QED
    BY <2>4, <2>5, <2>6, <2>7 DEF OwnedInv
<1>4. CASE TerminationFails
  <2>1. /\ termination = "waiting" /\ termination' = "none"
        /\ killsTrees => treeTermination' = "failed" /\ state' = "error"
        /\ ~killsTrees => UNCHANGED <<treeTermination, state>>
        /\ \A x \in Operations : /\ woken[x] = "no" /\ at'[x] = at[x]
                                 /\ woken'[x] = IF x \in Waiting THEN "rejected" ELSE "no"
        /\ UNCHANGED <<killsTrees, process, child, generation, manuallyStopped, restartTimer,
                       target, treeKilled, launched>>
    BY <1>4 DEF TerminationFails, Quiet, Asleep, flags, recovery
  <2>2. \A x \in Operations : at[x] = "init" => x \notin Waiting
    BY DEF Waiting, Terminations
  <2>3. OwnershipAgrees'
    BY <1>1, <2>1, <2>2 DEF OwnedInv, OwnershipAgrees, NoOrphans, Live, TypeOK
  <2>4. NothingBeforeBoot' /\ TimerNeedsNoChild'
    BY <2>1 DEF OwnedInv, NothingBeforeBoot, TimerNeedsNoChild
  <2>5. RestartsComeAlone'
    BY <2>1, OperationSets DEF OwnedInv, RestartsComeAlone
  <2>6. TargetIsOwned' /\ StopsAreEarned'
    BY <2>1 DEF TargetIsOwned, StopsAreEarned
  <2>7. StopsAreHonest'
    <3>1. child # NoChild => target = child
      <4>1. target \in Children /\ process[target] = "gone" => child = NoChild
        BY <2>1 DEF OwnedInv, TargetIsOwned
      <4> QED
        BY <2>1, <4>1 DEF OwnedInv, TargetIsOwned, OwnershipAgrees, NoOrphans, Live
    <3>2. ~killsTrees => treeTermination # "failed" \/ child = NoChild \/ state \in {"error", "ready"}
      BY DEF OwnedInv, StopsAreHonest
    <3> QED
      BY <2>1, <3>1, <3>2 DEF StopsAreHonest, Killed
  <2> QED
    BY <2>3, <2>4, <2>5, <2>6, <2>7 DEF OwnedInv
<1> QED
  BY <1>2, <1>3, <1>4

\* A signal cannot be sent, or a connection fails.
LEMMA FailingOwned ==
    ASSUME OwnedInv, TypeOK',
           \/ SignalFails
           \/ \E f \in Failures : FailConnection(f) \/ ConnectionFailed(f)
    PROVE  OwnedInv'
<1>1. TypeOK
  BY DEF OwnedInv
<1>2. \A x \in Operations : \/ Rejected[x] = woken[x]
                            \/ at[x] \in {"shutdown", "init"} /\ Rejected[x] = "rejected"
  BY DEF Rejected, Pending
<1>3. CASE SignalFails
  <2>1. /\ state' = "error" /\ \A x \in Operations : at'[x] = at[x] /\ woken'[x] = Rejected[x]
        /\ UNCHANGED <<killsTrees, process, child, generation, manuallyStopped, restartTimer,
                       treeTermination, termination, target, treeKilled, launched>>
    BY <1>3 DEF SignalFails, flags, recovery, killing
  <2>2. OwnershipAgrees'
    BY <1>2, <2>1 DEF OwnedInv, OwnershipAgrees, NoOrphans, Live
  <2>3. RestartsComeAlone'
    BY <1>2, <2>1, OperationSets DEF OwnedInv, RestartsComeAlone
  <2>4. Waiting \subseteq Waiting'
    BY <1>2, <2>1 DEF Waiting, Terminations
  <2>5. NothingBeforeBoot' /\ TimerNeedsNoChild' /\ TargetIsOwned'
    BY <2>1 DEF OwnedInv, NothingBeforeBoot, TimerNeedsNoChild, TargetIsOwned
  <2>6. StopsAreEarned' /\ StopsAreHonest'
    BY <1>2, <2>1, <2>4 DEF OwnedInv, StopsAreEarned, StopsAreHonest
  <2> QED
    BY <2>2, <2>3, <2>5, <2>6 DEF OwnedInv
<1>4. ASSUME NEW f \in Failures, FailConnection(f)
      PROVE  OwnedInv'
  <2>1. /\ at[f] = "idle" /\ child # NoChild /\ state' = "error"
        /\ TerminateChild(f, "fail", Rejected)
        /\ UNCHANGED <<killsTrees, process, child, generation, manuallyStopped, restartTimer,
                       launched>>
    BY <1>4 DEF FailConnection, flags, recovery
  <2>2. at[f] \notin Terminations /\ f \in Operations
    BY <2>1, OperationSets DEF Terminations
  <2> QED
    BY <1>1, <1>2, <2>1, <2>2, SettlingTypes, TerminateOwned
<1>5. ASSUME NEW f \in Failures, ConnectionFailed(f)
      PROVE  OwnedInv'
  <2>1. /\ at[f] = "fail" /\ woken[f] # "no" /\ Return(f) /\ f \in Operations
        /\ UNCHANGED <<killsTrees, process, child, generation, state, manuallyStopped,
                       treeTermination, termination, target, treeKilled, launched>>
    BY <1>5, OperationSets DEF ConnectionFailed, flags, killing
  <2>2. /\ at'[f] = "idle" /\ woken'[f] = "no"
        /\ \A x \in Operations : x # f => at'[x] = at[x] /\ woken'[x] = woken[x]
    BY <1>1, <2>1, Returning
  <2>3. restartTimer' => child = NoChild /\ ~manuallyStopped
    <3>1. restartTimer => child = NoChild /\ ~manuallyStopped
      BY DEF OwnedInv, TimerNeedsNoChild
    <3>2. UNCHANGED recovery \/ (child = NoChild /\ ~manuallyStopped)
      BY <1>5 DEF ConnectionFailed
    <3> QED
      BY <3>1, <3>2 DEF recovery
  <2>4. generation # 0
    BY <2>1, AfterBoot
  <2> QED
    BY <2>1, <2>2, <2>3, <2>4, MoveOwned DEF InStop
<1> QED
  BY <1>3, <1>4, <1>5

\* Every step keeps the invariant.
LEMMA NextKeepsOwned ==
    ASSUME AgentProcessAssumption, OneRestarter, OwnedInv, [Next]_vars
    PROVE  OwnedInv'
<1>1. CASE UNCHANGED vars
  <2>1. UNCHANGED <<killsTrees, process, child, generation, state, stopping, manuallyStopped,
                    incompatible, restartAttempt, restartTimer, treeTermination, termination,
                    target, treeKilled, at, woken, launched, seen>>
    BY <1>1 DEF vars, flags, recovery, killing, calls
  <2>2. Waiting' = Waiting /\ TypeOK'
    BY <2>1 DEF Waiting, TypeOK, OwnedInv
  <2>3. OwnershipAgrees' /\ NothingBeforeBoot' /\ TimerNeedsNoChild' /\ TargetIsOwned'
    BY <2>1 DEF OwnedInv, OwnershipAgrees, NoOrphans, Live, NothingBeforeBoot,
                TimerNeedsNoChild, TargetIsOwned
  <2> QED
    BY <2>1, <2>2, <2>3 DEF OwnedInv, RestartsComeAlone, StopsAreEarned, StopsAreHonest, Killed
<1>2. CASE Next
  <2>1. TypeOK'
    BY <1>2, NextKeepsTypes DEF OwnedInv
  <2> QED
    BY <1>2, <2>1, LaunchingOwned, StoppingOwned, ExitOwned, TerminationEndsOwned,
       FailingOwned, OperationSets DEF Next
<1> QED
  BY <1>1, <1>2

-----------------------------------------------------------------------------
(* Theorems about ownership *)

\* The invariant of ownership holds.
LEMMA OwnedInvariant ==
    ASSUME AgentProcessAssumption, OneRestarter
    PROVE  Spec => []OwnedInv
<1>1. Init => OwnedInv
  BY InitOwned
<1>2. OwnedInv /\ [Next]_vars => OwnedInv'
  BY NextKeepsOwned
<1> QED
  BY <1>1, <1>2, PTL DEF Spec

\* What the steps rely on follows.
LEMMA OwnedAgrees ==
    ASSUME OwnedInv
    PROVE  AgentProcessInv /\ NoOrphans
  BY DEF OwnedInv, OwnershipAgrees, TimerNeedsNoChild, AgentProcessInv, Pending

\* When nothing is under way and the agent is reported as stopped, it is.
LEMMA OwnedStops ==
    ASSUME OwnedInv
    PROVE  StoppedMeansGone
<1>1. SUFFICES ASSUME AllIdle, manuallyStopped, state = "stopped", Live # {}
               PROVE  Killed
  BY DEF StoppedMeansGone
<1>2. child # NoChild
  BY <1>1 DEF OwnedInv, OwnershipAgrees, NoOrphans, Live, Children, NoChild
<1>3. termination = "none"
  BY <1>1 DEF OwnedInv, StopsAreHonest, Waiting, AllIdle, Terminations
<1>4. treeTermination = "none"
  BY <1>1, <1>2, <1>3 DEF OwnedInv, StopsAreHonest, OwnershipAgrees, TypeOK
<1> QED
  BY <1>1, <1>2, <1>3, <1>4 DEF OwnedInv, StopsAreHonest, AllIdle

\* A child is spawned only when no other lives and no tree is unconfirmed.
LEMMA OwnedSpawns ==
    ASSUME OwnedInv, [Next]_vars
    PROVE  AloneWhenSpawned
<1>1. SUFFICES ASSUME process' # process, Live' \ Live # {}
               PROVE  Live = {} /\ treeTermination = "none"
  BY DEF AloneWhenSpawned
<1>2. child = NoChild => Live = {}
  BY DEF OwnedInv, OwnershipAgrees, NoOrphans, Live, Children, NoChild
<1>3. \A o \in Operations : Launch(o) => UNCHANGED process \/ (child = NoChild /\ treeTermination = "none")
  BY DEF Launch
<1>4. ASSUME NEW o \in Operations,
             \/ LifecycleStarts \/ RestartStarts(o) \/ LaunchTerminated(o) \/ Initialized(o)
             \/ InitializeFails(o) \/ CleanedUp(o) \/ TimerFires(o)
      PROVE  child = NoChild /\ treeTermination = "none"
  <2>1. ~LaunchTerminated(o)
    BY DEF LaunchTerminated, OwnedInv, TimerNeedsNoChild
  <2>2. ~Initialized(o) /\ ~InitializeFails(o) /\ ~CleanedUp(o)
    BY <1>1 DEF Initialized, InitializeFails, CleanedUp, LaunchFails
  <2> QED
    BY <1>1, <1>3, <1>4, <2>1, <2>2, OperationSets
       DEF LifecycleStarts, RestartStarts, Start, TimerFires
<1>5. ASSUME NEW o \in Operations,
             \/ StopCalled(o) \/ StopJoined(o) \/ ShutdownAnswered(o) \/ ShutdownOver(o)
             \/ StopTerminated(o)
      PROVE  FALSE
  BY <1>1, <1>5 DEF StopCalled, StopJoined, ShutdownAnswered, ShutdownOver, StopTerminated
<1>6. ASSUME NEW p \in Children, ChildExits(p)
      PROVE  FALSE
  <2>1. process' = [process EXCEPT ![p] = "gone"]
    BY <1>6 DEF ChildExits
  <2>2. Live' \subseteq Live
    BY <2>1 DEF Live, OwnedInv, TypeOK
  <2> QED
    BY <1>1, <2>2
<1>7. ~TreeKilled /\ ~TerminationSucceeds /\ ~TerminationFails /\ ~SignalFails
  BY <1>1 DEF TreeKilled, TerminationSucceeds, TerminationFails, SignalFails
<1>8. \A f \in Failures : ~FailConnection(f) /\ ~ConnectionFailed(f)
  BY <1>1 DEF FailConnection, ConnectionFailed
<1>9. Next
  BY <1>1 DEF vars
<1> QED
  BY <1>2, <1>4, <1>5, <1>6, <1>7, <1>8, <1>9, OperationSets DEF Next

\* Whatever calls overlap, a child that lives is owned and a request that waits for
\* initialize belongs to the owned child; when stop() had the last word none is left alive
\* but one that outlived its signals (terminateChildOnce(), handleExit(), stop()).
THEOREM ChildrenAreOwned ==
    ASSUME AgentProcessAssumption, OneRestarter
    PROVE  Spec => [](AgentProcessInv /\ NoOrphans /\ StoppedMeansGone)
<1>1. OwnedInv => AgentProcessInv /\ NoOrphans /\ StoppedMeansGone
  BY OwnedAgrees, OwnedStops
<1> QED
  BY <1>1, OwnedInvariant, PTL

\* An agent is spawned only when no other lives and every tree that was killed is known to
\* be gone (launch()).
THEOREM SpawnsAreAlone ==
    ASSUME AgentProcessAssumption, OneRestarter
    PROVE  Spec => [][AloneWhenSpawned]_vars
<1>1. OwnedInv /\ [Next]_vars => [AloneWhenSpawned]_vars
  BY OwnedSpawns
<1> QED
  BY <1>1, OwnedInvariant, PTL DEF Spec

-----------------------------------------------------------------------------
(* Recovery, step by step *)

\* Nothing has happened.
LEMMA InitRecovery ==
    ASSUME AgentProcessAssumption, Init
    PROVE  RecoveryInv
<1>1. TypeOK
  BY InitOwned DEF OwnedInv
<1>2. CallsAreRestarts /\ LaunchesAreReal
  BY DEF Init, CallsAreRestarts, LaunchesAreReal, InStop
<1>3. TargetIsReplaced /\ ChildComesBack
  BY DEF Init, TargetIsReplaced, ChildComesBack
<1> QED
  BY <1>1, <1>2, <1>3 DEF RecoveryInv

\* A child that is spawned while nobody terminates another, or one who will replace it does.
LEMMA SpawnRecovery ==
    ASSUME RecoveryInv, TypeOK', NEW o \in Operations, Spawn(o),
           Relaunch(o) => woken[o] # "no",
           ~killsTrees => termination # "exited" /\ (termination = "waiting" => Awaited)
    PROVE  RecoveryInv'
<1>1. PICK p \in Children :
        /\ process[p] = "none" /\ process' = [process EXCEPT ![p] = "live"] /\ child' = p
        /\ generation' = generation + 1
        /\ launched' = [launched EXCEPT ![o] = [child |-> p, generation |-> generation + 1]]
        /\ at' = [at EXCEPT ![o] = "init"] /\ woken' = [woken EXCEPT ![o] = "no"]
        /\ UNCHANGED <<killsTrees, treeTermination, termination, target, treeKilled>>
  BY DEF Spawn, killing
<1>2. /\ generation' # 0
      /\ \A q \in Children : q # NoChild
  BY <1>1 DEF RecoveryInv, TypeOK, Children, NoChild
<1>3. \A x \in Operations : /\ at'[x] = IF x = o THEN "init" ELSE at[x]
                            /\ woken'[x] = IF x = o THEN "no" ELSE woken[x]
                            /\ launched'[x].child = IF x = o THEN p ELSE launched[x].child
  BY <1>1 DEF RecoveryInv, TypeOK
<1>4. \A q \in Children : process'[q] = IF q = p THEN "live" ELSE process[q]
  BY <1>1 DEF RecoveryInv, TypeOK
<1>5. CallsAreRestarts'
  BY <1>1, <1>2, <1>3, <1>4 DEF RecoveryInv, CallsAreRestarts, InStop
<1>6. LaunchesAreReal'
  BY <1>1, <1>3, <1>4 DEF RecoveryInv, LaunchesAreReal
<1>7. TargetIsReplaced'
  <2>1. Awaited => Awaited'
    BY <1>3 DEF Awaited, Relaunch
  <2>2. ~killsTrees /\ termination # "none" => termination = "waiting" /\ Awaited
    BY DEF RecoveryInv, TypeOK
  <2> QED
    BY <1>1, <2>1, <2>2 DEF RecoveryInv, TargetIsReplaced
<1>8. ChildComesBack'
  BY <1>1, <1>2 DEF ChildComesBack
<1> QED
  BY <1>5, <1>6, <1>7, <1>8 DEF RecoveryInv

\* A termination that is called for: who does not start another child calls for it only
\* while nobody was woken to launch.
LEMMA TerminateRecovery ==
    ASSUME RecoveryInv, TypeOK', NEW o \in Operations,
           NEW a \in {"launch", "stop", "cleanup", "fail"},
           NEW others \in [Operations -> Settlings], TerminateChild(o, a, others),
           \A x \in Operations : \/ others[x] = woken[x]
                                 \/ at[x] \in {"shutdown", "init"} /\ others[x] = "rejected",
           (\A x \in Operations : others[x] = woken[x]) \/ ~LaunchIsWoken,
           a \in {"cleanup", "fail"} => ~LaunchIsWoken,
           a = "launch" => child # NoChild /\ treeTermination = "none",
           a = "stop" => o \in Restarters,
           child # NoChild \/ at[o] # "idle",
           ~Relaunch(o),
           UNCHANGED <<killsTrees, process, child, generation, launched>>,
           \/ child # NoChild
           \/ at[o] # "start" /\ (incompatible => incompatible')
              /\ UNCHANGED <<stopping, manuallyStopped, restartTimer, restartAttempt>>
    PROVE  RecoveryInv'
<1>1. TypeOK
  BY DEF RecoveryInv
<1>2. \A x \in Operations : /\ at'[x] = IF x = o THEN a ELSE at[x]
                            /\ x # o => woken'[x] = others[x]
  BY <1>1 DEF TypeOK, TerminateChild
<1>3. CallsAreRestarts'
  BY <1>2 DEF RecoveryInv, CallsAreRestarts, InStop, TerminateChild, killing
<1>4. a = "launch" => woken'[o] = "no"
  BY DEF TerminateChild
<1>5. ~LaunchIsWoken => ~LaunchIsWoken'
  BY <1>2, <1>4 DEF LaunchIsWoken
<1>6. LaunchesAreReal'
  BY <1>2, <1>5 DEF RecoveryInv, LaunchesAreReal
<1>7. Awaited => Awaited'
  BY <1>2 DEF Awaited, Relaunch
<1>8. TargetIsReplaced'
  <2>1. CASE termination = "none" /\ treeTermination = "none" /\ child # NoChild
    <3>1. /\ woken'[o] = "no" /\ termination' = "waiting" /\ target' = child
          /\ treeTermination' = IF killsTrees THEN "pending" ELSE "none"
          /\ treeKilled' = ~killsTrees
      BY <2>1 DEF TerminateChild, Settlings
    <3>2. a \in {"launch", "stop"} => Awaited'
      BY <1>2, <3>1 DEF Awaited, Relaunch
    <3>3. a \in {"cleanup", "fail"} => ~LaunchIsWoken'
      BY <1>5
    <3>4. target' \in Children
      BY <1>1, <2>1, <3>1 DEF TypeOK
    <3> QED
      BY <3>1, <3>2, <3>3, <3>4 DEF TargetIsReplaced
  <2>2. CASE ~(termination = "none" /\ treeTermination = "none" /\ child # NoChild)
    <3>1. /\ UNCHANGED <<treeTermination, termination, target, treeKilled>>
          /\ termination # "none" => woken'[o] = "no"
      BY <2>2 DEF TerminateChild, killing
    <3>2. LaunchIsWoken' => LaunchIsWoken
      BY <1>5
    <3>3. \A x \in Operations : at[x] \in Terminations \cup {"start"} => others[x] = woken[x]
      BY DEF Terminations
    <3> QED
      BY <1>2, <1>7, <3>1, <3>2, <3>3 DEF RecoveryInv, TargetIsReplaced
  <2> QED
    BY <2>1, <2>2
<1>9. ChildComesBack'
  <2>1. CASE child # NoChild
    BY <2>1 DEF ChildComesBack
  <2>2. CASE child = NoChild
    <3>1. OnItsWay => OnItsWay'
      BY <1>2, <2>2 DEF OnItsWay, Relaunch
    <3> QED
      BY <2>2, <3>1 DEF RecoveryInv, ChildComesBack
  <2> QED
    BY <2>1, <2>2
<1> QED
  BY <1>3, <1>6, <1>8, <1>9 DEF RecoveryInv

\* One operation goes on and nobody launches, terminates or ends anything.
LEMMA MoveRecovery ==
    ASSUME RecoveryInv, TypeOK', NEW o \in Operations,
           UNCHANGED <<killsTrees, process, child, generation, treeTermination, termination,
                       target, treeKilled, launched>>,
           \A x \in Operations : x # o => at'[x] = at[x] /\ woken'[x] = woken[x],
           at'[o] \notin {"launch", "init"},
           at'[o] # "idle" => generation # 0,
           at'[o] \in InStop \cup {"start"} => o \in Restarters,
           at'[o] = "start" => woken'[o] = "resolved" /\ (~killsTrees => termination # "exited"),
           at'[o] \in Terminations => woken'[o] = "no",
           Relaunch(o) => woken[o] # "no",
           ChildComesBack'
    PROVE  RecoveryInv'
<1>1. CallsAreRestarts'
  BY DEF RecoveryInv, CallsAreRestarts
<1>2. LaunchIsWoken' => LaunchIsWoken
  BY DEF LaunchIsWoken
<1>3. Awaited => Awaited'
  BY DEF Awaited, Relaunch
<1>4. LaunchesAreReal'
  BY <1>2 DEF RecoveryInv, LaunchesAreReal
<1>5. TargetIsReplaced'
  BY <1>2, <1>3 DEF RecoveryInv, TargetIsReplaced
<1> QED
  BY <1>1, <1>4, <1>5 DEF RecoveryInv

\* launch() up to its first await, called by start() or the timer.
LEMMA LaunchRecovery ==
    ASSUME RecoveryInv, TypeOK', NEW o \in Operations, Launch(o),
           at[o] = "start" \/ (at[o] = "idle" /\ termination # "exited")
    PROVE  RecoveryInv'
<1>1. TypeOK
  BY DEF RecoveryInv
<1>2. ~Relaunch(o) /\ at[o] \notin Terminations
  BY DEF Relaunch, Terminations
<1>3. ~killsTrees => termination # "exited"
  BY DEF RecoveryInv, TargetIsReplaced
<1>4. CASE treeTermination # "none" \/ IsReady
  <2>1. /\ Return(o)
        /\ UNCHANGED <<killsTrees, process, child, generation, treeTermination, termination,
                       target, treeKilled, launched>>
    BY <1>4 DEF Launch, IsReady, killing
  <2>2. /\ at'[o] = "idle" /\ woken'[o] = "no"
        /\ \A x \in Operations : x # o => at'[x] = at[x] /\ woken'[x] = woken[x]
    BY <1>1, <2>1, Returning
  <2>3. ChildComesBack'
    BY <1>4, <2>1 DEF RecoveryInv, TargetIsReplaced, ChildComesBack, IsReady
  <2> QED
    BY <1>2, <2>1, <2>2, <2>3, MoveRecovery DEF InStop, Terminations
<1>5. CASE treeTermination = "none" /\ ~IsReady /\ child # NoChild
  <2>1. /\ TerminateChild(o, "launch", woken)
        /\ UNCHANGED <<killsTrees, process, child, generation, launched>>
    BY <1>5 DEF Launch
  <2> QED
    BY <1>1, <1>2, <1>5, <2>1, SettlingTypes, TerminateRecovery
<1>6. CASE treeTermination = "none" /\ child = NoChild
  <2>1. Spawn(o)
    BY <1>6 DEF Launch, IsReady
  <2>2. ~killsTrees /\ termination = "waiting" => Awaited
    BY <1>6 DEF RecoveryInv, TargetIsReplaced, Children, NoChild
  <2> QED
    BY <1>2, <1>3, <2>1, <2>2, SpawnRecovery
<1> QED
  BY <1>4, <1>5, <1>6

\* The end of launch() or of a failed connection: the timer may be set, and nobody who was
\* on the way to launch stops.
LEMMA ComesBackStill ==
    ASSUME AgentProcessAssumption, RecoveryInv, UNCHANGED recovery \/ ScheduleRecovery,
           OnItsWay => OnItsWay', incompatible => incompatible',
           UNCHANGED <<killsTrees, child, stopping, manuallyStopped>>
    PROVE  ChildComesBack'
<1>1. restartAttempt \in Int /\ MaxAttempts \in Int
  BY DEF AgentProcessAssumption, RecoveryInv, TypeOK
<1>2. restartTimer => restartTimer'
  BY DEF ScheduleRecovery, recovery
<1>3. restartAttempt' < MaxAttempts => restartAttempt < MaxAttempts
  BY <1>1 DEF ScheduleRecovery, recovery
<1> QED
  BY <1>2, <1>3 DEF RecoveryInv, ChildComesBack

\* The end of launch() after a failure.
LEMMA LaunchFailsRecovery ==
    ASSUME AgentProcessAssumption, RecoveryInv, TypeOK', NEW o \in Operations, LaunchFails(o),
           at[o] \in {"init", "cleanup"}, incompatible => incompatible'
    PROVE  RecoveryInv'
<1>1. TypeOK
  BY DEF RecoveryInv
<1>2. /\ at'[o] = "idle" /\ woken'[o] = "no"
      /\ \A x \in Operations : x # o => at'[x] = at[x] /\ woken'[x] = woken[x]
  BY <1>1, Returning DEF LaunchFails
<1>3. UNCHANGED <<killsTrees, process, child, generation, stopping, manuallyStopped,
                  treeTermination, termination, target, treeKilled, launched>>
  BY DEF LaunchFails, killing
<1>4. ~Relaunch(o)
  BY DEF Relaunch
<1>5. OnItsWay => OnItsWay'
  BY <1>2 DEF OnItsWay, Relaunch
<1>6. ChildComesBack'
  BY <1>3, <1>5, ComesBackStill DEF LaunchFails
<1> QED
  BY <1>2, <1>3, <1>4, <1>6, MoveRecovery DEF InStop, Terminations

\* The steps of launch().
LEMMA LaunchingRecovery ==
    ASSUME AgentProcessAssumption, RecoveryInv, TypeOK', NEW o \in Operations,
           \/ LifecycleStarts \/ RestartStarts(o) \/ LaunchTerminated(o) \/ Initialized(o)
           \/ InitializeFails(o) \/ CleanedUp(o) \/ (o \in Recoveries /\ TimerFires(o))
    PROVE  RecoveryInv'
<1> USE OperationSets
<1>1. TypeOK
  BY DEF RecoveryInv
<1>2. CASE LifecycleStarts
  <2>1. Launch(Boot) /\ at[Boot] = "idle" /\ termination # "exited"
    BY <1>2 DEF LifecycleStarts, Start, RecoveryInv, CallsAreRestarts
  <2> QED
    BY <2>1, LaunchRecovery
<1>3. CASE RestartStarts(o)
  BY <1>3, LaunchRecovery DEF RestartStarts, Start
<1>4. CASE LaunchTerminated(o)
  <2>1. at[o] = "launch" /\ woken[o] # "no"
    BY <1>4 DEF LaunchTerminated
  <2>2. CASE Spawn(o) /\ woken[o] = "resolved"
    <3>1. LaunchIsWoken
      BY <2>1, <2>2 DEF LaunchIsWoken
    <3>2. ~killsTrees => termination # "exited" /\ (termination = "waiting" => Awaited)
      BY <2>1, <2>2, <3>1 DEF RecoveryInv, TargetIsReplaced, Terminations
    <3> QED
      BY <2>2, <3>2, SpawnRecovery
  <2>3. CASE woken[o] = "rejected"
    <3>1. /\ Return(o)
          /\ UNCHANGED <<killsTrees, process, child, generation, stopping, manuallyStopped,
                         incompatible, restartTimer, restartAttempt, treeTermination,
                         termination, target, treeKilled, launched>>
      BY <1>4, <2>3 DEF LaunchTerminated, recovery, killing
    <3>2. /\ at'[o] = "idle" /\ woken'[o] = "no"
          /\ \A x \in Operations : x # o => at'[x] = at[x] /\ woken'[x] = woken[x]
      BY <1>1, <3>1, Returning
    <3>3. OnItsWay => OnItsWay'
      BY <2>3, <3>2 DEF OnItsWay, Relaunch
    <3>4. ChildComesBack'
      BY <3>1, <3>3, ComesBackStill DEF recovery
    <3> QED
      BY <2>1, <3>1, <3>2, <3>4, MoveRecovery DEF InStop, Terminations
  <2> QED
    BY <1>4, <2>2, <2>3 DEF LaunchTerminated
<1>5. CASE Initialized(o)
  <2>1. /\ at[o] = "init" /\ Return(o) /\ child = launched[o].child
        /\ UNCHANGED <<killsTrees, process, child, generation, treeTermination, termination,
                       target, treeKilled, launched>>
    BY <1>5 DEF Initialized, killing
  <2>2. /\ at'[o] = "idle" /\ woken'[o] = "no"
        /\ \A x \in Operations : x # o => at'[x] = at[x] /\ woken'[x] = woken[x]
    BY <1>1, <2>1, Returning
  <2>3. child # NoChild
    BY <2>1 DEF RecoveryInv, LaunchesAreReal, Children, NoChild
  <2>4. ChildComesBack' /\ ~Relaunch(o)
    BY <2>1, <2>3 DEF ChildComesBack, Relaunch
  <2> QED
    BY <2>1, <2>2, <2>4, MoveRecovery DEF InStop, Terminations
<1>6. CASE InitializeFails(o)
  <2>1. at[o] = "init" /\ (incompatible => incompatible')
    BY <1>1, <1>6 DEF InitializeFails, TypeOK
  <2>2. CASE LaunchFails(o)
    BY <2>1, <2>2, LaunchFailsRecovery
  <2>3. CASE ~LaunchFails(o)
    <3>1. /\ TerminateChild(o, "cleanup", woken) /\ child = launched[o].child
          /\ woken[o] = "rejected" \/ Quiet
          /\ UNCHANGED <<killsTrees, process, child, generation, stopping, manuallyStopped,
                         restartTimer, restartAttempt, launched>>
      BY <1>6, <2>3 DEF InitializeFails, recovery
    <3>2. ~LaunchIsWoken
      BY <2>1, <3>1 DEF RecoveryInv, LaunchesAreReal, LaunchIsWoken, Quiet, Asleep
    <3>3. ~Relaunch(o)
      BY <2>1 DEF Relaunch
    <3> QED
      BY <1>1, <2>1, <3>1, <3>2, <3>3, SettlingTypes, TerminateRecovery
  <2> QED
    BY <2>2, <2>3
<1>7. CASE CleanedUp(o)
  <2>1. at[o] = "cleanup" /\ incompatible' = incompatible
    BY <1>7 DEF CleanedUp
  <2>2. CASE LaunchFails(o)
    BY <2>1, <2>2, LaunchFailsRecovery
  <2>3. CASE ~LaunchFails(o)
    <3>1. /\ Return(o)
          /\ UNCHANGED <<killsTrees, process, child, generation, stopping, manuallyStopped,
                         incompatible, restartTimer, restartAttempt, treeTermination,
                         termination, target, treeKilled, launched>>
      BY <1>7, <2>3 DEF CleanedUp, recovery, killing
    <3>2. /\ at'[o] = "idle" /\ woken'[o] = "no"
          /\ \A x \in Operations : x # o => at'[x] = at[x] /\ woken'[x] = woken[x]
      BY <1>1, <3>1, Returning
    <3>3. ~Relaunch(o) /\ (OnItsWay => OnItsWay')
      BY <2>1, <3>2 DEF OnItsWay, Relaunch
    <3>4. ChildComesBack'
      BY <3>1, <3>3, ComesBackStill DEF recovery
    <3> QED
      BY <3>1, <3>2, <3>3, <3>4, MoveRecovery DEF InStop, Terminations
  <2> QED
    BY <2>2, <2>3
<1>8. CASE o \in Recoveries /\ TimerFires(o)
  <2>1. at[o] = "idle" /\ termination # "exited"
    BY <1>8 DEF TimerFires, Quiet
  <2>2. CASE manuallyStopped \/ incompatible
    <3>1. UNCHANGED <<killsTrees, process, child, generation, stopping, manuallyStopped,
                      incompatible, treeTermination, termination, target, treeKilled, at,
                      woken, launched>>
      BY <1>8, <2>2 DEF TimerFires, killing, calls
    <3>2. ChildComesBack' /\ ~Relaunch(o)
      BY <2>1, <2>2, <3>1 DEF ChildComesBack, Relaunch
    <3> QED
      BY <2>1, <3>1, <3>2, MoveRecovery DEF InStop, Terminations
  <2>3. CASE ~(manuallyStopped \/ incompatible)
    BY <1>8, <2>1, <2>3, LaunchRecovery DEF TimerFires
  <2> QED
    BY <2>2, <2>3
<1> QED
  BY <1>2, <1>3, <1>4, <1>5, <1>6, <1>7, <1>8

\* The steps of stop(), which only restart() calls.
LEMMA StoppingRecovery ==
    ASSUME AgentProcessAssumption, RestartsOnly, RecoveryInv, TypeOK', NEW o \in Operations,
           \/ StopCalled(o) \/ StopJoined(o) \/ ShutdownAnswered(o) \/ ShutdownOver(o)
           \/ StopTerminated(o)
    PROVE  RecoveryInv'
<1> USE OperationSets
<1>1. TypeOK
  BY DEF RecoveryInv
<1>2. CASE StopCalled(o)
  <2>1. /\ at[o] = "idle" /\ generation # 0 /\ manuallyStopped' = TRUE /\ o \in Restarters
        /\ termination # "exited"
        /\ UNCHANGED <<killsTrees, process, child, generation, treeTermination, termination,
                       target, treeKilled, launched>>
    BY <1>2 DEF StopCalled, Quiet, killing, RestartsOnly
  <2>2. ChildComesBack' /\ ~Relaunch(o)
    BY <2>1 DEF ChildComesBack, Relaunch
  <2>3. /\ \A x \in Operations : x # o => at'[x] = at[x] /\ woken'[x] = woken[x]
        /\ \/ at'[o] \in {"idle", "join", "shutdown"} /\ woken'[o] = "no"
           \/ at'[o] = "start" /\ woken'[o] = "resolved"
    BY <1>1, <1>2 DEF StopCalled, StopOwnedChild, StopReturns, Return, TypeOK, Quiet, Asleep
  <2> QED
    BY <2>1, <2>2, <2>3, MoveRecovery DEF InStop, Terminations
<1>3. CASE StopJoined(o)
  <2>1. /\ at[o] = "join" /\ woken[o] # "no" /\ o \in Restarters /\ generation # 0
        /\ ~killsTrees => treeTermination = "none" /\ termination # "exited"
        /\ UNCHANGED <<killsTrees, process, child, generation, manuallyStopped, incompatible,
                       restartTimer, restartAttempt, treeTermination, termination, target,
                       treeKilled, launched>>
    BY <1>3 DEF StopJoined, killing, recovery, RecoveryInv, CallsAreRestarts, TargetIsReplaced,
                InStop, Terminations
  <2>2. /\ \A x \in Operations : x # o => at'[x] = at[x] /\ woken'[x] = woken[x]
        /\ \/ at'[o] = "idle" /\ woken'[o] = "no"
              /\ (woken[o] = "rejected" \/ treeTermination # "none") /\ stopping' = stopping
           \/ at'[o] = "shutdown" /\ woken'[o] = "no" /\ child # NoChild
           \/ at'[o] = "start" /\ woken'[o] = "resolved" /\ stopping' = stopping
    BY <1>1, <1>3, <2>1 DEF StopJoined, StopOwnedChild, StopReturns, Return, TypeOK
  <2>3. ChildComesBack'
    <3>1. SUFFICES ASSUME ~killsTrees, child = NoChild, OnItsWay
                   PROVE  OnItsWay'
      BY <2>1, <2>2 DEF RecoveryInv, ChildComesBack
    <3> QED
      BY <2>1, <2>2, <3>1 DEF OnItsWay, Relaunch
  <2> QED
    BY <2>1, <2>2, <2>3, MoveRecovery DEF InStop, Terminations
<1>4. CASE ShutdownAnswered(o)
  <2>1. /\ at[o] = "shutdown" /\ at'[o] = "grace" /\ woken' = woken /\ o \in Restarters
        /\ \A x \in Operations : x # o => at'[x] = at[x]
        /\ generation # 0
        /\ UNCHANGED <<killsTrees, process, child, generation, stopping, manuallyStopped,
                       incompatible, restartTimer, restartAttempt, treeTermination,
                       termination, target, treeKilled, launched>>
    BY <1>1, <1>4 DEF ShutdownAnswered, flags, killing, recovery, TypeOK, RecoveryInv,
                      CallsAreRestarts, InStop
  <2>2. ~Relaunch(o) /\ (OnItsWay => OnItsWay')
    BY <2>1 DEF OnItsWay, Relaunch
  <2>3. ChildComesBack'
    BY <2>1, <2>2, ComesBackStill DEF recovery
  <2> QED
    BY <2>1, <2>2, <2>3, MoveRecovery DEF InStop, Terminations
<1>5. CASE ShutdownOver(o)
  <2>1. /\ at[o] \in {"shutdown", "grace"} /\ TerminateChild(o, "stop", woken)
        /\ UNCHANGED <<killsTrees, process, child, generation, stopping, manuallyStopped,
                       incompatible, restartTimer, restartAttempt, launched>>
    BY <1>5 DEF ShutdownOver, flags, recovery
  <2>2. o \in Restarters /\ ~Relaunch(o)
    BY <2>1 DEF RecoveryInv, CallsAreRestarts, InStop, Relaunch
  <2> QED
    BY <1>1, <2>1, <2>2, SettlingTypes, TerminateRecovery
<1>6. CASE StopTerminated(o)
  <2>1. /\ at[o] = "stop" /\ woken[o] # "no" /\ o \in Restarters /\ generation # 0
        /\ ~killsTrees => termination # "exited"
        /\ UNCHANGED <<killsTrees, process, child, generation, manuallyStopped, incompatible,
                       restartTimer, restartAttempt, treeTermination, termination, target,
                       treeKilled, launched>>
    BY <1>6 DEF StopTerminated, killing, recovery, RecoveryInv, CallsAreRestarts,
                TargetIsReplaced, InStop, Terminations
  <2>2. /\ \A x \in Operations : x # o => at'[x] = at[x] /\ woken'[x] = woken[x]
        /\ \/ /\ at'[o] = "idle" /\ woken'[o] = "no" /\ woken[o] = "rejected"
              /\ stopping' = stopping
           \/ at'[o] = "start" /\ woken'[o] = "resolved"
    BY <1>1, <1>6, <2>1 DEF StopTerminated, StopReturns, Return, TypeOK
  <2>3. ChildComesBack'
    <3>1. CASE at'[o] = "start" /\ woken'[o] = "resolved"
      BY <3>1 DEF ChildComesBack, OnItsWay
    <3>2. CASE woken[o] = "rejected" /\ stopping' = stopping
      <4>1. OnItsWay => OnItsWay'
        BY <2>2, <3>2 DEF OnItsWay, Relaunch
      <4> QED
        BY <2>1, <3>2, <4>1, ComesBackStill DEF recovery
    <3> QED
      BY <2>2, <3>1, <3>2
  <2> QED
    BY <2>1, <2>2, <2>3, MoveRecovery DEF InStop, Terminations
<1> QED
  BY <1>2, <1>3, <1>4, <1>5, <1>6

\* A child exits.
LEMMA ExitRecovery ==
    ASSUME AgentProcessAssumption, RecoveryInv, TypeOK', NEW p \in Children, ChildExits(p)
    PROVE  RecoveryInv'
<1>1. TypeOK /\ generation \in Nat /\ child \in Children \cup {NoChild} /\ p # NoChild
  BY DEF RecoveryInv, TypeOK, Children, NoChild
<1>2. /\ process[p] = "live"
      /\ \A q \in Children : process'[q] = IF q = p THEN "gone" ELSE process[q]
      /\ \A x \in Operations : at'[x] = at[x] /\ woken[x] = "no"
      /\ termination # "exited"
      /\ termination' = IF termination = "waiting" /\ target = p /\ treeKilled
                        THEN "exited" ELSE termination
      /\ UNCHANGED <<killsTrees, stopping, manuallyStopped, incompatible, treeTermination,
                     target, treeKilled, launched>>
  BY <1>1 DEF ChildExits, Quiet, Asleep, TypeOK, flags
<1>3. child' = IF child = p THEN NoChild ELSE child
  BY DEF ChildExits, HandleExit
<1>4. \A x \in Operations :
        /\ at[x] \in Terminations => woken'[x] = "no"
        /\ woken'[x] = "resolved" => at[x] = "grace"
  BY <1>2 DEF ChildExits, HandleExit, AfterExit, Rejected, Pending, Terminations
<1>5. \A x \in Operations : at[x] # "start"
  BY <1>2 DEF RecoveryInv, CallsAreRestarts
<1>6. generation' = 0 => generation = 0
  BY <1>1 DEF ChildExits, HandleExit
<1>7. CallsAreRestarts'
  <2>1. child' # NoChild => process'[child'] = "live"
    BY <1>1, <1>2, <1>3 DEF RecoveryInv, CallsAreRestarts
  <2>2. generation' = 0 => child' = NoChild /\ termination' = "none"
    BY <1>2, <1>3, <1>6 DEF RecoveryInv, CallsAreRestarts
  <2> QED
    BY <1>2, <1>5, <1>6, <2>1, <2>2 DEF RecoveryInv, CallsAreRestarts
<1>8. ~LaunchIsWoken'
  BY <1>2, <1>4 DEF LaunchIsWoken
<1>9. LaunchesAreReal'
  BY <1>2, <1>8 DEF RecoveryInv, LaunchesAreReal
<1>10. Awaited => Awaited'
  BY <1>2, <1>4 DEF Awaited, Relaunch, Terminations
<1>11. TargetIsReplaced'
  <2>1. SUFFICES ASSUME ~killsTrees, termination # "none"
                 PROVE  TargetIsReplaced'
    BY <1>2 DEF RecoveryInv, TargetIsReplaced
  <2>2. termination = "waiting" /\ treeKilled /\ target \in Children
    BY <1>1, <1>2, <2>1 DEF RecoveryInv, TargetIsReplaced, TypeOK
  <2>3. child # target => Awaited'
    BY <1>10, <2>1, <2>2 DEF RecoveryInv, TargetIsReplaced
  <2>4. CASE target = p
    BY <1>2, <1>3, <1>4, <1>5, <2>1, <2>2, <2>3, <2>4 DEF RecoveryInv, TargetIsReplaced
  <2>5. CASE target # p
    <3>1. child' # target => child # target
      BY <1>3, <2>5
    <3>2. termination' = "waiting"
      BY <1>2, <2>2, <2>5
    <3> QED
      BY <1>2, <1>8, <2>1, <2>2, <2>3, <3>1, <3>2 DEF RecoveryInv, TargetIsReplaced
  <2> QED
    BY <2>4, <2>5
<1>12. ChildComesBack'
  <2>1. ~OnItsWay
    BY <1>2 DEF OnItsWay
  <2>2. CASE child # p
    <3>1. UNCHANGED <<child, recovery>>
      BY <2>2 DEF ChildExits, HandleExit
    <3> QED
      BY <1>2, <2>1, <3>1 DEF RecoveryInv, ChildComesBack, recovery
  <2>3. CASE child = p
    <3>1. stopping \/ manuallyStopped \/ ScheduleRecovery
      BY <2>3 DEF ChildExits, HandleExit
    <3>2. ASSUME ScheduleRecovery, ~killsTrees, ~manuallyStopped, ~incompatible,
                 restartAttempt' < MaxAttempts
          PROVE  restartTimer'
      <4>1. treeTermination = "none"
        BY <3>2 DEF RecoveryInv, TargetIsReplaced
      <4>2. restartAttempt \in Int /\ MaxAttempts \in Int
        BY <1>1 DEF AgentProcessAssumption, TypeOK
      <4>3. restartAttempt < MaxAttempts
        BY <3>2, <4>2 DEF ScheduleRecovery, MayRecover
      <4> QED
        BY <3>2, <4>1, <4>3 DEF ScheduleRecovery, MayRecover
    <3> QED
      BY <1>2, <3>1, <3>2 DEF ChildComesBack
  <2> QED
    BY <2>2, <2>3
<1> QED
  BY <1>7, <1>9, <1>11, <1>12 DEF RecoveryInv

\* A termination ends, with success or not, or its taskkill does.
LEMMA TerminationEndsRecovery ==
    ASSUME AgentProcessAssumption, RecoveryInv, TypeOK',
           TreeKilled \/ TerminationSucceeds \/ TerminationFails
    PROVE  RecoveryInv'
<1>1. TypeOK
  BY DEF RecoveryInv
<1>2. CASE TreeKilled
  <2>1. /\ termination = "waiting" /\ ~treeKilled
        /\ UNCHANGED <<killsTrees, process, child, generation, at, woken, launched>>
    BY <1>2 DEF TreeKilled, calls
  <2>2. killsTrees /\ generation # 0
    BY <2>1 DEF RecoveryInv, TargetIsReplaced, CallsAreRestarts
  <2>3. TargetIsReplaced' /\ ChildComesBack'
    BY <2>1, <2>2 DEF TargetIsReplaced, ChildComesBack
  <2>4. CallsAreRestarts'
    BY <2>1, <2>2 DEF RecoveryInv, CallsAreRestarts
  <2>5. LaunchesAreReal'
    BY <2>1 DEF RecoveryInv, LaunchesAreReal, LaunchIsWoken
  <2> QED
    BY <2>3, <2>4, <2>5 DEF RecoveryInv
<1>3. CASE TerminationSucceeds
  <2>1. /\ termination = "exited" /\ termination' = "none" /\ treeTermination' = "none"
        /\ child' = NoChild /\ generation' = generation + 1 /\ generation' # 0
        /\ \A x \in Operations : woken[x] = "no"
        /\ UNCHANGED <<killsTrees, process, stopping, manuallyStopped, incompatible,
                       restartTimer, restartAttempt, at, launched>>
    BY <1>1, <1>3 DEF TerminationSucceeds, Asleep, flags, recovery, TypeOK
  <2>2. \A x \in Operations : at[x] \in Terminations => woken'[x] = "resolved"
    BY <1>3, <2>1 DEF TerminationSucceeds, Waiting
  <2>3. CallsAreRestarts'
    <3>1. \A x \in Operations : at[x] # "start"
      BY <2>1 DEF RecoveryInv, CallsAreRestarts
    <3> QED
      BY <2>1, <3>1 DEF RecoveryInv, CallsAreRestarts
  <2>4. LaunchesAreReal'
    BY <2>1 DEF RecoveryInv, LaunchesAreReal, Children, NoChild
  <2>5. TargetIsReplaced'
    BY <2>1 DEF TargetIsReplaced
  <2>6. ChildComesBack'
    <3>1. CASE killsTrees
      BY <2>1, <3>1 DEF ChildComesBack
    <3>2. CASE ~killsTrees /\ child # NoChild
      <4>1. Awaited
        BY <2>1, <3>2 DEF RecoveryInv, TargetIsReplaced
      <4>2. OnItsWay'
        BY <2>1, <2>2, <4>1 DEF Awaited, OnItsWay, Relaunch, Terminations
      <4> QED
        BY <4>2 DEF ChildComesBack
    <3>3. CASE child = NoChild
      BY <2>1, <3>3 DEF RecoveryInv, ChildComesBack, OnItsWay
    <3> QED
      BY <3>1, <3>2, <3>3
  <2> QED
    BY <2>3, <2>4, <2>5, <2>6 DEF RecoveryInv
<1>4. CASE TerminationFails
  <2>1. /\ termination = "waiting" /\ termination' = "none"
        /\ ~killsTrees => treeTermination' = treeTermination
        /\ \A x \in Operations : /\ woken[x] = "no"
                                 /\ woken'[x] = IF x \in Waiting THEN "rejected" ELSE "no"
        /\ UNCHANGED <<killsTrees, process, child, generation, stopping, manuallyStopped,
                       incompatible, restartTimer, restartAttempt, at, launched>>
    BY <1>4 DEF TerminationFails, Quiet, Asleep, flags, recovery
  <2>2. CallsAreRestarts'
    <3>1. \A x \in Operations : at[x] # "start"
      BY <2>1 DEF RecoveryInv, CallsAreRestarts
    <3> QED
      BY <2>1, <3>1 DEF RecoveryInv, CallsAreRestarts
  <2>3. LaunchesAreReal'
    BY <2>1 DEF RecoveryInv, LaunchesAreReal, Waiting, Terminations
  <2>4. TargetIsReplaced'
    BY <2>1 DEF RecoveryInv, TargetIsReplaced
  <2>5. ChildComesBack'
    BY <2>1 DEF RecoveryInv, ChildComesBack, OnItsWay
  <2> QED
    BY <2>2, <2>3, <2>4, <2>5 DEF RecoveryInv
<1> QED
  BY <1>2, <1>3, <1>4

\* A signal cannot be sent, or a connection fails.
LEMMA FailingRecovery ==
    ASSUME AgentProcessAssumption, RecoveryInv, TypeOK',
           \/ SignalFails
           \/ \E f \in Failures : FailConnection(f) \/ ConnectionFailed(f)
    PROVE  RecoveryInv'
<1>1. TypeOK
  BY DEF RecoveryInv
<1>2. \A x \in Operations : \/ Rejected[x] = woken[x]
                            \/ at[x] \in {"shutdown", "init"} /\ Rejected[x] = "rejected"
  BY DEF Rejected, Pending
<1>3. Quiet => ~LaunchIsWoken
  BY DEF Quiet, Asleep, LaunchIsWoken
<1>4. CASE SignalFails
  <2>1. /\ \A x \in Operations : woken[x] = "no" /\ woken'[x] = Rejected[x]
        /\ UNCHANGED <<killsTrees, process, child, generation, stopping, manuallyStopped,
                       incompatible, restartTimer, restartAttempt, treeTermination,
                       termination, target, treeKilled, at, launched>>
    BY <1>4 DEF SignalFails, Quiet, Asleep, flags, recovery, killing
  <2>2. ~LaunchIsWoken'
    BY <1>2, <2>1 DEF LaunchIsWoken
  <2>3. Awaited => Awaited'
    BY <1>2, <2>1 DEF Awaited, Relaunch
  <2>4. CallsAreRestarts'
    BY <1>2, <2>1 DEF RecoveryInv, CallsAreRestarts
  <2>5. LaunchesAreReal'
    BY <2>1, <2>2 DEF RecoveryInv, LaunchesAreReal
  <2>6. TargetIsReplaced'
    BY <1>2, <2>1, <2>2, <2>3 DEF RecoveryInv, TargetIsReplaced, Terminations
  <2>7. ChildComesBack'
    BY <2>1 DEF RecoveryInv, ChildComesBack, OnItsWay
  <2> QED
    BY <2>4, <2>5, <2>6, <2>7 DEF RecoveryInv
<1>5. ASSUME NEW f \in Failures, FailConnection(f)
      PROVE  RecoveryInv'
  <2>1. /\ at[f] = "idle" /\ child # NoChild /\ Quiet
        /\ TerminateChild(f, "fail", Rejected)
        /\ UNCHANGED <<killsTrees, process, child, generation, launched>>
    BY <1>5 DEF FailConnection
  <2>2. ~Relaunch(f) /\ f \in Operations
    BY <2>1, OperationSets DEF Relaunch
  <2> QED
    BY <1>1, <1>2, <1>3, <2>1, <2>2, SettlingTypes, TerminateRecovery
<1>6. ASSUME NEW f \in Failures, ConnectionFailed(f)
      PROVE  RecoveryInv'
  <2>1. /\ at[f] = "fail" /\ Return(f) /\ f \in Operations
        /\ UNCHANGED recovery \/ ScheduleRecovery
        /\ UNCHANGED <<killsTrees, process, child, generation, stopping, manuallyStopped,
                       incompatible, treeTermination, termination, target, treeKilled,
                       launched>>
    BY <1>6, OperationSets DEF ConnectionFailed, flags, killing
  <2>2. /\ at'[f] = "idle" /\ woken'[f] = "no"
        /\ \A x \in Operations : x # f => at'[x] = at[x] /\ woken'[x] = woken[x]
    BY <1>1, <2>1, Returning
  <2>3. ~Relaunch(f) /\ (OnItsWay => OnItsWay')
    BY <2>1, <2>2 DEF OnItsWay, Relaunch
  <2>4. ChildComesBack'
    BY <2>1, <2>3, ComesBackStill
  <2> QED
    BY <2>1, <2>2, <2>3, <2>4, MoveRecovery DEF InStop, Terminations
<1> QED
  BY <1>4, <1>5, <1>6

\* Every step keeps the invariant.
LEMMA NextKeepsRecovery ==
    ASSUME AgentProcessAssumption, RestartsOnly, RecoveryInv, [Next]_vars
    PROVE  RecoveryInv'
<1>1. CASE UNCHANGED vars
  <2>1. UNCHANGED <<killsTrees, process, child, generation, state, stopping, manuallyStopped,
                    incompatible, restartAttempt, restartTimer, treeTermination, termination,
                    target, treeKilled, at, woken, launched, seen>>
    BY <1>1 DEF vars, flags, recovery, killing, calls
  <2>2. TypeOK' /\ CallsAreRestarts'
    BY <2>1 DEF RecoveryInv, TypeOK, CallsAreRestarts
  <2>3. LaunchesAreReal' /\ TargetIsReplaced' /\ ChildComesBack'
    BY <2>1 DEF RecoveryInv, LaunchesAreReal, TargetIsReplaced, ChildComesBack, LaunchIsWoken,
                Awaited, OnItsWay, Relaunch
  <2> QED
    BY <2>2, <2>3 DEF RecoveryInv
<1>2. CASE Next
  <2>1. TypeOK'
    BY <1>2, NextKeepsTypes DEF RecoveryInv
  <2> QED
    BY <1>2, <2>1, LaunchingRecovery, StoppingRecovery, ExitRecovery, TerminationEndsRecovery,
       FailingRecovery, OperationSets DEF Next
<1> QED
  BY <1>1, <1>2

-----------------------------------------------------------------------------
(* The theorem about recovery *)

\* An agent that went down by itself has a timer while attempts are left.
LEMMA RecoveryIsScheduled ==
    ASSUME RecoveryInv
    PROVE  RecoveryScheduled
  BY DEF RecoveryInv, ChildComesBack, OnItsWay, Relaunch, RecoveryScheduled, Down, AllIdle

\* Whatever restarts, recoveries and failed connections overlap: where children are ended by
\* signals, an agent that went down by itself is brought back while attempts are left
\* (handleExit(), launch(), failConnection()).
THEOREM AgentsComeBack ==
    ASSUME AgentProcessAssumption, RestartsOnly
    PROVE  Spec => []RecoveryScheduled
<1>1. Init => RecoveryInv
  BY InitRecovery
<1>2. RecoveryInv /\ [Next]_vars => RecoveryInv'
  BY NextKeepsRecovery
<1>3. RecoveryInv => RecoveryScheduled
  BY RecoveryIsScheduled
<1> QED
  BY <1>1, <1>2, <1>3, PTL DEF Spec
=============================================================================
