------------------------------ MODULE MCLiveness ------------------------------
(***************************************************************************)
(* What must happen at last in three parts that share no state: the calls  *)
(* between a gateway and its agent, the dispatches of the automations, and *)
(* the upload of the turns' usage.  A scenario runs one of them while the  *)
(* others stay as they began; each has the fairness of its own module.     *)
(***************************************************************************)
EXTENDS Integers, Sequences

CONSTANTS s1, r1, m1, t1, c1, NoRun

VARIABLES
    scenario,
    connection, launches, turn, stop, stops, steering, steeredRun, calls, requeued,
    toAgent, toGateway, handle, aborted, inbox, batch, transcript,
    now, tasks, runs, service, ticking, recovered, unconfirmed, due, dispatching, edits,
    naming,
    recorded, old, cursor, base, stored, late, flight, rerun, backlogTimer, syncing, exits

agentVars == <<connection, launches, turn, stop, stops, steering, steeredRun, calls, requeued,
               toAgent, toGateway, handle, aborted, inbox, batch, transcript>>
automationVars == <<now, tasks, runs, service, ticking, recovered, unconfirmed, due,
                    dispatching, edits, naming>>
usageVars == <<recorded, old, cursor, base, stored, late, flight, rerun, backlogTimer,
               syncing, exits>>
vars == <<scenario, agentVars, automationVars, usageVars>>

OneRun == [r \in {r1} |-> s1]
Once == [kind |-> "once", target |-> "new", every |-> 0, times |-> {1}, jitter |-> 0]
Interval == [kind |-> "interval", target |-> "new", every |-> 1, times |-> {}, jitter |-> 0]

\* One run, one steering message, a stop that may be tried again, and one child.
Agent == INSTANCE AgentRuns WITH
    Runs <- {r1}, SessionOf <- OneRun, Messages <- {m1}, MaxStops <- 2, MaxLaunches <- 1
\* One plan, one start; stops and crashes while a tick or a manual run is under way.
Plans == INSTANCE Automations WITH
    Tasks <- {t1}, Definitions <- {Interval, Once}, Callers <- {c1}, BatchSize <- 3,
    MaxTime <- 1, MaxVersion <- 1, MaxRuns <- 1
\* Three turns in batches of two, the last of them too large, and two ends of the process.
Usage == INSTANCE TurnUsageSync WITH
    MaxTurns <- 3, BatchLimit <- 2, MaxBatches <- 1, Oversized <- {3}, MaxStops <- 2,
    service <- syncing, stops <- exits
Reports == INSTANCE TurnReports WITH MaxTurns <- 3

\* What the upload of usage assumes of its constants.
ASSUME UsageAssumption == Usage!TurnUsageSyncAssumption

Init ==
    /\ scenario \in {"agent", "plans", "usage"}
    /\ Agent!Init /\ Plans!Init /\ Usage!Init
    /\ scenario # "usage" => recorded = 0

InAgent(A) == scenario = "agent" /\ A /\ UNCHANGED <<scenario, automationVars, usageVars>>
InPlans(A) == scenario = "plans" /\ A /\ UNCHANGED <<scenario, agentVars, usageVars>>
InUsage(A) == scenario = "usage" /\ A /\ UNCHANGED <<scenario, agentVars, automationVars>>

AgentStep == InAgent(Agent!Next)
PlanStep == InPlans(Plans!Next)
UsageStep == InUsage(Usage!Next)

Next == AgentStep \/ PlanStep \/ UsageStep

Spec == Init /\ [][Next]_vars

\* The fairness of AgentRuns, Automations and TurnUsageSync, each in its scenario.
Fairness ==
    /\ WF_vars(InAgent(Agent!Dispatch)) /\ WF_vars(InAgent(Agent!Respond))
    /\ WF_vars(InAgent(Agent!AppendSteering(r1) \/ Agent!AppendFails(r1)))
    /\ WF_vars(InAgent(\E o \in Agent!Outcomes \cup {"threw"} : Agent!TurnEnds(r1, o)))
    /\ WF_vars(InAgent(Agent!TurnReturns(r1) \/ Agent!TurnThrows(r1)))
    /\ WF_vars(InPlans(Plans!DispatchStep(t1)))
    /\ WF_vars(InPlans(Plans!TickStep)) /\ WF_vars(InPlans(Plans!Stopped))
    /\ WF_vars(InUsage(Usage!Start)) /\ WF_vars(InUsage(Usage!Tick))
    /\ WF_vars(InUsage(Usage!NextBatch)) /\ WF_vars(InUsage(Usage!RunEnds))
    /\ WF_vars(InUsage(syncing = "stopped" /\ Usage!Exit))
    /\ WF_vars(InUsage(Usage!UploadFails \/ Usage!Acknowledged))
    /\ SF_vars(InUsage(Usage!ServerTakes)) /\ SF_vars(InUsage(Usage!Acknowledged))

FairSpec == Spec /\ Fairness

-----------------------------------------------------------------------------
\* AgentRuns: every call settles, by its answer, its timer or the end of the connection.
CallsSettle == Agent!CallsSettle

\* Automations: no run stays prepared, and stop() ends.
PlansSettle == Plans!RunsSettle /\ Plans!StopEnds

\* TurnUsageSync: the server gets the turns in order and without a gap.
ImplementsTurnReports == Reports!Spec

\* TurnUsageSync: every turn is confirmed at last.
TurnsReachTheServer == Usage!TurnsReachTheServer
=============================================================================
