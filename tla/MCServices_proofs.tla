--------------------------- MODULE MCServices_proofs ---------------------------
(***************************************************************************)
(* The theorems about the parts, carried to the instances of them that the *)
(* run of MCServices checks, as MCExecution_proofs does for the others.    *)
(***************************************************************************)
EXTENDS MCServices, TLAPS

\* A run of the sum stays in its scenario.
LEMMA ScenarioStays ==
    ASSUME [Next]_vars
    PROVE  scenario' = scenario
  BY DEF Next, vars, TranscriptStep, ApprovalStep, UpdateStep, AnswerStep,
     RoutingStep, CardStep, LifecycleStep, GatewayStep, CloudStep, Others

-----------------------------------------------------------------------------
\* The gateways the application makes and gives up, and those of which it looks after the
\* agent: the inductive invariants of DesktopGateway, each in its scenario.
DesktopKept == Desktop!GatewayInv /\ Desktop!LossInv /\ Desktop!Unlost
AgentCallsKept == AgentCalls!GatewayInv /\ AgentCalls!LossInv /\ AgentCalls!Unlost
DesktopHere == scenario = "gateways" => DesktopKept
AgentCallsHere == scenario = "agent" => AgentCallsKept

\* In its scenario, every step of the sum is one of the application, or leaves it alone.
LEMMA DesktopMoves ==
    ASSUME scenario = "gateways", [Next]_vars
    PROVE  [Desktop!Next]_(Desktop!vars)
  BY DEF Next, vars, TranscriptStep, ApprovalStep, UpdateStep, AnswerStep,
     RoutingStep, CardStep, LifecycleStep, GatewayStep, CloudStep, Others, gatewayVars,
     Desktop!vars

\* And every step is one of the calls about the agent, in the scenario of those.
LEMMA AgentCallsMove ==
    ASSUME scenario = "agent", [Next]_vars
    PROVE  [AgentCalls!Next]_(AgentCalls!vars)
  BY DEF Next, vars, TranscriptStep, ApprovalStep, UpdateStep, AnswerStep,
     RoutingStep, CardStep, LifecycleStep, GatewayStep, CloudStep, Others, gatewayVars,
     AgentCalls!vars

\* What DesktopGateway rests on holds of the application.
LEMMA DesktopHolds == Spec => []DesktopHere
<1>1. Desktop!DesktopGatewayAssumption
  BY PartsAssumption
<1>2. Init => DesktopHere
  <2>1. SUFFICES ASSUME Init, scenario = "gateways"
                 PROVE  DesktopKept
    BY DEF DesktopHere
  <2>2. Desktop!Init
    BY <2>1 DEF Init
  <2> QED
    BY <1>1, <2>2, Desktop!InitGateways, Desktop!InitLoses
       DEF DesktopKept, Desktop!Init, Desktop!Unlost
<1>3. DesktopHere /\ [Next]_vars => DesktopHere'
  <2>1. SUFFICES ASSUME DesktopHere, [Next]_vars, scenario' = "gateways"
                 PROVE  DesktopKept'
    BY DEF DesktopHere
  <2>2. scenario = "gateways"
    BY <2>1, ScenarioStays
  <2>3. DesktopKept
    BY <2>1, <2>2 DEF DesktopHere
  <2>4. [Desktop!Next]_(Desktop!vars)
    BY <2>1, <2>2, DesktopMoves
  <2>5. CASE Desktop!Next
    BY <1>1, <2>3, <2>5, Desktop!NextKeeps, Desktop!NextLoses, Desktop!NextSpares DEF DesktopKept
  <2>6. CASE UNCHANGED Desktop!vars
    BY <1>1, <2>3, <2>6, Desktop!StutteringKeeps, Desktop!StutteringLoses
       DEF DesktopKept, Desktop!Unlost, Desktop!vars
  <2> QED
    BY <2>4, <2>5, <2>6
<1> QED
  BY <1>2, <1>3, PTL DEF Spec

\* And of its calls about the agent.
LEMMA AgentCallsHold == Spec => []AgentCallsHere
<1>1. AgentCalls!DesktopGatewayAssumption
  BY PartsAssumption
<1>2. Init => AgentCallsHere
  <2>1. SUFFICES ASSUME Init, scenario = "agent"
                 PROVE  AgentCallsKept
    BY DEF AgentCallsHere
  <2>2. AgentCalls!Init
    BY <2>1 DEF Init, Desktop!Init, AgentCalls!Init, Desktop!Gateways, AgentCalls!Gateways,
       Desktop!Unmade, AgentCalls!Unmade, Desktop!None, AgentCalls!None
  <2> QED
    BY <1>1, <2>2, AgentCalls!InitGateways, AgentCalls!InitLoses
       DEF AgentCallsKept, AgentCalls!Init, AgentCalls!Unlost
<1>3. AgentCallsHere /\ [Next]_vars => AgentCallsHere'
  <2>1. SUFFICES ASSUME AgentCallsHere, [Next]_vars, scenario' = "agent"
                 PROVE  AgentCallsKept'
    BY DEF AgentCallsHere
  <2>2. scenario = "agent"
    BY <2>1, ScenarioStays
  <2>3. AgentCallsKept
    BY <2>1, <2>2 DEF AgentCallsHere
  <2>4. [AgentCalls!Next]_(AgentCalls!vars)
    BY <2>1, <2>2, AgentCallsMove
  <2>5. CASE AgentCalls!Next
    BY <1>1, <2>3, <2>5, AgentCalls!NextKeeps, AgentCalls!NextLoses, AgentCalls!NextSpares DEF AgentCallsKept
  <2>6. CASE UNCHANGED AgentCalls!vars
    BY <1>1, <2>3, <2>6, AgentCalls!StutteringKeeps, AgentCalls!StutteringLoses
       DEF AgentCallsKept, AgentCalls!Unlost, AgentCalls!vars
  <2> QED
    BY <2>4, <2>5, <2>6
<1> QED
  BY <1>2, <1>3, PTL DEF Spec

\* DesktopGateway in the sum: nothing runs of a gateway that was given up, an installer finds
\* none running, and "stopped" is nothing at all, but for the gateways lost in the two ways
\* the history names; none is lost, and "ready" is true between calls, as long as no calls but
\* those about the agent ran beside each other.
THEOREM GatewaysStand == Spec => []GatewaysHold
<1>1. Desktop!DesktopGatewayAssumption /\ AgentCalls!DesktopGatewayAssumption
  BY PartsAssumption
<1>2. DesktopHere => (scenario = "gateways" => /\ Desktop!TypeOK /\ Desktop!NoStrays
                                               /\ Desktop!InstallsAtRest /\ Desktop!HealthTells)
  BY <1>1, Desktop!GatewayFacts DEF DesktopHere, DesktopKept
<1>3. AgentCallsHere => (scenario = "agent" =>
         /\ AgentCalls!TypeOK /\ AgentCalls!NoStrays
         /\ AgentCalls!InstallsAtRest /\ AgentCalls!HealthTells)
  BY <1>1, AgentCalls!GatewayFacts DEF AgentCallsHere, AgentCallsKept
<1>4. DesktopHere /\ AgentCallsHere => GatewaysHold
  BY <1>2, <1>3 DEF GatewaysHold
<1> QED
  BY <1>4, DesktopHolds, AgentCallsHold, PTL

-----------------------------------------------------------------------------
\* A run of the sum is, for the gateway that starts and stops, a run of GatewayLifecycle.
LEMMA LifecycleRuns == Spec => Desktop!Life!Spec
<1>1. Init => Desktop!Life!Init
  BY DEF Init
<1>2. [Next]_vars => [Desktop!Life!Next]_(Desktop!Life!vars)
  BY DEF Next, vars, TranscriptStep, ApprovalStep, UpdateStep, AnswerStep,
     RoutingStep, CardStep, LifecycleStep, GatewayStep, CloudStep, Others, lifeVars,
     Desktop!Life!vars
<1> QED
  BY <1>1, <1>2, PTL DEF Spec, Desktop!Life!Spec

\* GatewayLifecycle in the sum: a stop() without errors has left nothing up, wherever start()
\* was; and with them everything is down in the end, but for an agent that could not be
\* stopped.
THEOREM LifecycleStands == Spec => []LifecycleHolds
<1>1. Desktop!Life!GatewayLifecycleAssumption
  BY PartsAssumption
<1>2. Desktop!Life!Spec =>
          [](Desktop!Life!TypeOK /\ Desktop!Life!CleanEndsAreDown
             /\ Desktop!Life!StopsInTheEnd)
  BY <1>1, Desktop!StopsLeaveNothing
<1>3. Desktop!Life!TypeOK /\ Desktop!Life!CleanEndsAreDown
      /\ Desktop!Life!StopsInTheEnd => LifecycleHolds
  BY DEF LifecycleHolds
<1> QED
  BY <1>2, <1>3, LifecycleRuns, PTL

-----------------------------------------------------------------------------
\* A run of the sum is, for the update of the application, a run of UpdateInstall.
LEMMA UpdateRuns == Spec => Desktop!Update!Spec
<1>1. Init => Desktop!Update!Init
  BY DEF Init
<1>2. [Next]_vars => [Desktop!Update!Next]_(Desktop!Update!vars)
  BY DEF Next, vars, TranscriptStep, ApprovalStep, UpdateStep, AnswerStep,
     RoutingStep, CardStep, LifecycleStep, GatewayStep, CloudStep, Others, updateVars,
     Desktop!Update!vars, Desktop!Update!server, Desktop!Update!service,
     Desktop!Update!scheduler
<1> QED
  BY <1>1, <1>2, PTL DEF Spec, Desktop!Update!Spec

\* UpdateInstall in the sum: the fence comes down on every path that installs nothing, the
\* installer runs at rest, and only what the user confirmed is stopped.
THEOREM UpdateStands == Spec => UpdateHolds
<1>1. Desktop!Update!UpdateAssumption
  BY PartsAssumption
<1>2. Desktop!Update!Spec =>
          /\ [](Desktop!Update!TypeOK /\ Desktop!Update!FenceIsLifted
                /\ Desktop!Update!InstallsAtRest)
          /\ [][Desktop!Update!OnlyKnownWorkIsStopped]_(Desktop!Update!vars)
  BY <1>1, Desktop!UpdatesInstallAtRest
<1>3. Desktop!Update!TypeOK /\ Desktop!Update!FenceIsLifted /\ Desktop!Update!InstallsAtRest =>
          (scenario = "update" => /\ Desktop!Update!TypeOK
                                  /\ Desktop!Update!FenceIsLifted
                                  /\ Desktop!Update!InstallsAtRest)
  OBVIOUS
<1>4. [Desktop!Update!OnlyKnownWorkIsStopped]_(Desktop!Update!vars) =>
          [scenario = "update" => Desktop!Update!OnlyKnownWorkIsStopped]_vars
  <2>1. UNCHANGED Desktop!Update!vars => Desktop!Update!OnlyKnownWorkIsStopped
    BY DEF Desktop!Update!vars, Desktop!Update!service, Desktop!Update!OnlyKnownWorkIsStopped
  <2> QED
    BY <2>1
<1> QED
  BY <1>2, <1>3, <1>4, UpdateRuns, PTL DEF UpdateHolds

-----------------------------------------------------------------------------
\* A run of the sum is, for the calls that ask for an approval, a run of Approvals.
LEMMA ApprovalsRun == Spec => Desktop!Grants!Spec
<1>1. Init => Desktop!Grants!Init
  BY DEF Init
<1>2. [Next]_vars => [Desktop!Grants!Next]_(Desktop!Grants!vars)
  BY DEF Next, vars, TranscriptStep, ApprovalStep, UpdateStep, AnswerStep,
     RoutingStep, CardStep, LifecycleStep, GatewayStep, CloudStep, Others, approvalVars,
     Desktop!Grants!vars
<1> QED
  BY <1>1, <1>2, PTL DEF Spec, Desktop!Grants!Spec

\* Approvals in the sum: a grant is live when it is given, and no call is left waiting.
THEOREM ApprovalsStand == Spec => ApprovalsHold
<1>1. Desktop!Grants!ApprovalsAssumption
  BY PartsAssumption
<1>2. Desktop!Grants!Spec =>
          /\ [](Desktop!Grants!TypeOK /\ Desktop!Grants!RequestsSettle)
          /\ [][Desktop!Grants!GrantsAreLive]_(Desktop!Grants!vars)
  BY <1>1, Desktop!ApprovalsSettle
<1>3. Desktop!Grants!TypeOK /\ Desktop!Grants!RequestsSettle =>
          (scenario = "approvals" => Desktop!Grants!TypeOK /\ Desktop!Grants!RequestsSettle)
  OBVIOUS
<1>4. [Desktop!Grants!GrantsAreLive]_(Desktop!Grants!vars) =>
          [scenario = "approvals" => Desktop!Grants!GrantsAreLive]_vars
  <2>1. UNCHANGED Desktop!Grants!vars => Desktop!Grants!GrantsAreLive
    BY DEF Desktop!Grants!vars, Desktop!Grants!GrantsAreLive
  <2> QED
    BY <2>1
<1> QED
  BY <1>2, <1>3, <1>4, ApprovalsRun, PTL DEF ApprovalsHold

-----------------------------------------------------------------------------
\* A run of the sum is, for the messages and the deletion of a chat, a run of SessionRouting.
LEMMA RoutingRuns == Spec => Desktop!Routing!Spec
<1>1. Init => Desktop!Routing!Init
  BY DEF Init
<1>2. [Next]_vars => [Desktop!Routing!Next]_(Desktop!Routing!vars)
  BY DEF Next, vars, TranscriptStep, ApprovalStep, UpdateStep, AnswerStep,
     RoutingStep, CardStep, LifecycleStep, GatewayStep, CloudStep, Others, routingVars,
     Desktop!Routing!vars
<1> QED
  BY <1>1, <1>2, PTL DEF Spec, Desktop!Routing!Spec

\* SessionRouting in the sum: bindings lead to sessions that are not deleted, a deleted session
\* comes back only by a text that was under way, a deletion that failed puts the bindings
\* back; and no key is taken from a session with work.
THEOREM RoutingStands == Spec => RoutingHolds
<1>1. Desktop!Routing!RoutingAssumption
  BY PartsAssumption
<1>2. Desktop!Routing!Spec =>
          /\ []Desktop!Routing!RoutingInv
          /\ [][Desktop!Routing!KeysLeaveIdleSessions]_(Desktop!Routing!vars)
  BY <1>1, Desktop!RoutesLeadHome
<1>3. Desktop!Routing!RoutingInv => (scenario = "routing" => Desktop!Routing!RoutingInv)
  OBVIOUS
<1>4. [Desktop!Routing!KeysLeaveIdleSessions]_(Desktop!Routing!vars) =>
          [scenario = "routing" => Desktop!Routing!KeysLeaveIdleSessions]_vars
  <2>1. UNCHANGED Desktop!Routing!vars => Desktop!Routing!KeysLeaveIdleSessions
    BY DEF Desktop!Routing!vars, Desktop!Routing!KeysLeaveIdleSessions
  <2> QED
    BY <2>1
<1> QED
  BY <1>2, <1>3, <1>4, RoutingRuns, PTL DEF RoutingHolds
=============================================================================
