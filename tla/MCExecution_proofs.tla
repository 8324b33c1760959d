-------------------------- MODULE MCExecution_proofs --------------------------
(***************************************************************************)
(* The theorems about the parts, carried to the instances of them that the *)
(* run of MCExecution checks: each step of the sum is a step of the part,  *)
(* or leaves its variables alone, so what the part proves of itself holds  *)
(* of the part in the sum.                                                 *)
(***************************************************************************)
EXTENDS MCExecution, TLAPS

\* The login of the browser behaves as MabangLogin.
LEMMA BrowserRuns == Spec => Outside!Browser!Spec
<1>1. Init => Outside!Browser!Init
  BY DEF Init
<1>2. [Next]_vars => [Outside!Browser!Next]_(Outside!Browser!vars)
  BY DEF Next, vars, ProcessStep, RunStep, TurnStep, ResultStep, CommandStep, WorkspaceStep,
     ServerStep, ExportStep, CaptchaStep, BrowserStep, Others, browserVars,
     Outside!Browser!vars
<1> QED
  BY <1>1, <1>2, PTL DEF Spec, Outside!Browser!Spec

-----------------------------------------------------------------------------
\* MabangLogin in the sum: commands that find no login make one between them, the last login
\* stands, and a retry is not made with the one that was rejected.
THEOREM LoginsStand == Spec => []BrowserLoginsHold
<1>1. Outside!Browser!MabangLoginAssumption
  BY PartsAssumption
<1>2. Outside!Browser!Spec => []Outside!Browser!MabangInv
  BY <1>1, Outside!LoginsHold
<1>3. Outside!Browser!MabangInv => BrowserLoginsHold
  BY DEF BrowserLoginsHold
<1> QED
  BY BrowserRuns, <1>2, <1>3, PTL

-----------------------------------------------------------------------------
\* The connection to the server behaves as McpServers.
LEMMA ServerRuns == Spec => Outside!Spec
<1>1. Init => Outside!Init
  BY DEF Init
<1>2. [Next]_vars => [Outside!Next]_(Outside!vars)
  BY DEF Next, vars, ProcessStep, RunStep, TurnStep, ResultStep, CommandStep, WorkspaceStep,
     ServerStep, ExportStep, CaptchaStep, BrowserStep, Others, serverVars,
     Outside!vars
<1> QED
  BY <1>1, <1>2, PTL DEF Spec, Outside!Spec

\* McpServers in the sum: the tools call the connection that is open and on record, none is
\* left open behind, and when nothing is under way the last word has come true.
THEOREM ServersStand == Spec => []ServersHold
<1>1. Outside!McpServersAssumption
  BY PartsAssumption
<1>2. Outside!OneStart
  BY DEF Outside!OneStart, SwitchOf
<1>3. Outside!Spec => []Outside!ServersInv
  BY <1>1, <1>2, Outside!ServersAreConnected
<1>4. Outside!ServersInv => ServersHold
  BY DEF ServersHold
<1> QED
  BY ServerRuns, <1>3, <1>4, PTL

-----------------------------------------------------------------------------
\* A run of the sum stays in its scenario.
LEMMA ScenarioStays ==
    ASSUME [Next]_vars
    PROVE  scenario' = scenario
  BY DEF Next, vars, ProcessStep, RunStep, TurnStep, ResultStep, CommandStep, WorkspaceStep,
     ServerStep, ExportStep, CaptchaStep, BrowserStep, Others

\* The process of the agent where calls overlap: the inductive invariant of AgentProcess, in
\* the scenario whose steps are its own.  Another scenario shares the variables, so what is
\* proved of the specification of AgentProcess does not carry over as a whole, but its steps do.
OwnedHere == scenario = "process" => Process!OwnedInv

\* The same of the process that goes down by itself.
RecoveredHere == scenario = "recovery" => Recovery!RecoveryInv

\* In its scenario, every step of the sum is one of the process, or leaves it alone.
LEMMA ProcessMoves ==
    ASSUME scenario = "process", [Next]_vars
    PROVE  [Process!Next]_(Process!vars)
  BY DEF Next, vars, ProcessStep, RunStep, TurnStep, ResultStep, CommandStep, WorkspaceStep,
     ServerStep, ExportStep, CaptchaStep, BrowserStep, Others, processVars,
     Process!vars, Process!flags, Process!recovery, Process!killing, Process!calls

\* And every step is one of the process that recovers, in the scenario of that.
LEMMA RecoveryMoves ==
    ASSUME scenario = "recovery", [Next]_vars
    PROVE  [Recovery!Next]_(Recovery!vars)
  BY DEF Next, vars, ProcessStep, RunStep, TurnStep, ResultStep, CommandStep, WorkspaceStep,
     ServerStep, ExportStep, CaptchaStep, BrowserStep, Others, processVars,
     Recovery!vars, Recovery!flags, Recovery!recovery, Recovery!killing, Recovery!calls

\* AgentProcess in the sum: a child that lives is owned, and a request that waits for
\* initialize belongs to the owned child; when stop() had the last word none is left alive
\* but one that outlived the signals it was sent; and an agent is spawned only when no other
\* lives and every tree that was killed is known to be gone.
THEOREM ProcessStands == Spec => AgentIsOwned
<1>1. Process!AgentProcessAssumption
  BY PartsAssumption
<1>2. Process!OneRestarter
  BY DEF Process!OneRestarter
<1>3. Init => OwnedHere
  <2>1. SUFFICES ASSUME Init, scenario = "process"
                 PROVE  Process!OwnedInv
    BY DEF OwnedHere
  <2>2. Process!Init
    BY <2>1 DEF Init
  <2> QED
    BY <1>1, <2>2, Process!InitOwned
<1>4. OwnedHere /\ [Next]_vars => OwnedHere'
  <2>1. SUFFICES ASSUME OwnedHere, [Next]_vars, scenario' = "process"
                 PROVE  Process!OwnedInv'
    BY DEF OwnedHere
  <2>2. scenario = "process"
    BY <2>1, ScenarioStays
  <2>3. Process!OwnedInv
    BY <2>1, <2>2 DEF OwnedHere
  <2>4. [Process!Next]_(Process!vars)
    BY <2>1, <2>2, ProcessMoves
  <2> QED
    BY <1>1, <1>2, <2>3, <2>4, Process!NextKeepsOwned
<1>5. OwnedHere => (scenario = "process" =>
                      Process!AgentProcessInv /\ Process!NoOrphans /\ Process!StoppedMeansGone)
  BY Process!OwnedAgrees, Process!OwnedStops DEF OwnedHere
<1>6. OwnedHere /\ [Next]_vars => [scenario = "process" => Process!AloneWhenSpawned]_vars
  <2>1. SUFFICES ASSUME OwnedHere, [Next]_vars, scenario = "process"
                 PROVE  Process!AloneWhenSpawned
    OBVIOUS
  <2>2. Process!OwnedInv
    BY <2>1 DEF OwnedHere
  <2>3. [Process!Next]_(Process!vars)
    BY <2>1, ProcessMoves
  <2> QED
    BY <2>2, <2>3, Process!OwnedSpawns
<1> QED
  BY <1>3, <1>4, <1>5, <1>6, PTL DEF Spec, AgentIsOwned

\* AgentProcess in the sum: an agent that went down by itself is brought back while attempts
\* are left.
THEOREM RecoveryStands == Spec => []RecoveryHolds
<1>1. Recovery!AgentProcessAssumption
  BY PartsAssumption
<1>2. Recovery!RestartsOnly
  BY DEF Recovery!RestartsOnly
<1>3. Init => RecoveredHere
  <2>1. SUFFICES ASSUME Init, scenario = "recovery"
                 PROVE  Recovery!RecoveryInv
    BY DEF RecoveredHere
  <2>2. Recovery!Init
    BY <2>1 DEF Init
  <2> QED
    BY <1>1, <2>2, Recovery!InitRecovery
<1>4. RecoveredHere /\ [Next]_vars => RecoveredHere'
  <2>1. SUFFICES ASSUME RecoveredHere, [Next]_vars, scenario' = "recovery"
                 PROVE  Recovery!RecoveryInv'
    BY DEF RecoveredHere
  <2>2. scenario = "recovery"
    BY <2>1, ScenarioStays
  <2>3. Recovery!RecoveryInv
    BY <2>1, <2>2 DEF RecoveredHere
  <2>4. [Recovery!Next]_(Recovery!vars)
    BY <2>1, <2>2, RecoveryMoves
  <2> QED
    BY <1>1, <1>2, <2>3, <2>4, Recovery!NextKeepsRecovery
<1>5. RecoveredHere => RecoveryHolds
  BY Recovery!RecoveryIsScheduled DEF RecoveredHere, RecoveryHolds
<1> QED
  BY <1>3, <1>4, <1>5, PTL DEF Spec

-----------------------------------------------------------------------------
\* The connection that carries two runs, and the one that carries a run and its steering:
\* the inductive invariants of AgentRuns, each in its scenario.
ConnectedHere == scenario = "runs" => Connection!RunsInv /\ Connection!SteeringInv
SteeredHere == scenario = "steering" => Steering!RunsInv /\ Steering!SteeringInv

\* In its scenario, every step of the sum is one of the two runs, or leaves them alone.
LEMMA ConnectionMoves ==
    ASSUME scenario = "runs", [Next]_vars
    PROVE  [Connection!Next]_(Connection!vars)
  BY DEF Next, vars, ProcessStep, RunStep, TurnStep, ResultStep, CommandStep, WorkspaceStep,
     ServerStep, ExportStep, CaptchaStep, BrowserStep, Others, runVars,
     Connection!vars, Connection!gatewayVars, Connection!wireVars, Connection!agentVars,
     Connection!childVars

\* And every step is one of the run that is steered, in the scenario of that.
LEMMA SteeringMoves ==
    ASSUME scenario = "steering", [Next]_vars
    PROVE  [Steering!Next]_(Steering!vars)
  BY DEF Next, vars, ProcessStep, RunStep, TurnStep, ResultStep, CommandStep, WorkspaceStep,
     ServerStep, ExportStep, CaptchaStep, BrowserStep, Others, runVars,
     Steering!vars, Steering!gatewayVars, Steering!wireVars, Steering!agentVars,
     Steering!childVars

\* What AgentRuns rests on holds of the two runs.
LEMMA ConnectionHolds == Spec => []ConnectedHere
<1>1. Connection!AgentRunsAssumption
  BY PartsAssumption
<1>2. Init => ConnectedHere
  <2>1. SUFFICES ASSUME Init, scenario = "runs"
                 PROVE  Connection!RunsInv /\ Connection!SteeringInv
    BY DEF ConnectedHere
  <2>2. Connection!Init
    BY <2>1 DEF Init
  <2> QED
    BY <1>1, <2>2, Connection!InitRuns, Connection!InitSteering
<1>3. ConnectedHere /\ [Next]_vars => ConnectedHere'
  <2>1. SUFFICES ASSUME ConnectedHere, [Next]_vars, scenario' = "runs"
                 PROVE  Connection!RunsInv' /\ Connection!SteeringInv'
    BY DEF ConnectedHere
  <2>2. scenario = "runs"
    BY <2>1, ScenarioStays
  <2>3. Connection!RunsInv /\ Connection!SteeringInv
    BY <2>1, <2>2 DEF ConnectedHere
  <2>4. [Connection!Next]_(Connection!vars)
    BY <2>1, <2>2, ConnectionMoves
  <2> QED
    BY <1>1, <2>3, <2>4, Connection!NextKeepsRuns, Connection!NextKeepsSteering
<1> QED
  BY <1>2, <1>3, PTL DEF Spec

\* And of the run that is steered.
LEMMA SteeredRunHolds == Spec => []SteeredHere
<1>1. Steering!AgentRunsAssumption
  BY PartsAssumption
<1>2. Init => SteeredHere
  <2>1. SUFFICES ASSUME Init, scenario = "steering"
                 PROVE  Steering!RunsInv /\ Steering!SteeringInv
    BY DEF SteeredHere
  <2>2. Steering!Init
    BY <2>1 DEF Init
  <2> QED
    BY <1>1, <2>2, Steering!InitRuns, Steering!InitSteering
<1>3. SteeredHere /\ [Next]_vars => SteeredHere'
  <2>1. SUFFICES ASSUME SteeredHere, [Next]_vars, scenario' = "steering"
                 PROVE  Steering!RunsInv' /\ Steering!SteeringInv'
    BY DEF SteeredHere
  <2>2. scenario = "steering"
    BY <2>1, ScenarioStays
  <2>3. Steering!RunsInv /\ Steering!SteeringInv
    BY <2>1, <2>2 DEF SteeredHere
  <2>4. [Steering!Next]_(Steering!vars)
    BY <2>1, <2>2, SteeringMoves
  <2> QED
    BY <1>1, <2>3, <2>4, Steering!NextKeepsRuns, Steering!NextKeepsSteering
<1> QED
  BY <1>2, <1>3, PTL DEF Spec

\* AgentRuns in the sum: callers and pending requests agree, a stop reported as done has
\* reached the run, and the agent never holds two runs of a session.
THEOREM RunsStand == Spec => []RunsHold
<1>1. ConnectedHere => RunsHold
  BY Connection!RunsAgree DEF ConnectedHere, RunsHold
<1> QED
  BY <1>1, ConnectionHolds, PTL

\* AgentRuns in the sum: a steering message is handled once, and a run that completed has
\* written all the steering it accepted, or brought it back.
THEOREM SteeringStands == Spec => []SteeringHolds
<1>1. Connection!RunsInv => Connection!TypeOK
  BY DEF Connection!RunsInv
<1>2. Steering!RunsInv => Steering!TypeOK
  BY DEF Steering!RunsInv
<1>3. ConnectedHere => (scenario = "runs" => /\ Connection!SteeringHandledOnce
                                             /\ Connection!CompletedRunsKeepSteering)
  BY <1>1, Connection!MessagesHaveOnePlace, Connection!CompletedRunsTookAll DEF ConnectedHere
<1>4. SteeredHere => (scenario = "steering" => /\ Steering!SteeringHandledOnce
                                               /\ Steering!CompletedRunsKeepSteering)
  BY <1>2, Steering!MessagesHaveOnePlace, Steering!CompletedRunsTookAll DEF SteeredHere
<1>5. ConnectedHere /\ SteeredHere => SteeringHolds
  BY <1>3, <1>4 DEF SteeringHolds
<1> QED
  BY <1>5, ConnectionHolds, SteeredRunHolds, PTL

-----------------------------------------------------------------------------
\* The turns of one worktree, and of two: the inductive invariant of WorkspaceInstances, each
\* in its scenario.
WorktreeHere == scenario = "worktree" => Worktree!WorkspaceInv
WorktreesHere == scenario = "worktrees" => Worktrees!WorkspaceInv

\* In its scenario, every step of the sum is one of the worktree, or leaves it alone.
LEMMA WorktreeMoves ==
    ASSUME scenario = "worktree", [Next]_vars
    PROVE  [Worktree!Next]_(Worktree!vars)
  BY DEF Next, vars, ProcessStep, RunStep, TurnStep, ResultStep, CommandStep, WorkspaceStep,
     ServerStep, ExportStep, CaptchaStep, BrowserStep, Others, workspaceVars,
     Worktree!vars

\* And every step is one of the two worktrees, in the scenario of those.
LEMMA WorktreesMove ==
    ASSUME scenario = "worktrees", [Next]_vars
    PROVE  [Worktrees!Next]_(Worktrees!vars)
  BY DEF Next, vars, ProcessStep, RunStep, TurnStep, ResultStep, CommandStep, WorkspaceStep,
     ServerStep, ExportStep, CaptchaStep, BrowserStep, Others, workspaceVars,
     Worktrees!vars

\* What WorkspaceInstances rests on holds of the one worktree.
LEMMA WorktreeHolds == Spec => []WorktreeHere
<1>1. Worktree!WorkspaceInstancesAssumption
  BY PartsAssumption
<1>2. Init => WorktreeHere
  <2>1. SUFFICES ASSUME Init, scenario = "worktree"
                 PROVE  Worktree!WorkspaceInv
    BY DEF WorktreeHere
  <2>2. Worktree!Init
    BY <2>1 DEF Init
  <2> QED
    BY <1>1, <2>2, Worktree!InitWorkspaces
<1>3. WorktreeHere /\ [Next]_vars => WorktreeHere'
  <2>1. SUFFICES ASSUME WorktreeHere, [Next]_vars, scenario' = "worktree"
                 PROVE  Worktree!WorkspaceInv'
    BY DEF WorktreeHere
  <2>2. scenario = "worktree"
    BY <2>1, ScenarioStays
  <2>3. Worktree!WorkspaceInv
    BY <2>1, <2>2 DEF WorktreeHere
  <2>4. [Worktree!Next]_(Worktree!vars)
    BY <2>1, <2>2, WorktreeMoves
  <2> QED
    BY <1>1, <2>3, <2>4, Worktree!NextKeepsWorkspaces
<1> QED
  BY <1>2, <1>3, PTL DEF Spec

\* And of the two of which one is kept.
LEMMA WorktreesHold == Spec => []WorktreesHere
<1>1. Worktrees!WorkspaceInstancesAssumption
  BY PartsAssumption
<1>2. Init => WorktreesHere
  <2>1. SUFFICES ASSUME Init, scenario = "worktrees"
                 PROVE  Worktrees!WorkspaceInv
    BY DEF WorktreesHere
  <2>2. Worktrees!Init
    BY <2>1 DEF Init
  <2> QED
    BY <1>1, <2>2, Worktrees!InitWorkspaces
<1>3. WorktreesHere /\ [Next]_vars => WorktreesHere'
  <2>1. SUFFICES ASSUME WorktreesHere, [Next]_vars, scenario' = "worktrees"
                 PROVE  Worktrees!WorkspaceInv'
    BY DEF WorktreesHere
  <2>2. scenario = "worktrees"
    BY <2>1, ScenarioStays
  <2>3. Worktrees!WorkspaceInv
    BY <2>1, <2>2 DEF WorktreesHere
  <2>4. [Worktrees!Next]_(Worktrees!vars)
    BY <2>1, <2>2, WorktreesMove
  <2> QED
    BY <1>1, <2>3, <2>4, Worktrees!NextKeepsWorkspaces
<1> QED
  BY <1>2, <1>3, PTL DEF Spec

\* WorkspaceInstances in the sum: a turn uses the changes that were known when it asked, also
\* when it joins a reload, and a stale view is known to be, or its event is to come.
THEOREM WorkspacesStand == Spec => []WorkspacesAreCurrent
<1>1. Worktree!WorkspaceInstancesAssumption /\ Worktrees!WorkspaceInstancesAssumption
  BY PartsAssumption
<1>2. WorktreeHere => (scenario = "worktree" => Worktree!WorkspacesInv)
  BY <1>1, Worktree!WorkspacesFromViews DEF WorktreeHere, Worktree!WorkspaceInv
<1>3. WorktreesHere => (scenario = "worktrees" => Worktrees!WorkspacesInv)
  BY <1>1, Worktrees!WorkspacesFromViews DEF WorktreesHere, Worktrees!WorkspaceInv
<1>4. WorktreeHere /\ WorktreesHere => WorkspacesAreCurrent
  BY <1>2, <1>3 DEF WorkspacesAreCurrent
<1> QED
  BY <1>4, WorktreeHolds, WorktreesHold, PTL
=============================================================================
