\* One agent process and one connection, each under two sets of calls, two turns and
\* their states, some commands, some workspaces, an MCP server, the exports of a warehouse
\* and two logins, each in a scenario of its own.  The bounds end each of them.
SPECIFICATION Spec
CONSTANTS
    s1 = s1
    r1 = r1
    r2 = r2
    m1 = m1
    m2 = m2
    NoRun = NoRun
    boot = boot
    x1 = x1
    x2 = x2
    q1 = q1
    f1 = f1
    e1 = e1
    e2 = e2
    e3 = e3
    w1 = w1
    w2 = w2
    t1 = t1
    t2 = t2
    t3 = t3
    treeA = treeA
    treeB = treeB
    None = None
CHECK_DEADLOCK FALSE
INVARIANTS
    RecoveryHolds
    RunsHold
    SteeringHolds
    WorkspacesAreCurrent
    ServersHold
    BrowserLoginsHold
PROPERTIES
    AgentIsOwned
    TurnsAreRecorded
    ResultsHold
    CommandsHold
    ExportsHold
    LoginsHold
