\* One recovery and one failed connection: what the documentation says of recovery,
\* where process trees are killed.
SPECIFICATION Spec
CONSTANTS
    boot = boot
    s1 = s1
    s2 = s2
    r1 = r1
    r2 = r2
    q1 = q1
    f1 = f1
    Boot = boot
    Stoppers = {}
    Restarters = {r1}
    Recoveries = {q1}
    Failures = {f1}
    MaxChildren = 4
    MaxAttempts = 2
CHECK_DEADLOCK FALSE
PROPERTY
    FailedConnectionsRecover
