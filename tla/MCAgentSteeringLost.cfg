\* The same instance, for what the documentation says of runs that fail.
SPECIFICATION Spec
CONSTANTS
    s1 = s1
    r1 = r1
    r2 = r2
    m1 = m1
    m2 = m2
    NoRun = NoRun
    Runs = {r1}
    SessionOf <- MCOneSession
    Messages = {m1, m2}
    MaxStops = 2
    MaxLaunches = 1
SYMMETRY MessageSymmetry
CHECK_DEADLOCK FALSE
INVARIANT
    ErroredRunsKeepSteering
