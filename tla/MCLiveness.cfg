\* The calls of one run, the start of one plan with crashes and stops, and the upload
\* of three turns, each under the fairness of its module.  The bounds end each of them.
SPECIFICATION FairSpec
CONSTANTS
    s1 = s1
    r1 = r1
    m1 = m1
    t1 = t1
    c1 = c1
    NoRun = NoRun
CHECK_DEADLOCK FALSE
PROPERTIES
    CallsSettle
    PlansSettle
    ImplementsTurnReports
    TurnsReachTheServer
