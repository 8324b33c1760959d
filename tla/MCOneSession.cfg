\* One session and three jobs: queue order, stops, continuations, updates and
\* deletion around a single run slot, under fairness.  No session keys are needed
\* here, and no symmetry is used, as liveness forbids it.
SPECIFICATION FairSpec
CONSTANTS
    s1 = s1
    s2 = s2
    a1 = a1
    a2 = a2
    a3 = a3
    b1 = b1
    k1 = k1
    NoJob = NoJob
    Sessions = {s1}
    Jobs = {a1, a2, a3}
    SessionOf <- MCOneSession
    SessionKeys = {}
INVARIANTS
    NoSessionStalls
    PublishedStatesAgree
    NoOvertaking
PROPERTIES
    OutcomesAreFinal
    AcknowledgedStopHolds
    AcceptedJobsEnd
    AdmissionsEnd
