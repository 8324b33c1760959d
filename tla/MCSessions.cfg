\* Two sessions of the scheduler, with two jobs in the first and one in the second and
\* a session key both deletions may want: what one session's operations do to the other,
\* and the refinement of serial turns.  Then, each in a scenario of its own, a plan and
\* the messages of one session.
SPECIFICATION AllSpec
CONSTANTS
    s1 = s1
    s2 = s2
    a1 = a1
    a2 = a2
    a3 = a3
    b1 = b1
    k1 = k1
    t1 = t1
    t2 = t2
    c1 = c1
    o1 = o1
    None = None
    NoJob = NoJob
    Sessions = {s1, s2}
    Jobs = {a1, a2, b1}
    SessionOf <- MCTwoSessions
    SessionKeys = {k1}
SYMMETRY PairSymmetry
INVARIANTS
    SchedulerInv
    OneRunPerSession
    DeletionIsExclusive
    KeyFencesHeldOnce
    UpdateStaysQuiet
PROPERTIES
    ImplementsSerialTurns
    PlansHold
    ConversationsHold
