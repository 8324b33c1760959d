\* One transcript, two approvals, one update, one answer, one chat, the cards of two
\* chats, one gateway and three of them, and one device, each in a scenario of its own.
\* The bounds end each of them.
SPECIFICATION Spec
CONSTANTS
    s1 = s1
    s2 = s2
    c1 = c1
    c2 = c2
    m1 = m1
    m2 = m2
    m3 = m3
    k1 = k1
    d1 = d1
    v1 = v1
    v2 = v2
    NoDevice = NoDevice
    NoData = NoData
CHECK_DEADLOCK FALSE
INVARIANTS
    LifecycleHolds
    GatewaysHold
PROPERTIES
    TranscriptHolds
    ApprovalsHold
    UpdateHolds
    AnswerHolds
    RoutingHolds
    CardsHold
    EnrollmentHolds
