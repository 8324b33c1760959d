\* Two clears of one chat that look its session up at once, and a text: what the
\* documentation says of /clear while there is work.
SPECIFICATION Spec
CONSTANTS
    m1 = m1
    m2 = m2
    m3 = m3
    k1 = k1
    Messages = {m1, m2, m3}
    KeyOf <- MCOneChat
    KindsOf <- MCClears
    Deletions = {}
    MaxSessions = 3
    MaxFailures = 0
CHECK_DEADLOCK FALSE
PROPERTY
    ClearsSpareWork
