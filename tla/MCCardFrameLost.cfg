\* A frame that cannot be handed to the cards, once.
SPECIFICATION Spec
CONSTANTS
    s1 = s1
    MaxEmits = 2
    Sessions = {s1}
    SessionOf <- OneChat
    MaxDeltas = 1
    Chained = TRUE
    Faults = {"lost"}
    MaxFaults = 1
    MaxCards = 2
CHECK_DEADLOCK FALSE
INVARIANTS
    FailuresStayLocal
