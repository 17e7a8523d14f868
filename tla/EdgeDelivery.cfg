SPECIFICATION FairSpec
CONSTANTS
    MaxCommands = 1
    MaxLabel = 0
    PollLimit = 2
    MaxDeliveries = 3
    Kinds = {"print"}
    p1 = p1
    s1 = s1
    a1 = a1
    a2 = a2
    e1 = e1
    PrintSlots = {p1}
    PollSlots = {s1}
    AckSlots = {a1, a2}
    EventSlots = {e1}
PROPERTIES
    EveryCommandIsResolved
    OutcomeReachesHistory
CHECK_DEADLOCK FALSE
