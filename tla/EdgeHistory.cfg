SPECIFICATION Spec
CONSTANTS
    MaxCommands = 2
    MaxLabel = 0
    PollLimit = 2
    MaxDeliveries = 1
    Kinds = {"print", "cancel"}
    p1 = p1
    s1 = s1
    a1 = a1
    e1 = e1
    PrintSlots = {p1}
    PollSlots = {s1}
    AckSlots = {a1}
    EventSlots = {e1}
SYMMETRY SlotSymmetry
INVARIANTS
    TypeOK
    HistoryTellsTheTruth
    HistoryFollowsResolution
PROPERTIES
    HistoryNeverFallsBack
CHECK_DEADLOCK FALSE
