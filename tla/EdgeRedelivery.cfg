SPECIFICATION Spec
CONSTANTS
    MaxCommands = 1
    MaxLabel = 1
    PollLimit = 2
    MaxDeliveries = 3
    Kinds = {"print", "device"}
    p1 = p1
    s1 = s1
    s2 = s2
    a1 = a1
    a2 = a2
    e1 = e1
    PrintSlots = {p1}
    PollSlots = {s1, s2}
    AckSlots = {a1, a2}
    EventSlots = {e1}
SYMMETRY SlotSymmetry
INVARIANTS
    HistoryFollowsResolution
PROPERTIES
    LeasesDoNotOverlap
    StickerClearsOnAcceptance
CHECK_DEADLOCK FALSE
