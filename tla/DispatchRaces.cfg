SPECIFICATION Spec
CONSTANTS
    b1 = b1
    b2 = b2
    b3 = b3
    d1 = d1
    d2 = d2
    y1 = y1
    y2 = y2
    q1 = q1
    q2 = q2
    r1 = r1
    r2 = r2
    Bundles = {b1, b2}
    Legacy = {}
    Locations = {}
    NoPlace = NoPlace
    NoDispatch = NoDispatch
    Weight <- Grams
    StockSlots = {}
    Dispatches = {d1, d2}
    DispatchSlots = {q1, q2}
SYMMETRY Symmetry
INVARIANTS
    TypeOK
    NoStrayHold
PROPERTIES
    StatusMovesFollowTheTables
    ClosedDispatchGainsNoStock
    KeepsTheBook
CHECK_DEADLOCK FALSE
