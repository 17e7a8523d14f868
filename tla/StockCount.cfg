\* One bundle, two yards, two counts, two requests in flight.
SPECIFICATION Spec
CONSTANTS
    Bundles = {b1}
    Yards = {y1, y2}
    Counts = {c1, c2}
    Slots = {q1, q2}
    NoPlace = NoPlace
    MaxSeq = 5
SYMMETRY Symmetry
CHECK_DEADLOCK FALSE
INVARIANTS
    TypeOK
    ReportMatchesScans
    RequestsAreAwaited
PROPERTIES
    ReportIsFrozen
    VoidedWereMissing
