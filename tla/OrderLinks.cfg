SPECIFICATION Spec
CONSTANTS
    b1 = b1
    b2 = b2
    b3 = b3
    o1 = o1
    o2 = o2
    c1 = c1
    c2 = c2
    d1 = d1
    d2 = d2
    q1 = q1
    q2 = q2
    Bundles = {b1}
    Orders = {o1, o2}
    Based = {}
    Customers = {c1, c2}
    Dispatches = {d1}
    Slots = {q1, q2}
    NoOrder = NoOrder
    NoDispatch = NoDispatch
    NoCustomer = NoCustomer
    Weight <- OneKg
    Amounts = {1}
    ToleranceBp = 0
    MaxVersion = 0
    MaxAsks = 0
    Asked = {"close", "edit", "hold", "move", "recustomer", "remove", "unreserve"}
SYMMETRY OrderSymmetry
INVARIANTS
    TypeOK
    LinksAreTheCustomers
    HoldsAreForOpenOrders
CHECK_DEADLOCK FALSE
