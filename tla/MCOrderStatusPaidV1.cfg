SPECIFICATION Spec
CONSTANTS
    k1 = k1
    k2 = k2
    h1 = h1
    o1 = o1
    o2 = o2
    Lines = {k1, k2, h1}
    HsLines = {h1}
    Orders = {o1, o2}
    OrderOf <- TwoOrders
    Requests <- FewRequests
    Kind <- FirstPart
    Target <- SecondPart
    Sent = 4
    MaxAttempts = 1
    Age = 0
    MaxClock = 1
    UtcLag = 0
    Outside = outside
INVARIANTS
    PaidV1IsRecorded
CHECK_DEADLOCK FALSE
