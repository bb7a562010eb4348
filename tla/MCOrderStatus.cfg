SPECIFICATION Spec
CONSTANTS
    k1 = k1
    k2 = k2
    h1 = h1
    o1 = o1
    o2 = o2
    Lines = {k1, k2, h1}
    HsLines = {h1}
    Orders = {o1, o2}
    OrderOf <- TwoOrders
    Requests <- AllRequests
    Kind <- FirstPart
    Target <- SecondPart
    Sent = 3
    MaxAttempts = 1
    Age = 1
    MaxClock = 2
    UtcLag = 0
    Outside = outside
INVARIANTS
    TypeOK
    PaidIsCurrent
    ConfirmationsAreRecorded
    HsIsPaidByV2Only
    ListsAreUniform
PROPERTIES
    ImplementsStatus
CHECK_DEADLOCK FALSE
