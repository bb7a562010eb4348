SPECIFICATION Spec
CONSTANTS
    c1 = c1
    c2 = c2
    c3 = c3
    o1 = o1
    o2 = o2
    Outside = outside
    Confirms = {c1, c2}
    Keys = {c1, c2}
    Payloads = {"completed", "failed"}
    Orders = {o1}
    OrderOf <- OneOrder
    Children = {"kok", "hs"}
    Stuck = {}
    Deliveries <- FirstCalledTwice
    Headless = {}
    Unlisted <- NoneMiss
    Age = 1
    MaxClock = 1
    MaxCrashes = 1
    AuthPool = 2
    ServicePool = 3
    UtcLag = 0
    SetTransactionRefused = FALSE
INVARIANT
    PaidOnce
CHECK_DEADLOCK FALSE
