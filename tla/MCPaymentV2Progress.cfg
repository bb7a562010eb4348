SPECIFICATION FairSpec
CONSTANTS
    c1 = c1
    c2 = c2
    c3 = c3
    o1 = o1
    o2 = o2
    Outside = outside
    Confirms = {c1, c2, c3}
    Keys = {c1, c2, c3}
    Payloads = {"completed", "failed"}
    Orders = {o1, o2}
    OrderOf <- TwoOrders
    Children = {"kok"}
    Stuck = {o2}
    Deliveries <- FirstCalled
    Headless = {}
    Unlisted <- NoneMiss
    Age = 1
    MaxClock = 2
    MaxCrashes = 1
    AuthPool = 2
    ServicePool = 3
    UtcLag = 0
    SetTransactionRefused = FALSE
INVARIANTS
    ConfirmsLeaveServiceConnections
PROPERTIES
    EveryConfirmAnswered
    EveryWebhookAnswered
    ResolvedIsTold
CHECK_DEADLOCK FALSE
