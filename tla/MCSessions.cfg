CONSTANTS
    Users = {alice}
    Tabs <- LeftAndRight
    Calls <- TwoAndOne
    first = first
    second = second
    MaxRetries = 0
    MaxRequests = 3
    MaxExpiries = 1
    MaxFaults = 1
SPECIFICATION Spec
SYMMETRY Labels
INVARIANTS
    SessionsTypeOK
    StoredIsUsable
    ExchangesOverlap
CHECK_DEADLOCK FALSE
