CONSTANTS
    Users = {alice}
    Tabs <- LeftAndRight
    Calls <- TwoAndOne
    first = first
    second = second
    MaxRetries = 1
    MaxRequests = 2
    MaxExpiries = 1
    MaxFaults = 2
SPECIFICATION FairSpec
PROPERTIES
    CallsEnd
CHECK_DEADLOCK FALSE
