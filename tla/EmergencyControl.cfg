CONSTANTS
    Addresses = {ann, ben, eve}
    Nobody = Nobody
    Deployers = {ann}
    Candidates = {ann, ben, eve}
    MaxTime = 3
    MaxRound = 2
    Thresholds = {0, 1, 3}
    Timelocks = {1, 2}
SPECIFICATION ControlSpec
INVARIANTS
    ControlTypeOK
    ApprovalCountExact
    PausedHasAdmin
PROPERTY
    UnpauseIsFresh
CHECK_DEADLOCK FALSE
