CONSTANTS
    Ids = {p1}
    Tasks = {t1, t2, t3}
    NodeEnvs = {"development", "production"}
    MaxFaults = 2
SPECIFICATION FairSpec
INVARIANTS
    PayoutsTypeOK
    CompletedIsPaid
    FailedIsTraceable
    ProcessingIsAttended
PROPERTIES
    ProcessingEnds
CHECK_DEADLOCK FALSE
