CONSTANTS
    Messages = {m1, m2}
    Addresses = {ann}
    Unrenderable = {m2}
    Unlinked = {m2}
    MaxAttempts = 2
    DirectAttempts = {0, 1}
    MaxFaults = 2
SPECIFICATION Spec
INVARIANTS
    EmailTypeOK
    ResendHasCause
    OutcomeIsReported
    LinkIsHonoured
PROPERTY
    JobsSettle
CHECK_DEADLOCK FALSE
