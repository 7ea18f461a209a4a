CONSTANTS
    Addresses = {alice, vera, sam, root}
    Nobody = Nobody
    Contract = Contract
    Admins = {root}
    Signers = {sam, root}
    Creators = {alice}
    Verifiers = {vera}
    Submitters = {vera, sam}
    Quests = {q1, q2}
    Tokens = {usd}
    Badges = {early}
    Rewards = {0, 1}
    Deposits = {0, 1}
    Deadlines = {1}
    Limits = {0, 1}
    Delays = {1}
    Quorums = {2}
    GracePeriods = {2}
    InitialBalance = 2
    MaxTime = 1
    MaxU64 = 2
SYMMETRY Symmetry
SPECIFICATION Spec
INVARIANTS
    V1TypeOK
    ClaimsAreExact
    EscrowIsBacked
    PauseIsTimely
PROPERTY
    OutflowIsDue
CHECK_DEADLOCK FALSE
