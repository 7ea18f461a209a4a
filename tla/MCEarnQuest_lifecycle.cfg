CONSTANTS
    Addresses = {alice, vera, sam, root}
    Nobody = Nobody
    Deployers = {root}
    Candidates = {}
    MaxTime = 2
    MaxRound = 1
    Thresholds = {1}
    Timelocks = {}
    Quests = {q1}
    Tokens = {usd}
    Contract = Contract
    Creators = {alice}
    Verifiers = {vera}
    Submitters = {vera, sam}
    Rewards = {0, 1, 2}
    Deposits = {0, 1, 2}
    Deadlines = {0, 1, 2}
    Badges = {}
    InitialBalance = 3
    MaxRewardAmount = 2
    MaxQuestClaims = 2
    MaxBatch = 2
    MaxBadges = 1
SPECIFICATION Spec
INVARIANTS
    TypeOK
    EscrowFollowsQuest
    EscrowAccounting
PROPERTIES
    OutflowJustified
    PausedFreezes
    TerminalIsFinal
CHECK_DEADLOCK FALSE
