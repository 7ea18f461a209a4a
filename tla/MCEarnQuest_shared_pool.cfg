CONSTANTS
    Addresses = {alice, vera, sam, tom}
    Nobody = Nobody
    Deployers = {}
    Candidates = {}
    MaxTime = 1
    MaxRound = 0
    Thresholds = {}
    Timelocks = {}
    Quests = {q1, q2}
    Tokens = {usd, eur}
    Contract = Contract
    Creators = {alice}
    Verifiers = {vera}
    Submitters = {sam, tom}
    Rewards = {1}
    Deposits = {1}
    Deadlines = {1}
    Badges = {}
    InitialBalance = 1
    MaxRewardAmount = 1
    MaxQuestClaims = 2
    MaxBatch = 2
    MaxBadges = 1
SYMMETRY Symmetry
SPECIFICATION Spec
INVARIANTS
    BalanceBacksEscrows
    ClaimsCredited
    PaidAreCounted
PROPERTY
    ImplementsLedger
CHECK_DEADLOCK FALSE
