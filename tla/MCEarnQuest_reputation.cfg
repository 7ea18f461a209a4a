CONSTANTS
    Addresses = {alice, vera, sam, root}
    Nobody = Nobody
    Deployers = {root}
    Candidates = {}
    MaxTime = 1
    MaxRound = 0
    Thresholds = {}
    Timelocks = {}
    Quests = {q1}
    Tokens = {usd}
    Contract = Contract
    Creators = {alice}
    Verifiers = {vera}
    Submitters = {sam}
    Rewards = {1}
    Deposits = {3}
    Deadlines = {1}
    Badges = {early, loyal}
    InitialBalance = 3
    MaxRewardAmount = 3
    MaxQuestClaims = 3
    MaxBatch = 2
    MaxBadges = 1
SPECIFICATION Spec
INVARIANTS
    StatsConsistent
CHECK_DEADLOCK FALSE
