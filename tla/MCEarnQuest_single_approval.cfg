CONSTANTS
    Addresses = {alice, vera, sam}
    Nobody = Nobody
    Deployers = {}
    Candidates = {}
    MaxTime = 1
    MaxRound = 0
    Thresholds = {}
    Timelocks = {}
    Quests = {q1, q2}
    Tokens = {usd}
    Contract = Contract
    Creators = {alice}
    Verifiers = {vera}
    Submitters = {sam}
    Rewards = {1}
    Deposits = {1}
    Deadlines = {1}
    Badges = {}
    InitialBalance = 2
    MaxRewardAmount = 1
    MaxQuestClaims = 2
    MaxBatch = 2
    MaxBadges = 1
SPECIFICATION Spec
INVARIANTS
    VerifierCanApprove
CHECK_DEADLOCK FALSE
