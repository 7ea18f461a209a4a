CONSTANTS
    Ids = {q1}
    Readers = {r1}
    Writers = {w1, w2}
    CacheTypes = {"memory", "redis"}
    MaxWrites = 3
    MaxFaults = 1
SPECIFICATION Spec
SYMMETRY Symmetry
INVARIANTS
    QuestCacheTypeOK
    StaleHasCause
PROPERTIES
    ChangesSurvive
CHECK_DEADLOCK FALSE
