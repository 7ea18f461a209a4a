CONSTANTS
    Signers = {s1, s2}
    Txs = {x1}
    Thresholds = {1, 2}
    Voters = {v1, v2}
    Editors = {e1}
    MaxFaults = 1
SPECIFICATION Spec
SYMMETRY Symmetry
INVARIANTS
    MultiSigTypeOK
    DecisionIsBacked
    UndisturbedIsExact
CHECK_DEADLOCK FALSE
