SPECIFICATION Spec
CONSTANTS
    k1 = k1 k2 = k2 l1 = l1 l2 = l2 none = none
    Keys = {k1, k2}
    Kinds = {"files"}
    Lanes = {l1, l2}
    OriginLost = TRUE
    NoLane <- none
    MaxChanges = 2
    MaxFaults = 0
INVARIANTS NoGap
