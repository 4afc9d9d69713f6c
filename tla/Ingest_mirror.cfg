SPECIFICATION FairSpec
CONSTANTS
    k1 = k1 k2 = k2 l1 = l1 l2 = l2 none = none
    Keys = {k1, k2}
    Kinds = {"log", "listing", "files"}
    Lanes = {l1, l2}
    OriginLost = FALSE
    NoLane <- none
    MaxChanges = 2
    MaxFaults = 1
INVARIANTS TypeOK NoGap SlotHasOwner
PROPERTIES PullIsHonoured Converges
