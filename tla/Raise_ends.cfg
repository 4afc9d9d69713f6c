SPECIFICATION FairSpec
CONSTANTS
    ext = ext f = f a = a s = s g = g none = none
    Runs = {r1}
    Nodes <- CycleNodes
    External <- ext
    Kind <- CycleKind
    Edges <- CycleEdges
    Limit <- CycleLimit
    MergeIdentical = {}
    Raises = {f}
    Data = {d1}
    MaxHops = 1
    MaxProcesses = 1
    Sources = {ext}
    Targets = {}
    Tasks = {t1, t2, t3, t4}
    MaxExtra = 0
    None <- none
PROPERTIES RunEnds
CHECK_DEADLOCK FALSE
