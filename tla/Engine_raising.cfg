SPECIFICATION Spec
CONSTANTS
    ext = ext f = f a = a s = s g = g none = none
    Runs = {r1, r2}
    Nodes <- ParallelNodes
    External <- ext
    Kind <- ParallelKind
    Edges <- ParallelEdges
    Limit <- ParallelLimit
    MergeIdentical = {s}
    Raises = {s}
    Data = {d1, d2}
    MaxHops = 1
    MaxProcesses = 2
    Sources = {ext}
    Targets = {}
    Tasks = {t1, t2, t3}
    MaxExtra = 1
    None <- none
SYMMETRY EventSymmetry
INVARIANTS PendingExact PendingIdsMirrorQueue
CHECK_DEADLOCK FALSE
