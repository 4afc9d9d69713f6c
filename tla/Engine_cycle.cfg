SPECIFICATION Spec
CONSTANTS
    ext = ext f = f a = a s = s g = g none = none
    Runs = {r1, r2}
    Nodes <- CycleNodes
    External <- ext
    Kind <- CycleKind
    Edges <- CycleEdges
    Limit <- CycleLimit
    MergeIdentical = {}
    Raises = {}
    Data = {d1}
    MaxHops = 1
    MaxProcesses = 1
    Sources = {ext}
    Targets = {}
    Tasks = {t1, t2, t3, t4}
    MaxExtra = 1
    None <- none
SYMMETRY RunSymmetry
INVARIANTS TypeOK PendingExact ActiveExact NodeLimit NoLostWakeup NothingAfterSink StatusIsFinal
PROPERTIES SinkOnlyWhenDone ImplementsLifecycle
