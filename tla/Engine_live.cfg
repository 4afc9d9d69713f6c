SPECIFICATION FairSpec
CONSTANTS
    ext = ext f = f a = a s = s g = g none = none
    Runs = {r1, r2}
    Nodes <- JourneyNodes
    External <- ext
    Kind <- JourneyKind
    Edges <- JourneyEdges
    Limit <- JourneyLimit
    MergeIdentical = {}
    Raises = {}
    Data = {d1}
    MaxHops = 1
    MaxProcesses = 2
    Sources = {ext, g}
    Targets = {g}
    Tasks = {t1, t2, t3}
    MaxExtra = 1
    None <- none
PROPERTIES RunEnds SinkOnlyWhenDone
CHECK_DEADLOCK FALSE
