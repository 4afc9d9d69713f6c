SPECIFICATION FairSpec
CONSTANTS
    p1 = p1 p2 = p2 d1 = d1 o1 = o1 o2 = o2 none = none
    Queued = {p1, p2}
    Staged = {p2}
    Direct = {d1}
    Objects = {o1, o2}
    NoPrompt <- none
    Failing = {p1, d1}
    Raising = {p1, d1}
    Abroad = {TRUE, FALSE}
    MaxFaults = 1
    MaxEdits = 1
INVARIANTS TypeOK OneTurn OnePlace NothingStranded
PROPERTIES NoneDropped ImplementsDelivery EventuallyTaken
