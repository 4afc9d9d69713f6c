SPECIFICATION Spec
CONSTANTS
    p1 = p1 p2 = p2 d1 = d1 o1 = o1 o2 = o2 none = none
    Queued = {p1, p2}
    Staged = {}
    Direct = {d1}
    Objects = {o1, o2}
    NoPrompt <- none
    Failing = {d1}
    Raising = {}
    Abroad = {FALSE}
    MaxFaults = 1
    MaxEdits = 0
INVARIANTS SelfHeals
