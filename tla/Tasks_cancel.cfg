SPECIFICATION Spec
CONSTANTS
    l1 = l1 l2 = l2 l3 = l3
    NTasks = 2
    Lanes = {l1, l2}
    MaxRuns = 1
    Budget <- TurnBudget
    Unknown = {2}
    Spenders = {2}
    Requests <- AllRequests
    MaxRequests = 2
    MaxProcs = 4
    MaxFaults = 0
INVARIANTS NoForgottenTask
