SPECIFICATION FairSpec
CONSTANTS
    l1 = l1 l2 = l2 l3 = l3
    NTasks = 2
    Lanes = {l1, l2}
    MaxRuns = 1
    Budget <- TurnBudget
    Unknown = {2}
    Spenders = {2}
    Requests <- NoCancelOverBudget
    MaxRequests = 2
    MaxProcs = 5
    MaxFaults = 1
INVARIANTS TypeOK NoForgottenTask
PROPERTIES TerminalIsFinal ImplementsLedger FreeRoomIsTaken
