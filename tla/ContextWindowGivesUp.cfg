SPECIFICATION WindowSpec
CONSTANTS
    MaxPast = 4
    MaxWindowRounds = 3
    MaxCallsPerRound = 2
    ContractSizes = {1, 9}
    RequestSizes = {1, 3}
    SummarySizes = {1, 5}
    BigResult = 4
    HardLimit = 6
    KeepRecent = 4
    ProtectThreshold = 3
    PruneMin = 4
    SafeBudget = 28
    Trigger = 22
    RejectBudget = 14
    ToolCost = 2
    MaxCompactionFailures = 2
INVARIANTS UnfitIsTooLarge
CHECK_DEADLOCK FALSE
