SPECIFICATION Spec
CONSTANTS
    Loop = {m, s}
    Interactive = {m}
    Path <- MCPath
    Alias <- MCAlias
    Kind <- MCKind
    Inside <- MCInside
    DirOf <- MCDirOf
    Inode <- MCInode
    Ruled <- MCRuled
    ReadOnlyText = {"src"}
    MaxCalls = 2
    MaxMoves = 1
    MaxRounds = 2
    PoolTask = {t1, t2, t3}
    PoolSession = {s1}
    Fleet <- MCFleet
    Deleted = Deleted
    ShutdownTask = shutdown
    MaxPoolFaults = 1
    MaxPast = 4
    MaxWindowRounds = 3
    MaxCallsPerRound = 2
    ContractSizes = {1, 9}
    RequestSizes = {3}
    SummarySizes = {1, 5}
    BigResult = 4
    HardLimit = 6
    KeepRecent = 4
    ProtectThreshold = 3
    PruneMin = 4
    SafeBudget = 28
    Trigger = 22
    RejectBudget = 14
    ToolCost = 2
    MaxCompactionFailures = 2
    MaxRetries = 2
    MaxEvents = 3
    CallParts = 2
    CallIndexes = {0, 1}
INVARIANTS WindowKeepsMeaning WindowFits AnswerIsFaithful   PoolIsSound
CHECK_DEADLOCK FALSE
