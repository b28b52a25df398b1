SPECIFICATION BackSpec
CONSTANTS
    Approvals = {}
    NoApproval = NoApproval
    Kinds = {"normal", "ledger_failed"}
    CancelPoints <- Everywhere
    MaxCancels = 3
    AutoTask = {k1}
    Worker = {1, 2}
    MaxRuns = 1
    MaxRetries = 1
    MaxAutoFaults = 1
    MaxEdits = 1
    NoWorker = 0
    Other = 9
    MaxRequests = 3
    MaxPipe = 2
    StallLimit = 1
    Deadline = 2
    Documents <- MCDocuments
    Types = {"reader", "looper"}
    MaxTasks = 3
    Ceiling = 2
    Widths = {2}
    BudgetCeiling = 1
    BatchBudget = 2
    MaxCharge = 1
    Spawn = "sub_agent"
INVARIANTS EndIsRecorded RunsAreAccounted AnswerIsOwn OverrunIsBounded DelegationIsSound
PROPERTIES AbandonedRunEnds RunsAreDecidedOnce  FanOutEnds
CHECK_DEADLOCK FALSE
