SPECIFICATION KeptSpec
CONSTANTS
    Ops = {write, upsert}
    Idempotent = {upsert}
    CallIds = {c1, c2}
    NoCall = NoCall
    NoRow = NoRow
    MaxOccurrence = 2
    MaxAttempts = 2
    Process = {p1, p2}
    MaxRecords = 3
    MaxSeals = 1
    MaxChainFaults = 1
    Nobody = Nobody
    RunId = {r1, r2}
    MaxEvents = 4
    MaxCompleted = 1
    MaxCrashes = 1
    MaxLines = 3
    CompileEvery = 2
    DreamEvery = 2
    MaxDeferred = 2
    MaxMemCrashes = 1
    Section <- MCSection
    Conclusion = {"Decisions"}
    Proposal <- MCProposal
    Batches <- MCBatches
    FirstDoc <- MCFirstDoc
    MaxBullets = 3
    MaxRounds = 2
    MaxChanges = 2
    MaxCycles = 2
    UsageRuns = {r1}
    MaxChatTurns = 2
    MaxUsageEvents = 2
    MaxAnswers = 2
    MaxStatCrashes = 1
INVARIANTS AtMostOnce OccurrencesAreSound  AckedIsKept  
            DraftIsSound UsageIsCounted
PROPERTIES PricedStaysPriced
CHECK_DEADLOCK FALSE
