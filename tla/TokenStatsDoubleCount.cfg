SPECIFICATION StatSpec
CONSTANTS
    UsageRuns = {r1}
    MaxChatTurns = 2
    MaxUsageEvents = 2
    MaxAnswers = 2
    MaxStatCrashes = 1
INVARIANTS
    NeverDoubleCounted
CHECK_DEADLOCK FALSE
