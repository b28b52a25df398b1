SPECIFICATION Spec
CONSTANTS
    MaxIters = 2
    MaxRecovery = 2
    MaxPreflight = 2
    MaxRepairs = 1
    MaxContinuations = 2
    MaxIdentical = 2
    ErrorKeys = {k1, k2}
    NoKey = NoKey
    MaxCalls = 2
INVARIANTS RequestsAreSound AnswersAreHonest
CHECK_DEADLOCK FALSE
