SPECIFICATION FairSpec
CONSTANTS
    r1 = r1 r2 = r2 a1 = a1 a2 = a2 h1 = h1 h2 = h2
    Runs = {r1}
    Approvals = {a1, a2}
    Handlers = {h1, h2}
    NoApproval = NoApproval
    NoEntry = NoEntry
    NoRequest = NoRequest
    MaxRestarts = 1
    MaxFaults = 1
INVARIANTS DecisionsAreSound
PROPERTIES ImplementsContract WaitingEnds
CHECK_DEADLOCK FALSE
