SPECIFICATION Spec
CONSTANTS
    a1 = a1 a2 = a2 e1 = e1 e2 = e2 h1 = h1 h2 = h2 r1 = r1
    Approvals = {a1, a2}
    NoApproval = NoApproval
    Runs = {r1}
    Attempts = {e1, e2}
    Handlers = {h1, h2}
    Pruner = pruner
    NoRun = NoRun
    Absent = Absent
    NoJob = NoJob
    Unread = Unread
    Free = Free
    MaxEvents = 7
    MaxCrashes = 2
    MaxFaults = 1
SYMMETRY Symmetry
INVARIANTS AttemptsAreSound RecoveryIsExact
