SPECIFICATION Spec
CONSTANTS
    Approvals = {}
    NoApproval = NoApproval
    Kinds = {"normal"}
    CancelPoints <- AtEnd
    MaxCancels = 1
INVARIANTS TerminalWhenOver
CHECK_DEADLOCK FALSE
