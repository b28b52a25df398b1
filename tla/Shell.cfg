SPECIFICATION Spec
CONSTANTS
    MaxMessages = 3
    MaxQueued = 1
    MaxShellOps = 2
    MaxPrompts = 2
    MaxFrames = 3
    MaxTurns = 1
    MaxResumes = 1
    MaxSystemLines = 1
    TranscriptLimit = 5
    TrimTarget = 4
    Restored = 4
    None = None
    NewTurns = {t1, t2}
    Resumes = {v1}
    Identities = {i1, i2}
    Wants = {i2, None}
    DefaultId = i1
    HistoryLimit = 1
    MaxSessionFaults = 1
    MaxCompress = 1
INVARIANTS ShellIsInStep InputIsKept TranscriptIsExact SessionIsSound
PROPERTIES StaticOnlyGrows
SYMMETRY TurnSymmetry
CHECK_DEADLOCK FALSE
