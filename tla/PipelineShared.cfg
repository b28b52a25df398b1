SPECIFICATION WalkSpec
CONSTANTS
    m1 = m1
    m2 = m2
    m3 = m3
    rt1 = rt1
    rt2 = rt2
    a = a
    b = b
    c = c
    None = None
    Runs = {r1, r2}
    Msgs = {m1, m2, m3}
    Skills = {a, b, c}
    Routes = {rt1, rt2}
    RouteOf <- RouteOfMsg
    ChainsOf <- ShortChains
    BacktrackOf <- NoBacktrack
    Conditional = {}
    Pausing = {b}
    Missing = {}
    BaseGates = FALSE
    FileFaults = TRUE
    MaxBase = 1
    MaxSame = 1
    MaxAttempts = 1
    MaxBacktracks = 0
    MaxBreaks = 1
SYMMETRY RunSymmetry
INVARIANTS ContextIsOneRequest
CHECK_DEADLOCK FALSE
