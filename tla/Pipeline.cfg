SPECIFICATION FairWalkSpec
CONSTANTS
    m1 = m1
    m2 = m2
    m3 = m3
    rt1 = rt1
    rt2 = rt2
    a = a
    b = b
    c = c
    None = None
    Runs = {r1}
    Msgs = {m1}
    Skills = {a, b, c}
    Routes = {rt1, rt2}
    RouteOf <- OneMessage
    ChainsOf <- LongChains
    BacktrackOf <- BackToFirst
    Conditional = {a}
    Pausing = {b}
    Missing = {c}
    BaseGates = TRUE
    FileFaults = TRUE
    MaxBase = 2
    MaxSame = 2
    MaxAttempts = 3
    MaxBacktracks = 1
    MaxBreaks = 2
INVARIANTS ProgressIsConsistent
PROPERTIES ChainEnds
CHECK_DEADLOCK FALSE
