SPECIFICATION MCSpec
CONSTANTS
    Lists = {l1, l2, l3}
    Campaigns = {k1, k2}
    Callers = {c1, c2}
    MaxCalls = 4
    MaxEdits = 2
    None = None
    RowStates = {"Active", "Cooldown"}
    DefaultCap = 2
    OwnCaps = {1}
    MaxClock = 2
    MaxInbound = 1
    MaxRuns = 1
SYMMETRY Symmetry
INVARIANTS
    LaterCallsAreBound
    SourcedOncePerCaller
    
    RunAnswersWhatItSaw
PROPERTIES
    ContextLostOnlyToRemoval
CHECK_DEADLOCK FALSE
