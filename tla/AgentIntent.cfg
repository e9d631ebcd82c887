SPECIFICATION LoopSpec
CONSTANTS
    RowStates = {"Active"}
    DefaultCap = 2
    OwnCaps = {1}
    MaxClock = 1
    MaxInbound = 1
    MaxRuns = 1
INVARIANT NamedIntentIsRead
CHECK_DEADLOCK FALSE
