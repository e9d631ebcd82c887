SPECIFICATION Spec
CONSTANTS
    None = None
    Callers = {c1, c2}
    RowIds = {r1, r2}
    Types = {"connect", "message"}
    Cap <- OneEach
    WeeklyCeiling = 1
    MinGap = 2
    Jitter = 1
    MaxDrive = 1
    StaleAge = 1
    DayLen = 4
    WeekLen = 6
    MaxTime = 6
    MaxCrashes = 1
    MaxCommands = 2
SYMMETRY GateSymmetry
INVARIANTS
    OneDriveAtATime
    CapsHold
    Spaced
    PauseIsDurable
    OneActionAfterPause
CHECK_DEADLOCK FALSE
