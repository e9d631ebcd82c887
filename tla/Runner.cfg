SPECIFICATION MCSpec
CONSTANTS
    Callers = {c1, c2}
    MaxOpens = 3
    MaxIssued = 2
    Texts = {"t1", "t2"}
    MaxEvents = 2
    MaxTime = 2
    Ttl = 2
    MaxInvites = 4
    PageSize = 2
    Ceiling = 4
    SweepMax = 2
    MaxThrottles = 1
    BatchSize = 1
    MaxSweeps = 1
    MaxDrives = 2
INVARIANTS
    NoDeadSession
    WatermarkHidesNothing
    
    
    AnswerIsTrue
    OnlyTheTargetIsWritten
PROPERTIES
    SessionNeverRollsBack
CHECK_DEADLOCK FALSE
