SPECIFICATION MCSpec
CONSTANTS
    Hours = 3
    Week = 3
    Cap = 2
    MaxLedger = 2
    MaxClaims = 3
    MaxRows = 3
    MaxGap = 2
    MaxQueue = 1
    MaxBatch = 3
    Definers = {def1, def2}
    Steps <- MCSteps
    MaxSteps = 2
    MaxRewrites = 2
    MaxFormEdits = 1
    FeedLimit = 2
    ErrorHours = 1
    MaxItems = 3
    MaxTime = 2
    Cards = {p1, p2, p3}
    PageSize = 3
    Wanted = 4
    SearchCap = 1
    Limit = 2
    MaxMoves = 3
    Accounts = {a1, a2}
    All = All
    Unlinked = Unlinked
    MaxLoads = 3
    MaxChanges = 2
    Keys = {1, 2, 3, 4}
    Cell <- MCCell
    Hits = {2, 3, 4}
    TablePage = 2
    Threads = {t1, t2, t3}
    Found = {t1, t2}
    MaxPolls = 2
    Nobody = Nobody
SYMMETRY Symmetry
INVARIANTS
    
    ForecastFillsDays
    PacingHolds
    SequenceIsWhole
    FeedIsComplete
    ReadsLeaveNoGap
    ViewsShowWhatWasAsked
CHECK_DEADLOCK FALSE
