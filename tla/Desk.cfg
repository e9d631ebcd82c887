SPECIFICATION MCSpec
CONSTANTS
    Tabs = {tab1, tab2}
    Texts = {draft, edit}
    MaxCalls = 2
    Cards = {card1, card2}
    Actions = {"connect"}
    MaxCap = 1
    MaxHour = 2
    Weekdays = {1}
    MaxEdits = 2
    MaxPatches = 2
    Intervals = {1, 2}
    DefaultStale = 3
    ScanWindow = 2
    MaxClock = 5
    StartStates = {"Active"}
    Threshold = 3
    MaxSignals = 6
SYMMETRY Symmetry
INVARIANTS
    DecidedOnce
    HealthIsHonest
PROPERTIES
    SwitchOffSticks
    EscalationIsExact
CHECK_DEADLOCK FALSE
