SPECIFICATION Spec
CONSTANTS
    Lists = {l1}
    Campaigns = {k1}
    Callers = {c1, c2}
    MaxCalls = 2
    MaxEdits = 0
    None = None
INVARIANT RemovedNeverReenters
CHECK_DEADLOCK FALSE
