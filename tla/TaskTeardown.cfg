SPECIFICATION TFairSpec
CONSTANTS
    NoResult = NoResult
    Waiters = {}
    Stoppers = {s1}
    Destroyers = {d1}
    States = {"activating", "active", "inactive"}
    Statuses <- MCOneStatus
    MaxStarts = 1
INVARIANTS StopIsHonest NeverAbandoned
PROPERTIES RespectsHandler 
CHECK_DEADLOCK FALSE
