SPECIFICATION TFairSpec
CONSTANTS
    NoResult = NoResult
    Waiters = {w1}
    Stoppers = {}
    Destroyers = {d1}
    States = {"active", "inactive"}
    Statuses <- MCOneStatus
    MaxStarts = 0
PROPERTIES WaitTaskSendsOnExit
CHECK_DEADLOCK FALSE
