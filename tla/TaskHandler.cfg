SPECIFICATION FairSpec
CONSTANTS
    NoResult = NoResult
    Waiters = {w1}
    States <- UnitState
    Statuses <- MCStatuses
    MaxStarts = 2
INVARIANTS ExitIsTruthful
PROPERTIES KeepsContract WaitersHearOfExit
CHECK_DEADLOCK FALSE
