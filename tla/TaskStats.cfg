SPECIFICATION FairSpec
CONSTANTS
    Streams = {s1}
    MaxTasks = 2
    MaxUsage = 1
INVARIANTS BilledOnce
PROPERTIES EndsOnCancel EndsWithUnit MeasuresInTheEnd
CHECK_DEADLOCK FALSE
