SPECIFICATION FairSpec
CONSTANTS
    Streams = {s1}
    MaxTasks = 2
    MaxUsage = 0
PROPERTIES StatsEndWithTask
CHECK_DEADLOCK FALSE
