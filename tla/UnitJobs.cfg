SPECIFICATION FairSpec
CONSTANTS
    Tasks = {t1, t2}
    NoTask = NoTask
    MaxInt64 = 3
INVARIANTS JobsAreHonest OrphansAreReported StartTimeIsReal
PROPERTIES CallsEnd
CHECK_DEADLOCK FALSE
