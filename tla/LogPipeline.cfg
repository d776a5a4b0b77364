SPECIFICATION FairSpec
CONSTANTS
    MaxRecords = 2
    Capacity = 1
    MaxOpens = 2
    Room = 1
 
PROPERTIES  CancelledReaderEnds StopReturns Delivered
CHECK_DEADLOCK FALSE
