\* The program may really stop: after the signal.
CHECK_DEADLOCK FALSE
CONSTANTS
    w1 = w1
    w2 = w2
    Workers <- TwoWorkers
    MaxSize = 2
    MaxRecords = 6
    BadRecords = {6}
    MayStop = TRUE
SPECIFICATION FairSpec
INVARIANTS
    TypeOK
    NothingLost
    HandedOutInOrder
PROPERTIES
    AllStopOrPutHangs
    EveryRecordRequested
