\* The program may really stop: after the signal.
CHECK_DEADLOCK FALSE
CONSTANTS
    w1 = w1
    w2 = w2
    Workers <- TwoWorkers
    MaxSize = 2
    MaxRecords = 5
    BadRecords = {}
    MayStop = TRUE
SPECIFICATION FairSpec
PROPERTIES
    ProgramEnds
