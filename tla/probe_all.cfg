CONSTANTS
    FlushTimeout = 1
    RequestTimeout = 3
    MaxTime = 6
    MaxFailures = 2
SPECIFICATION FairSpec
INVARIANTS
    TypeOK
    ObservedIsBound
    NoFalseAlarm
PROPERTIES
    EveryCheckEnds
