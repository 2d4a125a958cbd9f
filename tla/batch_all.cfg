CONSTANTS
    Cards = {"k1"}
    Payments <- ThreePayments
    Step = 2
    Window = 4
    Day = 8
    Runs = {"r1", "r2"}
    Loads = {"first", "second"}
    MaxTopic = 1
    MaxFailures = 1
SPECIFICATION FairSpec
INVARIANTS
    TypeOK
    EveryWindowCounts
PROPERTIES
    NeverBackInTime
    PinotCatchesUp
