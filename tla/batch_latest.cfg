CONSTANTS
    Cards = {"k1"}
    Payments <- TwoPayments
    Step = 2
    Window = 4
    Day = 8
    Runs = {"r1"}
    Loads = {}
    MaxTopic = 0
    MaxFailures = 0
SPECIFICATION Spec
INVARIANTS
    LatestOnly
