CONSTANTS
    TopicList <- TwoTopics
    Ids = {1, 2}
    MaxLength = 2
    MaxFailures = 2
SPECIFICATION FairSpec
INVARIANTS
    TypeOK
    NoEventTwice
    CommittedIsWritten
PROPERTIES
    IngestsOnce
    EveryEventWritten
