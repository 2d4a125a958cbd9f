CONSTANTS
    EventTypes <- Topics
    Faults <- AllFaults
    MaxAccountsPerCustomer = 2
    MaxCardsPerAccount = 2
    QueueLimit = 2
    MaxClock = 6
SPECIFICATION Spec
INVARIANTS
    TypeOK
    FileSound
    EventsAreDurable
    LimitsRespected
    CardDeterminesGroup
    EventIdsUnique
PROPERTIES
    RowsSurvive
    AtMostOnce
