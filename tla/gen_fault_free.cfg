CONSTANTS
    EventTypes <- CustomerEvents
    Faults = {}
    MaxAccountsPerCustomer = 9
    MaxCardsPerAccount = 9
    QueueLimit = 7
    MaxClock = 7
SPECIFICATION FairSpec
INVARIANTS
    LoginIdsUnique
PROPERTIES
    EveryEventArrives
