CONSTANTS
    EventTypes = {"device_registered"}
    Faults = {"sigterm"}
    MaxAccountsPerCustomer = 9
    MaxCardsPerAccount = 9
    QueueLimit = 9
    MaxClock = 9
SPECIFICATION Spec
INVARIANTS
    JoinsPossible
