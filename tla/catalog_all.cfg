\* The catalog may stay as it is: no job is deployed, no pod starts.
CHECK_DEADLOCK FALSE
CONSTANTS
    Modes <- AllModes
    Namespaces <- PlatformNamespaces
    Tables = {"t"}
    MaxDeployments = 2
    MaxAttempts = 7
    MaxFailures = 2
SPECIFICATION FairSpec
INVARIANTS
    TypeOK
    CredentialsStored
    DoneAsAsked
    NothingSlipsIn
PROPERTIES
    DeploymentEnds
