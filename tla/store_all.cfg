CONSTANTS
    Names <- TableNames
    Configured <- Features
    Topic <- Topics
    Keys <- RequestKeys
    MaxAttempts = 2
    MaxFailures = 1
    Window = 1
    MaxTime = 1
SPECIFICATION FairSpec
INVARIANTS
    TypeOK
    DoneAsConfigured
    FailuresAreIsolated
    AnswerAboutAsked
    NeverAmbiguous
    AnswerIsCurrent
PROPERTIES
    FoundAtLast
