CONSTANTS
    TopicList <- OneTopic
    Ids = {1, 2}
    MaxLength = 3
    MaxFailures = 0
SPECIFICATION Spec
INVARIANTS
    OneRowPerId
