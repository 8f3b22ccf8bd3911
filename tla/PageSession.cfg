SPECIFICATION FairSpec
CONSTANTS
    Sessions = 2
    MaxCalls = 2
INVARIANTS
    TypeOK
    CountdownShown
PROPERTIES
    ReconnectingEnds
    FailureFollowedUp
CHECK_DEADLOCK FALSE
