SPECIFICATION FairSpec
CONSTANTS
    Writer = {w1, w2}
    Own = {w2}
    RingSize = 1
    BacklogLimit = 1
    HistoryLimit = 1
INVARIANTS
    TypeOK
    StreamSkipsNothing
    NothingAfterSession
PROPERTY OwedArrives
CHECK_DEADLOCK FALSE
