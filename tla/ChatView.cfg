SPECIFICATION FairView
CONSTANTS
    Drawn = {1, 2}
    Peer = {3}
    Load = {l1}
INVARIANTS
    ViewTypeOK
    OneRowPerMessage
    SubmittedNotLost
PROPERTY OwnRowsSettle
CHECK_DEADLOCK FALSE
