SPECIFICATION ViewSpec
CONSTANTS
    Drawn = {1, 2}
    Peer = {3}
    Load = {l1}
INVARIANT RetrySafeWrites
CHECK_DEADLOCK FALSE
