SPECIFICATION FairSpec
CONSTANTS
    Request = {r1, r2, r3}
    Key = {send, invite}
    Invites = {invite}
    Limit = 1
    PageSize = 1
    MaxOthers = 2
INVARIANTS
    OncePerKey
    EventsComplete
PROPERTY RefusedNotForEver
CHECK_DEADLOCK FALSE
