SPECIFICATION Spec
CONSTANTS
    Request = {r1, r2}
    Page = page
    Feature = {camera, screen}
    Lease = 2
    RoomTtl = 3
    MaxTime = 4
INVARIANTS
    TypeOK
    GrantFitsLease
    StageAgrees
PROPERTY AcceptedEndsLapses
CHECK_DEADLOCK FALSE
