SPECIFICATION Spec
CONSTANTS
    Request = {r1, r2, r3}
    NoRequest = none
    Role = "member"
    JoinLockTtl = 1
    SessionTtl = 2
    StaleLimit = 0
SYMMETRY RequestSymmetry
INVARIANTS
    TypeOK
    FailedJoinCannotAct
    LeaseFitsHolder
PROPERTIES
    DisplacedStaysDisplaced
    ImplementsLease
