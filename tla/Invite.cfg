SPECIFICATION Spec
CONSTANTS
    Request = {r1, r2, r3, r4}
    NoRequest = none
    Room = {m1, m2}
    User = {u1, u2}
    MaxUses = 2
    InviteTtl = 2
    RedeemTtl = 1
SYMMETRY Symmetry
INVARIANTS
    TypeOK
    UsesConserved
    AdmittedOnceAsInvited
    RevokedIsGone
    ListedWhileLive
