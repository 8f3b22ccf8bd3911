SPECIFICATION FairSpec
CONSTANTS
    Request = {r1, r2}
    Cleaner = cleaner
    Token = {k1, k2}
    Host = {h1, h2}
    NoHost = none
    Legacy = legacy
    ApiHosts = 2
INVARIANTS
    TypeOK
    OneStartPerToken
PROPERTIES
    HostStopsOnlyItsOwn
    ExpiredRecordGoes
    JobEndsWhatItForgets
CHECK_DEADLOCK FALSE
