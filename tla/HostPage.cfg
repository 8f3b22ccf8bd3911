SPECIFICATION HostSpec
CONSTANTS
    MaxUnderWay = 2
    RequireInvite = FALSE
INVARIANTS
    HostTypeOK
    BusyMeansBusy
PROPERTIES
    HostGetsIn
