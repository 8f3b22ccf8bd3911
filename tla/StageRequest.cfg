SPECIFICATION RequestSpec
CONSTANTS
    Member = {m1}
    Feature = {"camera", "screen_share"}
    MaxOpen = 2
    MaxCalls = 2
    MaxListed = 1
INVARIANTS
    RequestTypeOK
    ApprovalBacked
CHECK_DEADLOCK FALSE
