SPECIFICATION Spec
CONSTANTS
    Member = {m1, m2}
    Feature = {"camera", "screen_share"}
INVARIANT OneLayout
CHECK_DEADLOCK FALSE
