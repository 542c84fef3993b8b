SPECIFICATION MCSpec
CONSTANTS
    EndPts = {e1, e2}
    NoEndPt = none
    MaxId = 3
    WrapIds = FALSE
    Capacity = 2
    MaxDrain = 2
    Timeouts = TRUE
    R5Stops = TRUE
    LinuxRestarts = TRUE
SYMMETRY EndPtSymmetry
INVARIANTS
    TypeOK
    PeerIsCurrent
PROPERTIES
    LinuxCallsAreRpc
    R5CallsAreRpc
CHECK_DEADLOCK FALSE
