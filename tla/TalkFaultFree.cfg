SPECIFICATION FairSpec
CONSTANTS
    EndPts = {e1}
    NoEndPt = none
    MaxId = 3
    WrapIds = TRUE
    Capacity = 3
    MaxDrain = 2
    Timeouts = FALSE
    R5Stops = FALSE
    LinuxRestarts = FALSE
INVARIANTS
    NoCallFails
PROPERTIES
    CallsAnswered
