SPECIFICATION FairSpec
CONSTANTS
    EndPts = {e1}
    NoEndPt = none
    MaxId = 1
    WrapIds = TRUE
    Capacity = 1
    MaxDrain = 1
    Timeouts = TRUE
    R5Stops = TRUE
    LinuxRestarts = TRUE
PROPERTIES
    PeerRecovers
