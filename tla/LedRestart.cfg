SPECIFICATION Spec
CONSTANTS
    MaxCount = 2
    MaxSeq = 3
    Together = FALSE
INVARIANTS
    AckAfterBlinks
CHECK_DEADLOCK FALSE
