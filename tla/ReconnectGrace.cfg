SPECIFICATION Spec
CONSTANTS
    Backoff = 2
    Grace = 5
    MaxLate = 1
PROPERTIES
    GraceAfterStop
