SPECIFICATION MCSpec
CONSTANTS
    StartMarker <- MCStart
    EndMarker <- MCEnd
    LengthType = "U16_LE"
    BigEndian = FALSE
    Adjustment = 1
    ChecksumType = "SUM8"
    Scope = {"LENGTH", "PAYLOAD"}
    Payloads <- MCPayloads
    BufferLength = 2
    Noise = {170, 85}
    FifoSize = 1
    MaxFaults = 2
    LengthSafe = TRUE
    Types <- MCTypes
    Messages <- MCMessages
    Wrong <- MCByte
    MaxBurst <- MCMaxBurst
CHECK_DEADLOCK FALSE
INVARIANTS
    TypesOK
    MatchIsLongest
    ErrorsAreNoticed
    WellKnownValues
PROPERTIES
    FramesInOrder
    Resync
