SPECIFICATION FairSpec
CONSTANTS
    CallTimeout = 100
    Resend = 5
    Pause = 1
    ShortBurn = 2
    MinBurn = 8
    MaxBurn = 12
    StopTimeout = 20
    Linux = 0
    Unset = 99
PROPERTIES
    ShutdownAlwaysAcked
