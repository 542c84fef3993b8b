SPECIFICATION MCSpec
CONSTANTS
    Backoff = 2
    Grace = 5
    MaxLate = 1
    Handles = {"h1", "h2", "h3"}
    Devs = {"rpmsg0", "rpmsg1", "rpmsg2"}
    Fds = {"fd3", "fd4"}
    NameLength = 26
    OpenMayFail = TRUE
    SignalsInCalls = FALSE
INVARIANTS
    TypeOK
    EndpointsAreSound
    NoOtherDeviceIsLeft
PROPERTIES
    Connects
    LetsGo
    SignalEndsProcess
