CONSTANTS
    NR_REQUEST = 2
    Dev = {0, 1}
    Sector = {0, 2}
    Cmd = {0}
    Size = 2
    PerTrack = 2
    MAX_ERRORS = 1
    MonTicks = 2
    OffTicks = 1
    Patient = TRUE
    MaxMade = 2
    MaxFaults = 2
SPECIFICATION FlpSpec
INVARIANTS
    DriveSelected
    OneThread
PROPERTIES
    ServesRequests
    ChangeReturns
CHECK_DEADLOCK FALSE
