CONSTANTS
    NR_REQUEST = 4
    Dev = {1}
    Sector = {0, 2, 4, 6}
    NrSects = 6
    MAX_ERRORS = 4
SPECIFICATION HdSpec
INVARIANTS
    ListIsTable
    OneSweepBack
PROPERTIES
    KeepsElevator
    ServesRequests
    GivenUpForErrors
