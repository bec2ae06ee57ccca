\* Three servers, each of which may fail at every point.
CONSTANTS
    Server = {"v4", "v6", "dns"}
    MaxOpen = 1
SPECIFICATION FairSpec
INVARIANTS
    TypeOK
    CauseIsReported
    NothingCutOff
    NothingLeftRunning
PROPERTIES
    StopsWhenToldTo
