\* Four requests and two faults beside the watchdog, on both kinds of platform.
CONSTANTS
    MaxRequests = 4
    MaxFaults = 2
SPECIFICATION FairSpec
INVARIANTS
    TypeOK
    StopHolds
PROPERTIES
    Supervised
    BackendRevived
CHECK_DEADLOCK FALSE
