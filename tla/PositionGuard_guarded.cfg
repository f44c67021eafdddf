CONSTANTS
    Sides = {LONG}
    NoSide = none
    Callers = {"loop", "route"}
    MaxEntries = 1
    MaxStop = 1
    MaxRestarts = 2
SPECIFICATION FairSpec
PROPERTY
    ComesUnderGuard
    PhantomLocksEnd
CHECK_DEADLOCK FALSE
