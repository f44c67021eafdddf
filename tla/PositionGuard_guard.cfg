CONSTANTS
    Sides = {LONG}
    NoSide = none
    Callers = {"loop", "route"}
    MaxEntries = 2
    MaxStop = 1
    MaxRestarts = 1
SPECIFICATION Spec
INVARIANTS
    TypeOK
PROPERTY
    StopOnlyTightens
    TighteningSurvives
    SweepSparesHeld
CHECK_DEADLOCK FALSE
