\* Two closes in the first units of time; a streak of two brakes longer than a big loss,
\* whose window is the shorter one; time enough for every copy to expire.
CONSTANTS
    Streak = 2
    StreakFor = 2
    StreakWindow = 3
    BigFor = 1
    BigWindow = 2
    VolatileFor = 1
    MaxAge = 3
    MaxCloses = 2
    LastCause = 2
    MaxTime = 8
SPECIFICATION FairSpec
INVARIANTS
    TypeOK
    BrakeBounded
PROPERTIES
    NoEntryIntoLoss
    BrakeReleases
CHECK_DEADLOCK FALSE
