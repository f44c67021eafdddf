CONSTANTS
    Tasks = {t1, t2}
    NoTask = none
    StopRoutes = {"thread"}
    MaxEdits = 2
    MaxPos = 1
    MaxFlights = 0
    MaxRestarts = 1
SPECIFICATION FairSpec
PROPERTIES
    LoopRevived
    LoopEnds
