\* Two trades, of one symbol or of two, of which each may be of the day before, with one
\* failed write and one restart.
CONSTANTS
    MaxTrades = 3
    Others = {3}
    MaxClosed = 2
    MaxDay = 2
    MaxFaults = 1
    MaxRestarts = 1
    ReadsFail = FALSE
SPECIFICATION FairSpec
INVARIANTS
    TypeOK
    DailyIsOfItsDay
PROPERTIES
    OnlyHealthTakesBack
    DailyForgets
    TradesAreRecorded
    LoopIsFreed
CHECK_DEADLOCK FALSE
