\* Two trades, so two tuners at a time beside an edit and observations.
CONSTANTS
    MaxTrades = 2
    MaxScore = 2
    OldRows = 1
    RevertAfter = 1
    RollbackAfter = 0
    TuneEvery = 1
SPECIFICATION Spec
INVARIANTS
    TypeOK
    BestWasRated
CHECK_DEADLOCK FALSE
