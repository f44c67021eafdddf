CONSTANTS
    HedgeMode = TRUE
    Targets = {"LONG", "SHORT"}
    MaxQty = 1
    MaxOrders = 2
    MaxFills = 2
    MaxTime = 0
    MaxCrashes = 1
    MaxDiskFails = 1
    SettleTries = 2
    SettleBack = 0
    EventGap = 0
    IntentTtl = 1
    Lookback = 1
    RepairTime = 0
    LegacyLogs = {TRUE, FALSE}
    LogReadsFail = FALSE
SPECIFICATION Spec
INVARIANTS
    TypeOK
    OnlyEstimatesRecount
    OnlyClosesBooked
    FillsAnchoredOnce
PROPERTIES
    AnchorsAreFinal
    ImplementsLedger
CHECK_DEADLOCK FALSE
