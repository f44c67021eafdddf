CONSTANTS
    HedgeMode = TRUE
    Targets = {"LONG"}
    MaxQty = 1
    MaxOrders = 1
    MaxFills = 1
    MaxTime = 0
    MaxCrashes = 0
    MaxDiskFails = 0
    SettleTries = 1
    SettleBack = 0
    EventGap = 0
    IntentTtl = 1
    Lookback = 1
    RepairTime = 0
    LegacyLogs = {FALSE}
    LogReadsFail = FALSE
SPECIFICATION Spec
INVARIANTS
    CountedOnce
CHECK_DEADLOCK FALSE
