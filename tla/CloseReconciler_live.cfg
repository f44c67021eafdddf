CONSTANTS
    HedgeMode = TRUE
    Targets = {"LONG"}
    MaxQty = 1
    MaxOrders = 2
    MaxFills = 2
    MaxTime = 1
    MaxCrashes = 1
    MaxDiskFails = 0
    SettleTries = 1
    SettleBack = 0
    EventGap = 0
    IntentTtl = 0
    Lookback = 1
    RepairTime = 0
    LegacyLogs = {FALSE}
    LogReadsFail = FALSE
SPECIFICATION FairSpec
PROPERTIES
    ImplementsLedger
    EveryCloseAccounted
CHECK_DEADLOCK FALSE
