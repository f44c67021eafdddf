CONSTANTS
    Reviews = {loop, thread}
    LockFor = 1
    CooldownFor = 1
    RecoverFor = 1
    UndoAfter = 1
    UndoUntil = 1
    KeepLast = 2
    MaxMade = 3
    MaxRestarts = 1
    MaxTime = 1
SYMMETRY Interchangeable
SPECIFICATION Spec
INVARIANTS
    TypeOK
    LocksGovern
    
CHECK_DEADLOCK FALSE
