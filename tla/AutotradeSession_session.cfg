CONSTANTS
    Tasks = {t1, t2}
    NoTask = none
    StopRoutes = {"loop", "thread"}
    MaxEdits = 3
    MaxPos = 1
    MaxFlights = 1
    MaxRestarts = 1
SPECIFICATION Spec
INVARIANTS
    TypeOK
    OneLoop
    SessionConfig
PROPERTIES
    StopIsDurable
    OrdersArePermitted
