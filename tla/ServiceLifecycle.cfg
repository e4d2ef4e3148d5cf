SPECIFICATION ServiceFairSpec
CONSTANTS
    MaxConnects = 4
    MaxFailures = 3
    MaxHandlers = 2
    MaxRequests = 2
CHECK_DEADLOCK FALSE
INVARIANTS
    ServiceTypeOK
    ConnectedIsOpen
    NoReconnectAfterStop
    RedisOutlivesItsUsers
    NothingLeft
PROPERTIES
    StopDrains
    Recovers
    ShutdownCompletes
