SPECIFICATION Spec
CONSTANTS
    MaxConnects = 2
    MaxFailures = 1
    MaxHandlers = 1
CHECK_DEADLOCK FALSE
INVARIANTS
    StopEndsConsumption
