SPECIFICATION ServiceFairSpec
CONSTANTS
    MaxConnects = 1
    MaxFailures = 1
    MaxHandlers = 1
    MaxRequests = 1
CHECK_DEADLOCK FALSE
PROPERTIES
    FailedStartIsRethrown
