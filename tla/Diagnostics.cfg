SPECIFICATION Spec
CONSTANTS
    Workers = {w}
    Probes = {p}
    Pools = {q}
    MaxSampleCount = 4
    MaxBucketCount = 3
    MaxIterations = 3
    ChecksumModulo = 7
    Samples <- SamplesVal
CHECK_DEADLOCK FALSE
INVARIANTS
    TypeOK
    SettledLeavesNothing
    AnswersAreGenuine
    CloseLeavesNothing
    CalculationIsRight
PROPERTIES
    EveryRequestEnds
