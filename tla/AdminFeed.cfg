SPECIFICATION Spec
CONSTANTS
    page = page
    chart = chart
    i1 = i1
    i2 = i2
    None = None
    Tenant = {"t1", "t2"}
    Auction = {"a1", "a2"}
    EventId = {"bid", "buy"}
    Message = {"bid", "purchase", "again", "bad"}
    Value <- MCValue
    Envelope <- MCEnvelope
    CanExpire = FALSE
    Instance = {i1, i2}
    Body <- MCBody
    Bodies <- MCBodies
    Page = {page}
    Chart = {chart}
    Scope <- MCScope
    Capacity = 2
    MaxCrashes = 1
    MaxRange = 3
    DefaultRange = 2
    FutureSkew = 1
    DefaultLimit = 2
    MaxLimit = 3
    MaxExportLimit = 4
    Searches <- MCSearches
    Table <- MCTable
    Now = 4
SYMMETRY InstanceSymmetry
CHECK_DEADLOCK FALSE
INVARIANTS
    TypeOK
    ContractIsRight
    HistoryIsRight
    NewestAreShown
    DeltasOnceInScope
