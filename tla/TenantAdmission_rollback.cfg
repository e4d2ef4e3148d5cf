SPECIFICATION Spec
CONSTANTS
    t1 = t1
    a1 = a1
    i1 = i1
    i2 = i2
    s1 = s1
    s2 = s2
    e1 = e1
    e2 = e2
    e3 = e3
    Tenant = {t1}
    Auction = {a1}
    Instance = {i1, i2}
    Socket = {}
    StatusEvent = {e1, e2, e3}
    Status <- MCStatus
    TenantOf <- MCTenantOf
    InstanceOf <- MCInstanceOf
    NoInstance = NoInstance
    MaxFails = 1
    MaxFaults = 0
CHECK_DEADLOCK FALSE
PROPERTIES
    OnlyNewerAccepted
