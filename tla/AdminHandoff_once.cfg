SPECIFICATION Spec
CONSTANTS
    scoped = scoped
    global = global
    x = x
    r1 = r1
    r2 = r2
    r3 = r3
    Token = {scoped, global}
    Tenant = {x}
    NoTenant = NoTenant
    TenantOf <- MCTenantOf
    Exp <- MCExp
    Request = {r1, r2, r3}
    TokenOf <- MCTokenOf
    Redemption = {d1, d2}
    Socket = {s1}
    Nobody = Nobody
    TicksPerSecond = 2
    Lifetime = 1
    MaxTime = 4
    MaxFaults = 2
CHECK_DEADLOCK FALSE
INVARIANTS
    TypeOK
    OneCodePerToken
PROPERTIES
    ImplementsLogin
