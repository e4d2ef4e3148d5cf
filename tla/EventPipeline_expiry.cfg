SPECIFICATION FairSpec
CONSTANTS
    t1 = t1
    a1 = a1
    i1 = i1
    i2 = i2
    first = first
    threshold = threshold
    buy = buy
    close = close
    m1 = m1
    m2 = m2
    m3 = m3
    m4 = m4
    m5 = m5
    m6 = m6
    v1 = v1
    v2 = v2
    Tenant = {t1}
    Auction = {a1}
    EventId = {buy, close}
    Value = {v1, v2}
    None = None
    Envelope <- MCEnvelope
    CanExpire = TRUE
    Instance = {i1, i2}
    Message = {m2, m4, m6}
    EventOf <- MCEventOf
    Prefetch = 2
    MaxFaults = 1
CHECK_DEADLOCK FALSE
INVARIANTS
    TypeOK
    Converges
    NothingSkippedWithoutFaults
    FeedIsBackedByProjection
PROPERTIES
    EventuallySettled
    StateNeverRegresses
