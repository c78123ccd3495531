SPECIFICATION Spec
CONSTANTS
    m1 = m1
    m2 = m2
    b1 = b1
    b2 = b2
    a = a
    b = b
    c = c
    NoMessage = NoMessage
    NoCount = NoCount
    Message = {m1, m2}
    RequestId = {b1, a, b}
    MaxRequestsPerDay = 3
    OuterOf <- SameOuter
    ItemsOf <- Resent
    LostAt <- AllButExecuteAndQuota
    Crashes = TRUE
INVARIANTS
    TypeOK
    WriteAtMostOnce
    EffectStaysClaimed
    HonestItems
    AuditBeforeCompleted
    CapRespected
    ClaimedIsCharged
    RateLimitedMeansNoneLeft
PROPERTIES
    KeepsContract
    RemainingNotOverstated
SYMMETRY Interchangeable
CHECK_DEADLOCK FALSE
