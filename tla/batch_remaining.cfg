SPECIFICATION Spec
CONSTANTS
    m1 = m1
    m2 = m2
    b1 = b1
    b2 = b2
    a = a
    b = b
    c = c
    NoMessage = NoMessage
    NoCount = NoCount
    Message = {m1, m2}
    RequestId = {b1, b2, a, b, c}
    MaxRequestsPerDay = 3
    OuterOf <- NewOuter
    ItemsOf <- Regrouped
    LostAt <- Nowhere
    Crashes = FALSE
PROPERTIES
    RemainingExact
CHECK_DEADLOCK FALSE
