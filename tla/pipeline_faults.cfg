SPECIFICATION Spec
CONSTANTS
    w1 = w1
    w2 = w2
    p1 = p1
    m1 = m1
    m2 = m2
    m3 = m3
    NoWorker = NoWorker
    NoMessage = NoMessage
    Worker = {w1, w2}
    Process = {p1}
    Message = {m1, m2}
    RequestId = {r1}
    MaxRequestsPerDay = 1
    ProcessOf <- OneProcess
    IdOf <- SameId
    KindOf <- WriteAndRead
    LostAt <- EverySite
    Crashes = TRUE
INVARIANTS
    OneReplyPerMessage
    CapRespected
    NoUnchargedWrite
    NoUnclaimedWrite
PROPERTIES
    TerminalStatusesStick
CHECK_DEADLOCK FALSE
