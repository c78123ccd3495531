SPECIFICATION FairSpec
CONSTANTS
    w1 = w1
    w2 = w2
    p1 = p1
    m1 = m1
    m2 = m2
    m3 = m3
    NoWorker = NoWorker
    NoMessage = NoMessage
    Worker = {w1, w2}
    Process = {p1}
    Message = {m1}
    RequestId = {r1}
    MaxRequestsPerDay = 2
    ProcessOf <- OneProcess
    IdOf <- SameId
    KindOf <- AllWrites
    LostAt <- AllButMark
    Crashes = FALSE
INVARIANTS
    DuplicateWasAnswered
PROPERTIES
    EventuallyAcknowledged
    EventuallyAnswered
CHECK_DEADLOCK FALSE
