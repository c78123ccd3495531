SPECIFICATION Spec
CONSTANTS
    w1 = w1
    w2 = w2
    p1 = p1
    m1 = m1
    m2 = m2
    m3 = m3
    NoWorker = NoWorker
    NoMessage = NoMessage
    Worker = {w1}
    Process = {p1}
    Message = {m1, m2}
    RequestId = {r1}
    MaxRequestsPerDay = 2
    ProcessOf <- OneProcess
    IdOf <- SameId
    KindOf <- AllWrites
    LostAt <- AtExecute
    Crashes = FALSE
INVARIANTS
    WriteAtMostOnce
CHECK_DEADLOCK FALSE
