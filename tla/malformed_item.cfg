SPECIFICATION Spec
CONSTANTS
    None = None
    Junk = Junk
    SensitiveQueries <- SensitiveTerms
    EventAttendeesMax = 3
    IgnoredParamsMax = 2
    InjectionDenyThreshold = 50
    ChunkChars = 40
    ChunkOverlap = 8
    SensitiveThreshold = 50
    SteeringThreshold = 70
    EditThreshold = 70
    FailClosed = TRUE
    Secret = "secret"
    Tolerance = 300
    InboxId = "inbox"
    OwnAddress = "gatekeeper"
    AllowedSenders = {"requester", "gatekeeper"}
    BatchMaxItems = 4
    PayloadMaxChars = 100
    ReaderLLMMaxInputChars = 100
    ReplyMaxChars = 1500
    MaxOwnerSteps = 1
    GoogleErrors <- Failures
    EventId = {"e1", "e2", "e3", "e4"}
    OwnersTitle <- Retitled
    OwnersGuest = "eve"
    CalendarList <- Calendars
    PrimaryAlias = "primary"
    FileId = {"f1", "f2", "f3", "f4"}
    OwnersText = "typed"
    Arriving <- LateMail
    Scenarios <- MalformedScenes
    Now = 1000
    FallbackId = "fallback"
INVARIANT
    MalformedItemDeniesOnlyItself
CHECK_DEADLOCK FALSE
