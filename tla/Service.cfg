CONSTANTS
    c1 = c1
    c2 = c2
    MaxImageBytes = 12
    MaxHistoryImages = 2
    MaxWaypoints = 1
    MaxRequestBodyBytes = 24
    Blank = Blank
    Mistyped = Mistyped
    Absent = Absent
    NotBase64 = NotBase64
    Unreadable = Unreadable
    NotJson = NotJson
    None = None
    ServiceName = "s1"
    Texts <- MCTexts
    Connections <- MCConnections
    Calls <- MCCalls
    Answers <- MCAnswers
    Fallback = TRUE
SPECIFICATION Spec
INVARIANTS
    UsesLoadedModel
    WarmCallsNeverLoad
    ExactlyOneReply
    DeliveredAnswersMatch
PROPERTIES
    EveryCallEnds
    HealthWhileHanging
CHECK_DEADLOCK FALSE
