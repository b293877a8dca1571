CONSTANTS
    None = None
    NaN = NaN
    ForwardSpeed = 150000
    TurnSpeed = 350000
    MaxLinearX = 120000
    MaxAngularZ = 450000
    StepDuration = 1
    VisualServoEnabled = TRUE
    TargetForwardSpeed = 100000
    TargetTurnGain = 800
    TargetMaxAngularZ = 250000
    TargetCenterDeadband = 100
    TargetStopArea = 300
    TargetMinConfidence = 200
    HistorySize = 1
    MaxHistoryImages = 1
    MinInferencePeriod = 0
    CommandTimeout = 1
    QueueDepth = 1
    FrameKinds = {"jpeg", "invalid"}
    MaxFrames = 3
    AgeCap = 2
    Bodies <- MCBodies
    Answers <- MCAnswers
    Fallback = FALSE
    ServiceName = "other"
    NotJson = NotJson
    MaxImageBytes = 12
    MaxWaypoints = 1
    MaxRequestBodyBytes = 20
    Texts <- MCTexts
    Blank = Blank
    Mistyped = Mistyped
    Absent = Absent
    NotBase64 = NotBase64
    Unreadable = Unreadable
    Instruction = "other"
    JpegBytes <- MCJpegBytes
SPECIFICATION DeploymentSafety
INVARIANTS
    AnswersThisFrame
    AnswerIsUsed
    OnlyLengthIsRefused
CHECK_DEADLOCK FALSE
