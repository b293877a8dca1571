CONSTANTS
    MaxImageBytes = 12
    MaxHistoryImages = 2
    MaxWaypoints = 1
    MaxRequestBodyBytes = 24
    Blank = Blank
    Mistyped = Mistyped
    Absent = Absent
    NotBase64 = NotBase64
    Unreadable = Unreadable
    Texts <- MCTexts
    Infinity = Infinity
    NotGiven = NotGiven
    MaxChanges = 3
    None = None
    NaN = NaN
    Speck = Speck
    ForwardSpeed = 150000
    TurnSpeed = 350000
    MaxLinearX = 120000
    MaxAngularZ = 450000
    StepDuration = 2
    VisualServoEnabled = TRUE
    TargetForwardSpeed = 100000
    TargetTurnGain = 800
    TargetMaxAngularZ = 250000
    TargetCenterDeadband = 100
    TargetStopArea = 300
    TargetMinConfidence = 200
SPECIFICATION Spec
INVARIANTS
    MessagesSurvive
    AcceptedAreExecutable
    FirstCommandIsCommandsZero
    SteersTowardsTarget
    TextsAreAnswers
    AnswerOrJsonDrives
    ClosestSteps
    MergingKeepsCommands
    ReadableBoxes
    PicturesKept
    AcceptedAreShown
    UnreadableTargetHalts
    PlayerShowsTheFile
CHECK_DEADLOCK FALSE
