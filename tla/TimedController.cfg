CONSTANTS
    None = None
    NaN = NaN
    ForwardSpeed = 150000
    TurnSpeed = 350000
    MaxLinearX = 120000
    MaxAngularZ = 450000
    StepDuration = 4
    VisualServoEnabled = TRUE
    TargetForwardSpeed = 100000
    TargetTurnGain = 800
    TargetMaxAngularZ = 250000
    TargetCenterDeadband = 100
    TargetStopArea = 300
    TargetMinConfidence = 200
    HistorySize = 1
    MaxHistoryImages = 2
    MinInferencePeriod = 5
    CommandTimeout = 5
    QueueDepth = 2
    FrameKinds = {"jpeg"}
    MaxFrames = 9
    AgeCap = 16
    InferenceTimeout = 4
    MaxOperations = 2
    CameraPeriod = 3
    MaxMisses = 1
    Bodies <- MCBodies
SPECIFICATION TimedSpec
INVARIANTS
    MotionIsBrief
    SilenceBounded
    MotionIsRecent
CHECK_DEADLOCK FALSE
