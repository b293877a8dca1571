CONSTANTS
    None = None
    NaN = NaN
    ForwardSpeed = 150000
    TurnSpeed = 350000
    MaxLinearX = 120000
    MaxAngularZ = 450000
    StepDuration = 2
    VisualServoEnabled = TRUE
    TargetForwardSpeed = 100000
    TargetTurnGain = 800
    TargetMaxAngularZ = 250000
    TargetCenterDeadband = 100
    TargetStopArea = 300
    TargetMinConfidence = 200
    HistorySize = 2
    MaxHistoryImages = 2
    MinInferencePeriod = 1
    CommandTimeout = 1
    QueueDepth = 2
    FrameKinds = {"jpeg", "invalid"}
    MaxFrames = 2
    AgeCap = 3
    Bodies <- MCBodies
SPECIFICATION Spec
PROPERTY
    MotionFollowedByZero
CHECK_DEADLOCK FALSE
