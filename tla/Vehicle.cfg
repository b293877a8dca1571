CONSTANTS
    None = None
    NaN = NaN
    ForwardSpeed = 150000
    TurnSpeed = 350000
    MaxLinearX = 120000
    MaxAngularZ = 450000
    StepDuration = 2
    VisualServoEnabled = TRUE
    TargetForwardSpeed = 100000
    TargetTurnGain = 800
    TargetMaxAngularZ = 250000
    TargetCenterDeadband = 100
    TargetStopArea = 300
    TargetMinConfidence = 200
    HistorySize = 1
    MaxHistoryImages = 2
    MinInferencePeriod = 0
    CommandTimeout = 1
    QueueDepth = 2
    FrameKinds = {"jpeg", "invalid"}
    MaxFrames = 2
    AgeCap = 3
    SendAttempts = 3
    AngularZScale <- MCScale
    MaxFaults = 2
    Bodies <- MCBodies
SPECIFICATION VehicleSpec
INVARIANTS
    RepetitionMasksFaults
    ChassisFollows
PROPERTIES
    ChassisComesToRest
    CallbackReturns
    NeverSilentForGood
    ImplementsSafeMotion
CHECK_DEADLOCK FALSE
