------------------------------ MODULE Control ------------------------------
(***************************************************************************)
(* The pure part of the vehicle controller: what navida_deploy/control.py, *)
(* targeting.py, twist_bridge.py and frame_history.py compute.  Nothing    *)
(* here has state; RemoteController calls these operators where the        *)
(* controller calls the functions of the same name.                        *)
(*                                                                         *)
(* Units.  Speeds are in millionths, as in Motion.  Image coordinates,     *)
(* areas, confidences and TargetTurnGain are integers in thousandths, so   *)
(* that a gain times an error is exact in millionths, which is the grid    *)
(* round(..., 6) keeps.  Durations are in clock ticks.                     *)
(***************************************************************************)
EXTENDS Motion

CONSTANTS
    ForwardSpeed, TurnSpeed,            \* forward_speed, turn_speed
    MaxLinearX, MaxAngularZ,            \* max_linear_x, max_angular_z
    StepDuration,                       \* step_duration_s
    VisualServoEnabled,                 \* visual_servo_enabled
    TargetForwardSpeed, TargetTurnGain, TargetMaxAngularZ,
    TargetCenterDeadband, TargetStopArea, TargetMinConfidence,
    None,                               \* Python's None
    NaN                                 \* float("nan"): JSON may carry it

ASSUME ControlAssumption ==
    /\ {ForwardSpeed, TurnSpeed, MaxLinearX, MaxAngularZ} \subseteq Int
    /\ StepDuration \in Int
    /\ VisualServoEnabled \in BOOLEAN
    /\ {TargetForwardSpeed, TargetTurnGain, TargetMaxAngularZ} \subseteq Int
    /\ {TargetCenterDeadband, TargetStopArea, TargetMinConfidence} \subseteq Int

(* What a float may be: an infinity acts like a number beyond every limit   *)
(* here, so Int stands for it, too.                                         *)
Number == Int \cup {NaN}
Actions == {"forward", "turn_left", "turn_right", "stop"}
Chunks == Seq([action : Actions, repeat : Int])
Target == [visible : BOOLEAN, center : Number \cup {None},
           confidence : Number \cup {None}, area : Number \cup {None}]

ASSUME SentinelAssumption ==
    None \notin Int \cup Target /\ NaN \notin Int /\ None # NaN

-----------------------------------------------------------------------------
(* max(-limit, min(limit, value)).  The code does not ask limit >= 0.       *)
Clamp(value, limit) == Larger(-limit, Smaller(limit, value))

-----------------------------------------------------------------------------
(* Velocity commands.  The label a command carries (its action) is only     *)
(* ever logged and is left out.                                             *)
VelocityCommand == [linear : Int, angular : Int, duration : Int, stop : BOOLEAN]

StopCommand == [linear |-> 0, angular |-> 0, duration |-> 0, stop |-> TRUE]
Move(linear, angular) ==
    [linear |-> linear, angular |-> angular, duration |-> StepDuration, stop |-> FALSE]

ActionChunkToVelocityCommand(chunk) ==
    CASE chunk.action = "forward"    -> Move(ForwardSpeed, 0)
      [] chunk.action = "turn_left"  -> Move(0, TurnSpeed)
      [] chunk.action = "turn_right" -> Move(0, -TurnSpeed)
      [] chunk.action = "stop"       -> StopCommand

(* Faulty: the limits are exchanged.                                        *)
FaultyClampVelocityCommand(c) ==
    IF c.stop THEN StopCommand
    ELSE [c EXCEPT !.linear  = Clamp(c.linear, MaxAngularZ),
                   !.angular = Clamp(c.angular, MaxLinearX)]

(* clamp_velocity_command                                                   *)
ClampVelocityCommand(c) ==
    IF c.stop THEN StopCommand
    ELSE [c EXCEPT !.linear  = Clamp(c.linear, MaxLinearX),
                   !.angular = Clamp(c.angular, MaxAngularZ)]

(* One element of the list response_to_velocity_commands builds.            *)
ChunkCommand(chunk) == ClampVelocityCommand(ActionChunkToVelocityCommand(chunk))

(* response_to_velocity_commands: each chunk's command, max(1, repeat)      *)
(* times.  Position p of the result belongs to the last chunk that starts   *)
(* at or before p.                                                          *)
Repeats(chunk) == Larger(1, chunk.repeat)
ResponseToVelocityCommands(chunks) ==
    LET total[i \in 0..Len(chunks)] ==
            IF i = 0 THEN 0 ELSE total[i - 1] + Repeats(chunks[i])
        owner(p) == CHOOSE i \in 1..Len(chunks) : total[i - 1] < p /\ p <= total[i]
    IN  [p \in 1..total[Len(chunks)] |-> ChunkCommand(chunks[owner(p)])]

(* velocity_command_to_twist2d                                              *)
VelocityCommandToTwist2D(c) ==
    IF c.stop THEN Zero ELSE [linear |-> c.linear, angular |-> c.angular]

(* NavidaRos2Node.process_frame and process_frame_as_twist: the bridge node *)
(* publishes the whole list, or returns it as twists; it reads no target    *)
(* and no stop flag, and no zero comes in between.                          *)
ProcessFrame(chunks) == ResponseToVelocityCommands(chunks)
ProcessFrameAsTwist(chunks) ==
    LET commands == ResponseToVelocityCommands(chunks)
    IN  [p \in DOMAIN commands |-> VelocityCommandToTwist2D(commands[p])]

(* Faulty: the last of several chunks.                                      *)
FaultyFirstCommand(chunks) == IF chunks = <<>> THEN None ELSE ChunkCommand(chunks[Len(chunks)])

(* commands[0], the only element the controller executes; None for the      *)
(* empty list.                                                              *)
FirstCommand(chunks) == IF chunks = <<>> THEN None ELSE ChunkCommand(chunks[1])

(* Faulty: the sign of the turn is lost.                                    *)
FaultySteer(error) ==
    IF Abs(error) <= TargetCenterDeadband
    THEN Move(TargetForwardSpeed, 0)
    ELSE Move(0, Clamp(TargetTurnGain * error, TargetMaxAngularZ))

(* The end of target_metadata_to_velocity_command: ahead when the target is *)
(* near enough to the middle of the image, else towards it.                 *)
Steer(error) ==
    IF Abs(error) <= TargetCenterDeadband
    THEN Move(TargetForwardSpeed, 0)
    ELSE Move(0, -Clamp(TargetTurnGain * error, TargetMaxAngularZ))

(* target_metadata_to_velocity_command.  None when the metadata holds no    *)
(* target record.                                                           *)
TargetCommand(target) ==
    IF target = None THEN None
    ELSE IF \/ ~target.visible
            \/ target.center = None
            \/ target.confidence # None /\ Less(target.confidence, TargetMinConfidence)
            \/ target.area \in Int /\ target.area >= TargetStopArea
         THEN StopCommand
         ELSE Steer(Larger(0, Smaller(1000, target.center)) - 500)

(* Node._visual_servo_command                                               *)
VisualServoCommand(target) == IF VisualServoEnabled THEN TargetCommand(target) ELSE None

(* velocity_command_to_pulse: a command that moves is followed by a stop.   *)
VelocityCommandToPulse(c) == IF c.stop THEN <<c>> ELSE <<c, StopCommand>>

-----------------------------------------------------------------------------
(* Faulty: a history with no bound, one with one frame too many, and one    *)
(* with the newest frame in front.                                          *)
FaultyFrameHistory(history, frame, size) ==
    IF frame.kind = "empty" THEN history ELSE Append(history, frame)
FaultyFrameHistorySize(history, frame, size) ==
    IF frame.kind = "empty" THEN history
    ELSE KeepLast(Append(history, frame), Larger(0, size) + 1)
FaultyFrameHistoryOrder(history, frame, size) ==
    IF frame.kind = "empty" THEN history
    ELSE KeepLast(<<frame>> \o history, Larger(0, size))

(* FrameHistory.append: an empty frame is ignored.                          *)
FrameHistoryAppend(history, frame, size) ==
    IF frame.kind = "empty" THEN history ELSE KeepLast(Append(history, frame), Larger(0, size))
=============================================================================
