-------------------------- MODULE RemoteController --------------------------
(***************************************************************************)
(* The node that drives the robot: NavidaRemoteController of the package   *)
(* navida_vehicle.  It takes camera frames from a topic, sends each with   *)
(* its step number and the recent frames to the inference service, and     *)
(* turns the answer into a pulse on /cmd_vel: one velocity, a sleep, and a *)
(* zero velocity.  A timer guards against a silent controller.             *)
(*                                                                         *)
(* rclpy.spin runs one callback at a time, so the image callback, which    *)
(* blocks in the HTTP exchange and in the sleep, keeps the timer out.  The *)
(* variable phase says where in the image callback the thread is; "idle"   *)
(* is back in the executor.                                                *)
(*                                                                         *)
(* Time is discrete; a tick is the timer's period of 0.1 s.  Outside of    *)
(* the controller and modelled from how it is used: the executor and its   *)
(* topic queues, the camera, and whatever answers the HTTP request.        *)
(***************************************************************************)
EXTENDS Control, CmdVel

CONSTANTS
    HistorySize,          \* history_size
    MaxHistoryImages,     \* validation.MAX_HISTORY_IMAGES
    MinInferencePeriod,   \* min_inference_period_s
    CommandTimeout,       \* command_timeout_s
    QueueDepth,           \* the depth of both topic queues, 10 in the code
    FrameKinds,           \* the kinds of frame this camera may deliver
    Bodies,               \* what a well-formed response may say
    MaxFrames,            \* bound: frames the camera publishes
    AgeCap                \* bound: where commandAge saturates

Phases == {"idle", "waiting", "answered", "pulsing", "down"}
Sessions == {"mine", "other"}

ASSUME ControllerAssumption ==
    /\ HistorySize \in Int
    /\ {MaxHistoryImages, MinInferencePeriod, CommandTimeout, MaxFrames} \subseteq Nat
    /\ QueueDepth \in Nat \ {0}
    /\ AgeCap \in Nat /\ AgeCap > CommandTimeout
    /\ FrameKinds \subseteq {"jpeg", "invalid", "empty"}
    /\ Bodies \subseteq [chunks : Chunks, stop : BOOLEAN, target : Target \cup {None}]

VARIABLES
    published,       \* frames the camera has published
    imageQueue,      \* the subscription's queue of frames
    phase,           \* where the node's only thread is
    request,         \* the request being answered, or None
    reply,           \* the response read from the socket, or None
    frameHistory,    \* self._frame_history
    stepIndex,       \* self._step_index
    sinceInference,  \* ticks since self._last_inference_time_s, saturating
    armed,           \* the watchdog has recorded a command
    commandAge,      \* ticks since it recorded the last one, saturating
    timerDue,        \* the watchdog timer has fired and waits for the thread
    sleepLeft,       \* ticks time.sleep still has to sleep
    lastTwist,       \* the velocity published last
    refusals         \* auxiliary: JPEG frames refused in a row because of older frames

cameraVars   == <<published, imageQueue>>
exchangeVars == <<request, reply>>
learntVars   == <<frameHistory, stepIndex, refusals>>
outputVars   == <<cmdVel, lastTwist, armed, commandAge>>
clockVars    == <<sinceInference, timerDue, sleepLeft>>
vars == <<cameraVars, phase, exchangeVars, learntVars, outputVars, clockVars>>

Frame == [id : 1..MaxFrames, kind : FrameKinds]
Request == [step : Nat, frame : Frame, history : Seq(Frame)]
Reply == [session : Sessions, step : Nat, body : Bodies]

Init ==
    /\ published = 0 /\ imageQueue = <<>>
    /\ phase = "idle"
    /\ request = None /\ reply = None
    /\ frameHistory = <<>> /\ stepIndex = 0
    /\ sinceInference = MinInferencePeriod
    /\ armed = FALSE /\ commandAge = 0
    /\ timerDue = FALSE /\ sleepLeft = 0
    /\ cmdVel = <<>> /\ lastTwist = Zero
    /\ refusals = 0

-----------------------------------------------------------------------------
(* The camera and the subscriber of /cmd_vel.                               *)
PublishFrame(kind) ==
    /\ phase # "down" /\ published < MaxFrames
    /\ published' = published + 1
    /\ imageQueue' =
        KeepLast(Append(imageQueue, [id |-> published + 1, kind |-> kind]), QueueDepth)
    /\ UNCHANGED <<phase, exchangeVars, learntVars, outputVars, clockVars>>

TakeTwist ==
    /\ cmdVel # <<>>
    /\ cmdVel' = Tail(cmdVel)
    /\ UNCHANGED <<cameraVars, phase, exchangeVars, learntVars, clockVars,
                   lastTwist, armed, commandAge>>

-----------------------------------------------------------------------------
(* _publish_twist: publish, and tell the watchdog.                          *)
Publish(twist) ==
    /\ cmdVel' = KeepLast(Append(cmdVel, twist), QueueDepth)
    /\ lastTwist' = twist
    /\ armed' = TRUE /\ commandAge' = 0

Remember(frame) == frameHistory' = FrameHistoryAppend(frameHistory, frame, HistorySize)

(* _on_image, the early return: the frame is consumed and forgotten.        *)
SkipImage ==
    /\ phase = "idle" /\ imageQueue # <<>>
    /\ sinceInference < MinInferencePeriod
    /\ imageQueue' = Tail(imageQueue)
    /\ UNCHANGED <<published, phase, exchangeVars, learntVars, outputVars, clockVars>>

(* Faulty: only the current frame is looked at.                             *)
FaultySendable(frame) == frame.kind = "jpeg"

(* validate_request, as request_to_dict applies it to this node's requests. *)
(* The other fields are well-formed by construction.                        *)
Sendable(frame) ==
    /\ frame.kind = "jpeg"
    /\ Len(frameHistory) <= MaxHistoryImages
    /\ \A i \in 1..Len(frameHistory) : frameHistory[i].kind = "jpeg"

StartImage ==
    /\ phase = "idle" /\ imageQueue # <<>>
    /\ sinceInference >= MinInferencePeriod
    /\ imageQueue' = Tail(imageQueue)
    /\ sinceInference' = 0

(* _on_image as far as urlopen, which blocks.                               *)
BeginInference ==
    /\ StartImage
    /\ Sendable(Head(imageQueue))
    /\ phase' = "waiting"
    /\ request' = [step |-> stepIndex, frame |-> Head(imageQueue), history |-> frameHistory]
    /\ refusals' = 0
    /\ UNCHANGED <<published, reply, frameHistory, stepIndex, outputVars, timerDue, sleepLeft>>

(* _on_image when request_to_dict raises: nothing is sent.                  *)
RefuseRequest ==
    LET frame == Head(imageQueue) IN
    /\ StartImage
    /\ ~Sendable(frame)
    /\ Remember(frame)
    /\ refusals' = CASE frame.kind = "jpeg"    -> refusals + 1
                     [] frame.kind = "empty"   -> refusals
                     [] frame.kind = "invalid" -> 0
    /\ Publish(Zero)
    /\ UNCHANGED <<published, phase, exchangeVars, stepIndex, timerDue, sleepLeft>>

(* A response body that parses and validates comes back on the connection   *)
(* the request was sent on.  A service that echoes the wrong session or     *)
(* step is not excluded.                                                    *)
ServerReplies(session, step, body) ==
    /\ phase = "waiting"
    /\ phase' = "answered"
    /\ reply' = [session |-> session, step |-> step, body |-> body]
    /\ UNCHANGED <<cameraVars, request, learntVars, outputVars, clockVars>>

(* Faulty: an answer to any step will do.                                   *)
FaultyAccepts(r) == r.session = "mine"

(* post_inference's comparison of the response with the request.            *)
Accepts(r) == r.session = "mine" /\ r.step = request.step

(* Faulty: the failure is not answered with a halt.                         *)
FaultyFailInference ==
    /\ Remember(request.frame)
    /\ phase' = "idle" /\ request' = None /\ reply' = None
    /\ UNCHANGED <<cameraVars, stepIndex, refusals, outputVars, clockVars>>

(* What the exception branch of _on_image does.                             *)
FailInference ==
    /\ Remember(request.frame)
    /\ Publish(Zero)
    /\ phase' = "idle" /\ request' = None /\ reply' = None
    /\ UNCHANGED <<cameraVars, stepIndex, refusals, clockVars>>

(* Faulty: urlopen without a timeout.                                       *)
FaultyInferenceFails == phase = "answered" /\ FailInference

(* The exception branch of _on_image: a refused or broken connection, the   *)
(* timeout, an HTTP error, a body that does not parse or validate.          *)
InferenceFails == phase = "waiting" /\ FailInference

(* The same branch for a response to another session or step.               *)
RejectReply == phase = "answered" /\ ~Accepts(reply) /\ FailInference

(* What _on_image decides to do: visual servo first, then the action        *)
(* chunks, of which only the first command counts.  body.stop is not read.  *)
ChosenCommand(body) ==
    LET visual == VisualServoCommand(body.target)
    IN  IF visual # None THEN visual ELSE FirstCommand(body.chunks)

AcceptReply ==
    /\ phase = "answered" /\ Accepts(reply)
    /\ Remember(request.frame)
    /\ stepIndex' = stepIndex + 1
    /\ request' = None /\ reply' = None
    /\ UNCHANGED <<cameraVars, refusals, sinceInference, timerDue>>

IsHalt(command) == IF command = None THEN TRUE ELSE command.stop

(* _on_image with an empty command list or a stop command.                  *)
AnswerWithHalt ==
    /\ AcceptReply
    /\ IsHalt(ChosenCommand(reply.body))
    /\ Publish(Zero)
    /\ phase' = "idle"
    /\ UNCHANGED sleepLeft

(* _publish_velocity_pulse as far as time.sleep, which blocks.              *)
StartPulse ==
    LET command == ChosenCommand(reply.body)
    IN  /\ AcceptReply
        /\ ~IsHalt(command)
        /\ Publish(VelocityCommandToTwist2D(VelocityCommandToPulse(command)[1]))
        /\ phase' = "pulsing"
        /\ sleepLeft' = Larger(0, command.duration)

(* Faulty: the pulse ends without its second command.                       *)
FaultyEndPulse ==
    /\ phase = "pulsing" /\ sleepLeft = 0
    /\ phase' = "idle"
    /\ UNCHANGED <<cameraVars, exchangeVars, learntVars, outputVars, clockVars>>

(* The second command of the pulse, after the sleep.                        *)
EndPulse ==
    /\ phase = "pulsing" /\ sleepLeft = 0
    /\ Publish(Zero)
    /\ phase' = "idle"
    /\ UNCHANGED <<cameraVars, exchangeVars, learntVars, clockVars>>

(* Faulty: a halt is not repeated.                                          *)
FaultyExpired == armed /\ commandAge > CommandTimeout /\ lastTwist # Zero

(* CommandWatchdog.expired                                                  *)
Expired == armed /\ commandAge > CommandTimeout

OnWatchdogTimer ==
    /\ phase = "idle" /\ timerDue
    /\ timerDue' = FALSE
    /\ IF Expired THEN Publish(Zero) ELSE UNCHANGED outputVars
    /\ UNCHANGED <<cameraVars, phase, exchangeVars, learntVars, sinceInference, sleepLeft>>

(* Ctrl-C, an exception out of a callback, a kill: rclpy.spin is left, or   *)
(* never returned from, and no velocity is published any more.              *)
Interrupt ==
    /\ phase # "down"
    /\ phase' = "down"
    /\ UNCHANGED <<cameraVars, exchangeVars, learntVars, outputVars, clockVars>>

Tick ==
    /\ phase # "down"
    /\ sinceInference' = Smaller(sinceInference + 1, MinInferencePeriod)
    /\ commandAge' = IF armed THEN Smaller(commandAge + 1, AgeCap) ELSE 0
    /\ timerDue' = TRUE
    /\ sleepLeft' = Larger(0, sleepLeft - 1)
    /\ UNCHANGED <<cameraVars, phase, exchangeVars, learntVars, cmdVel, lastTwist, armed>>

-----------------------------------------------------------------------------
(* The steps of the image callback.                                         *)
OnImage ==
    \/ SkipImage \/ BeginInference \/ RefuseRequest
    \/ InferenceFails \/ RejectReply
    \/ AnswerWithHalt \/ StartPulse \/ EndPulse

Controller == OnImage \/ OnWatchdogTimer \/ Interrupt

Arrivals ==
    \/ \E kind \in FrameKinds : PublishFrame(kind)
    \/ \E session \in Sessions, step \in 0..MaxFrames, body \in Bodies :
            ServerReplies(session, step, body)

Next == Controller \/ Arrivals \/ TakeTwist \/ Tick
Safety == Init /\ [][Next]_vars

(* time.sleep returns, urlopen returns or raises (its timeout bounds every  *)
(* socket operation, and a reply is finite: it does not trickle for ever),  *)
(* what it returned is handled, and the executor serves a timer that is due.*)
Fairness ==
    /\ WF_vars(Tick)
    /\ WF_vars(EndPulse)
    /\ WF_vars(InferenceFails)
    /\ WF_vars(RejectReply \/ AnswerWithHalt \/ StartPulse)
    /\ SF_vars(OnWatchdogTimer)

Spec == Safety /\ Fairness

-----------------------------------------------------------------------------
(* Properties.                                                              *)

(* Every variable has its type, and the queues and the history their size.  *)
TypeOK ==
    /\ published \in 0..MaxFrames
    /\ imageQueue \in Seq(Frame) /\ Len(imageQueue) <= QueueDepth
    /\ phase \in Phases
    /\ request \in Request \cup {None}
    /\ reply \in Reply \cup {None}
    /\ frameHistory \in Seq(Frame) /\ Len(frameHistory) <= Larger(0, HistorySize)
    /\ stepIndex \in Nat
    /\ sinceInference \in 0..MinInferencePeriod
    /\ armed \in BOOLEAN /\ commandAge \in 0..AgeCap
    /\ timerDue \in BOOLEAN /\ sleepLeft \in Nat
    /\ cmdVel \in Seq(Twist) /\ Len(cmdVel) <= QueueDepth
    /\ lastTwist \in Twist
    /\ refusals \in Nat

(* Unless the thread sleeps in a pulse, or is gone, the velocity published  *)
(* last is zero: also while a request is outstanding, after every failure,  *)
(* and whenever the watchdog could run.  A command queue, an early return   *)
(* without the stop, or a pulse without its second half would break it.     *)
HaltedOutsidePulse == phase \notin {"pulsing", "down"} => lastTwist = Zero

(* No velocity is published beyond the limits of the kind of command it     *)
(* comes from: those of the action chunks and those of visual servo are     *)
(* different parameters, and the forward speed of visual servo is its own   *)
(* limit.  A target place that is no number is no exception.                *)
ChunkLimits(motion) ==
    Within(motion.linear, Abs(MaxLinearX)) /\ Within(motion.angular, Abs(MaxAngularZ))
TargetLimits(motion) ==
    /\ Within(motion.linear, Abs(TargetForwardSpeed))
    /\ Within(motion.angular, Abs(TargetMaxAngularZ))
TwistBounded == ChunkLimits(lastTwist) \/ TargetLimits(lastTwist)

(* The robot starts to move, or changes its motion, only on an answer of    *)
(* this session to the step being asked for, and that step is used up: an   *)
(* answer moves the robot once, and never after its request has failed.     *)
MotionNeedsAFreshAnswer ==
    [][lastTwist' # lastTwist /\ lastTwist' # Zero
         => /\ phase = "answered"
            /\ reply.session = "mine" /\ reply.step = stepIndex
            /\ stepIndex' = stepIndex + 1]_vars

Increasing(frames) ==
    \A i, j \in 1..Len(frames) : i < j => frames[i].id < frames[j].id

(* The frames sent along are older than the frame they accompany and        *)
(* ordered from oldest to newest, each once, also after failures and with   *)
(* frames dropped on the way.                                               *)
HistoryOldestToNewest ==
    request # None =>
        /\ Increasing(request.history)
        /\ \A i \in 1..Len(request.history) : request.history[i].id < request.frame.id

(* A frame the service would not accept spoils the requests it is sent      *)
(* along with, and is in the history although its own request failed.  It   *)
(* leaves again: at most HistorySize good frames are refused because of     *)
(* earlier ones, because a refused frame is remembered too.                 *)
HistoryRecovers == HistorySize <= MaxHistoryImages => refusals <= Larger(0, HistorySize)

(* The image callback comes to its end, so that the watchdog can run.       *)
CallbackReturns == (phase # "idle") ~> (phase \in {"idle", "down"})

(* Once armed, the watchdog does not let the topic fall silent: whoever     *)
(* missed the zero that ended a pulse gets another one.                     *)
NeverSilentForGood == armed ~> (commandAge = 0 \/ phase = "down")

(* docs/interface_v1.md: "When stop is true, the client must not execute    *)
(* any command in that same response".  The controller never reads          *)
(* response.stop.                                                           *)
StopForbidsMotion ==
    [][phase = "answered" /\ reply.body.stop => lastTwist' = Zero]_vars

(* navida_jetson.launch.py describes max_linear_x as "Linear speed clamp in *)
(* m/s".  Visual servo commands are not clamped by it.                      *)
LinearSpeedClamped == Within(lastTwist.linear, Abs(MaxLinearX))

(* README.md: "every non-stop command is followed by an explicit zero       *)
(* Twist after step_duration_s".  An interrupt during the sleep, which      *)
(* Ctrl-C raises inside of it, leaves the motion as the last word.          *)
MotionFollowedByZero == (lastTwist # Zero) ~> (lastTwist = Zero)

(* The controller keeps the promise of SafeMotion.                          *)
SafeMotionOf == INSTANCE SafeMotion
    WITH twist <- lastTwist, accepted <- stepIndex, up <- (phase # "down")
ImplementsSafeMotion == SafeMotionOf!Spec
=============================================================================
