-------------------------- MODULE TimedController --------------------------
(***************************************************************************)
(* RemoteController and the camera's timer on a machine that is quick next *)
(* to the clock: time passes only while nobody has anything to do, that is *)
(* while the controller's thread is in time.sleep, in urlopen, or in an    *)
(* executor with no callback to run, the camera's timer is not due and no  *)
(* command waits for its subscriber.  Only then can anything be said about *)
(* how long a motion or a silence lasts, and how old the picture is that a *)
(* motion is about.                                                        *)
(*                                                                         *)
(* The timeout given to urlopen is the socket's: it bounds the connection, *)
(* each sending of data and each receipt, and the next of them may take as *)
(* long again.  Nothing in the code bounds the exchange as a whole.        *)
(***************************************************************************)
EXTENDS RemoteController

CONSTANTS
    InferenceTimeout,      \* inference_timeout_s
    MaxOperations,         \* bound: socket operations of one exchange
    CameraPeriod,          \* 1 / fps
    MaxMisses              \* bound: reads of the camera that fail
ASSUME TimeAssumption ==
    /\ InferenceTimeout \in Nat /\ MaxOperations \in Nat \ {0}
    /\ CameraPeriod \in Nat \ {0} /\ MaxMisses \in Nat

VARIABLES
    operations,            \* socket operations the HTTP exchange has behind it
    waited,                \* ticks spent in the present one
    sinceCamera,           \* ticks since the camera's timer was served
    misses,                \* reads of the camera that failed so far
    ages,                  \* the age of each frame in imageQueue
    pictureAge             \* the age of the frame the image callback is about
ageVars == <<sinceCamera, misses, ages, pictureAge>>
socketVars == <<operations, waited>>
timedVars == <<vars, socketVars, ageVars>>

TimedInit ==
    /\ Init /\ operations = 0 /\ waited = 0
    /\ sinceCamera \in 0..CameraPeriod /\ misses = 0
    /\ ages = <<>> /\ pictureAge = 0

CameraDue == sinceCamera = CameraPeriod
ThreadHasWork ==
    \/ phase = "answered"
    \/ phase = "pulsing" /\ sleepLeft = 0
    \/ phase = "idle" /\ (timerDue \/ imageQueue # <<>>)

TimedTick ==
    /\ ~ThreadHasWork /\ ~CameraDue /\ cmdVel = <<>>
    /\ phase = "waiting" => waited < InferenceTimeout
    /\ Tick
    /\ waited' = IF phase = "waiting" THEN waited + 1 ELSE 0
    /\ sinceCamera' = sinceCamera + 1
    /\ ages' = [i \in DOMAIN ages |-> ages[i] + 1]
    /\ pictureAge' = IF phase = "idle" THEN 0 ELSE pictureAge + 1
    /\ UNCHANGED <<misses, operations>>

(* Connected, sent, or received a part of the reply: the socket's timeout   *)
(* starts anew with the next operation.                                     *)
NextOperation ==
    /\ phase = "waiting" /\ operations + 1 < MaxOperations
    /\ operations' = operations + 1 /\ waited' = 0
    /\ UNCHANGED <<vars, ageVars>>

(* _publish_frame; a read that fails is logged, and the timer goes on.      *)
CameraReads(kind) ==
    /\ CameraDue /\ sinceCamera' = 0
    /\ PublishFrame(kind)
    /\ ages' = KeepLast(Append(ages, 0), QueueDepth)
    /\ UNCHANGED <<misses, pictureAge, socketVars>>

CameraMisses ==
    /\ CameraDue /\ sinceCamera' = 0
    /\ misses < MaxMisses /\ misses' = misses + 1
    /\ UNCHANGED <<vars, ages, pictureAge, socketVars>>

(* A callback takes the oldest frame of the queue, and its age with it.     *)
Untimed ==
    /\ \/ Controller \/ TakeTwist
       \/ \E session \in Sessions, step \in 0..MaxFrames, body \in Bodies :
               ServerReplies(session, step, body)
    /\ waited' = IF phase' = "waiting" THEN waited ELSE 0
    /\ operations' = IF phase' = "waiting" THEN operations ELSE 0
    /\ ages' = IF imageQueue' = imageQueue THEN ages ELSE Tail(ages)
    /\ pictureAge' = CASE phase' = "idle" -> 0
                       [] phase' # "idle" /\ imageQueue' # imageQueue -> Head(ages)
                       [] phase' # "idle" /\ imageQueue' = imageQueue -> pictureAge
    /\ UNCHANGED <<sinceCamera, misses>>

TimedNext ==
    \/ TimedTick \/ NextOperation \/ Untimed
    \/ CameraMisses \/ \E kind \in FrameKinds : CameraReads(kind)
TimedSpec == TimedInit /\ [][TimedNext]_timedVars

-----------------------------------------------------------------------------
(* The robot moves for no longer than the step duration at a stretch,       *)
(* whatever the answer orders: one chunk, once, however large its repeat.   *)
MotionIsBrief ==
    phase # "down" /\ lastTwist # Zero => commandAge <= Larger(0, StepDuration)

(* The topic is silent for no longer than the watchdog's timeout and one    *)
(* timer period, and an HTTP exchange that started within that time, last;  *)
(* the exchange takes the socket's timeout once for each of its operations. *)
(* urlopen's timeout alone is no bound, however short it is configured.     *)
SilenceBounded ==
    phase # "down" /\ armed =>
        commandAge <= Larger(CommandTimeout + 1 + MaxOperations * InferenceTimeout,
                             StepDuration)

(* The picture a motion answers to is older than the exchange and the       *)
(* motion themselves by no more than the frames that fit into the queue,    *)
(* however long the exchanges before it took: the queue forgets the oldest. *)
(* The exchange itself may take the socket's timeout once per operation.    *)
(* Only reads that fail make it older, because then nothing pushes it out.  *)
MotionIsRecent ==
    phase # "down" /\ lastTwist # Zero =>
        pictureAge <= (QueueDepth + misses) * CameraPeriod
                      + MaxOperations * InferenceTimeout + Larger(0, StepDuration)

(* navida_jetson.launch.py on command_timeout_s: "Publish zero Twist after  *)
(* this many seconds without command".  Not while the image callback keeps  *)
(* the only thread in urlopen.                                              *)
ZeroAfterCommandTimeout ==
    phase # "down" /\ armed => commandAge <= CommandTimeout + 1
=============================================================================
