---------------------------- MODULE VehicleProofs ----------------------------
(***************************************************************************)
(* Theorems about the serial node and the vehicle, for every depth of the  *)
(* topic queue, every number of attempts and any number of failed writes.  *)
(*                                                                         *)
(* Two invariants carry them.  Repetition counts the attempts of a twist   *)
(* that has not got through yet: each was a fault or was spoiled by the    *)
(* torn line an earlier fault had left.  Following says where the velocity *)
(* published last is while no write has failed.                            *)
(***************************************************************************)
EXTENDS Vehicle, RemoteControllerProofs

Unspoiled == IF torn THEN 1 ELSE 0

Repetition ==
    /\ torn => faults > 0
    /\ node = "starting" => chassis = Line(current)
    /\ node = "idle" => chassis = Line(current) \/ SendAttempts <= 2 * faults
    /\ node = "sending" =>
          /\ attempt < SendAttempts
          /\ chassis = Line(current) \/ attempt + Unspoiled <= 2 * faults

Following ==
    SendAttempts > 0 /\ faults = 0 =>
       /\ ~torn
       /\ ~heard => chassis = Zero
       /\ node = "starting" => ~heard
       /\ node = "idle" /\ heard => chassis = Line(current)
       /\ node = "sending" => heard /\ (attempt > 0 => chassis = Line(current))
       /\ node \in {"idle", "sending"} /\ heard /\ cmdVel = <<>> => current = lastTwist

VehicleInvariant == Typing /\ MotionInvariant /\ SerialTypeOK /\ Repetition /\ Following

-----------------------------------------------------------------------------
LEMMA LineIsTwist == ASSUME NEW twist \in Twist PROVE Line(twist) \in Twist
<1>1. twist.linear \in Int /\ twist.angular * AngularZScale \in Int
  BY SerialAssumption DEF Twist
<1>2. ASSUME NEW speed \in Int PROVE Thousandths(speed) \in Int
  BY DEF Thousandths
<1>3. Thousandths(twist.linear) \in Int /\ Thousandths(twist.angular * AngularZScale) \in Int
  BY <1>1, <1>2
<1> QED BY <1>3 DEF Line, Twist

LEMMA LineOfZero == Line(Zero) = Zero
<1>1. Thousandths(0) = 0
  BY DEF Thousandths
<1>2. 0 * AngularZScale = 0
  BY SerialAssumption
<1> QED BY <1>1, <1>2 DEF Line, Zero

(* What a step of the controller does to the topic.                         *)
LEMMA ControllerOutput ==
    Controller \/ Arrivals \/ Tick
        => \/ \E twist \in Twist : Publish(twist)
           \/ UNCHANGED <<cmdVel, lastTwist>>
           \/ StartPulse
<1> DEFINE Silent == UNCHANGED <<cmdVel, lastTwist>>
           Speaks == \E twist \in Twist : Publish(twist)
<1> SUFFICES ASSUME Controller \/ Arrivals \/ Tick PROVE Speaks \/ Silent \/ StartPulse
  OBVIOUS
<1>z. ASSUME Publish(Zero) PROVE Speaks
  BY <1>z, ZeroIsTwist
<1>1. ASSUME NEW kind \in FrameKinds, PublishFrame(kind) PROVE Silent
  BY <1>1 DEF PublishFrame, outputVars
<1>2. ASSUME SkipImage PROVE Silent
  BY <1>2 DEF SkipImage, outputVars
<1>3. ASSUME BeginInference PROVE Silent
  BY <1>3 DEF BeginInference, StartImage, outputVars
<1>4. ASSUME RefuseRequest PROVE Publish(Zero)
  BY <1>4 DEF RefuseRequest
<1>5. ASSUME NEW session \in Sessions, NEW step \in 0..MaxFrames, NEW body \in Bodies,
             ServerReplies(session, step, body)
      PROVE  Silent
  BY <1>5 DEF ServerReplies, outputVars
<1>6. ASSUME FailInference PROVE Publish(Zero)
  BY <1>6 DEF FailInference
<1>7. ASSUME AnswerWithHalt PROVE Publish(Zero)
  BY <1>7 DEF AnswerWithHalt
<1>8. ASSUME EndPulse PROVE Publish(Zero)
  BY <1>8 DEF EndPulse
<1>9. ASSUME OnWatchdogTimer PROVE Publish(Zero) \/ Silent
  BY <1>9 DEF OnWatchdogTimer, outputVars
<1>10. ASSUME Interrupt PROVE Silent
  BY <1>10 DEF Interrupt, outputVars
<1>11. ASSUME Tick PROVE Silent
  BY <1>11 DEF Tick
<1> HIDE DEF Silent, Speaks
<1> QED
  BY <1>z, <1>1, <1>2, <1>3, <1>4, <1>5, <1>6, <1>7, <1>8, <1>9, <1>10, <1>11
  DEF Controller, OnImage, Arrivals, InferenceFails, RejectReply

-----------------------------------------------------------------------------
(* The number of rounds of the loop.                                        *)
LEMMA Rounds ==
    /\ Larger(0, SendAttempts) \in Nat
    /\ SendAttempts > 0 => Larger(0, SendAttempts) = SendAttempts
<1>1. CASE SendAttempts > 0
  BY <1>1, SerialAssumption DEF Larger, Less
<1>2. CASE ~(SendAttempts > 0)
  BY <1>2, SerialAssumption DEF Larger, Less
<1> QED BY <1>1, <1>2

LEMMA VehicleInitially == VehicleInit => VehicleInvariant
<1> SUFFICES ASSUME VehicleInit PROVE VehicleInvariant
  OBVIOUS
<1>1. Typing /\ MotionInvariant
  BY TypingInit, MotionInit DEF VehicleInit
<1>2. SerialTypeOK
  <2>1. 0 \in 0..Larger(0, SendAttempts)
    BY Rounds
  <2> QED BY <2>1, SerialAssumption, ZeroIsTwist DEF VehicleInit, SerialInit, SerialTypeOK
<1>3. Repetition /\ Following
  BY LineOfZero DEF VehicleInit, SerialInit, Repetition, Following
<1> QED BY <1>1, <1>2, <1>3 DEF VehicleInvariant

(* A step of the controller: only the topic and the velocity published last *)
(* concern the serial node.                                                 *)
LEMMA ControllerStep ==
    ASSUME VehicleInvariant, Controller \/ Arrivals \/ Tick, UNCHANGED serialVars
    PROVE  VehicleInvariant'
<1>1. Typing' /\ MotionInvariant'
  BY TypingStep, MotionStep DEF VehicleInvariant, Next
<1>2. SerialTypeOK' /\ Repetition'
  BY DEF VehicleInvariant, serialVars, SerialTypeOK, Repetition, Unspoiled, Line
<1>3. cmdVel' = <<>> => UNCHANGED <<cmdVel, lastTwist>>
  <2>1. ASSUME NEW twist \in Twist, Publish(twist) PROVE cmdVel' # <<>>
    BY <2>1, PublishLemma DEF VehicleInvariant, Typing
  <2>2. ASSUME StartPulse PROVE cmdVel' # <<>>
    BY <2>2, <2>1, StartPulseLemma DEF VehicleInvariant
  <2> QED BY <2>1, <2>2, ControllerOutput
<1>4. Following'
  BY <1>3 DEF VehicleInvariant, Following, serialVars, Line
<1> QED BY <1>1, <1>2, <1>4 DEF VehicleInvariant

(* A step of the serial node that leaves the topic alone leaves the         *)
(* controller alone.                                                        *)
LEMMA ControllerUntouched ==
    ASSUME Typing, MotionInvariant, UNCHANGED <<OtherVars, cmdVel>>
    PROVE  Typing' /\ MotionInvariant'
<1>1. UNCHANGED vars
  BY DEF OtherVars, vars, outputVars, clockVars
<1> QED BY <1>1, TypingStep, MotionStep

LEMMA SubscribeStep ==
    ASSUME VehicleInvariant, Subscribe, UNCHANGED OtherVars
    PROVE  VehicleInvariant'
<1>1. Typing' /\ MotionInvariant'
  <2>1. cmdVel' = <<>> /\ UNCHANGED <<cameraVars, phase, exchangeVars, learntVars, clockVars,
                                      lastTwist, armed, commandAge>>
    BY DEF Subscribe, OtherVars
  <2>2. TypeOK'
    BY <2>1, ControllerAssumption
    DEF VehicleInvariant, Typing, TypeOK, cameraVars, exchangeVars, learntVars, clockVars
  <2>3. Exchange'
    BY <2>1 DEF VehicleInvariant, Typing, Exchange, exchangeVars, learntVars
  <2>4. MotionInvariant'
    BY <2>1 DEF VehicleInvariant, MotionInvariant, HaltedOutsidePulse, TwistBounded, NewestCommandQueued
  <2> QED BY <2>2, <2>3, <2>4 DEF Typing
<1>2. SerialTypeOK' /\ Repetition' /\ Following'
  BY DEF VehicleInvariant, SerialTypeOK, Repetition, Following, Subscribe, Unspoiled, Line
<1> QED BY <1>1, <1>2 DEF VehicleInvariant

LEMMA TwistCallbackStep ==
    ASSUME VehicleInvariant, TwistCallback, UNCHANGED OtherVars
    PROVE  VehicleInvariant'
<1>1. TakeTwist
  BY DEF TwistCallback, TakeTwist, OtherVars
<1>2. Typing' /\ MotionInvariant'
  BY <1>1, TypingStep, MotionStep DEF VehicleInvariant, Next
<1>3. /\ cmdVel \in Seq(Twist) /\ cmdVel # <<>>
      /\ current' = Head(cmdVel) /\ cmdVel' = Tail(cmdVel)
      /\ cmdVel[Len(cmdVel)] = lastTwist
  BY DEF VehicleInvariant, Typing, TypeOK, MotionInvariant, NewestCommandQueued, TwistCallback
<1>4. current' \in Twist /\ (cmdVel' = <<>> => current' = lastTwist)
  <2>1. Len(cmdVel) \in Nat /\ Len(cmdVel) > 0 /\ Head(cmdVel) = cmdVel[1] /\ cmdVel[1] \in Twist
    BY <1>3
  <2>3. cmdVel' = <<>> => Len(cmdVel) = 1
    <3>1. Len(Tail(cmdVel)) = Len(cmdVel) - 1
      BY <1>3, HeadTailProperties
    <3>2. ASSUME cmdVel' = <<>> PROVE Len(Tail(cmdVel)) = 0
      <4>1. Len(Tail(cmdVel)) = Len(<<>>)
        BY <1>3, <3>2, Zenon
      <4>2. Len(<<>>) = 0
        BY EmptySeq, Zenon
      <4> QED BY <4>1, <4>2, Zenon
    <3> QED BY <2>1, <3>1, <3>2
  <2> QED BY <1>3, <2>1, <2>3
<1>5. lastTwist' = lastTwist
  BY DEF OtherVars
<1>6. SerialTypeOK'
  BY <1>4, SerialAssumption, Rounds DEF VehicleInvariant, SerialTypeOK, TwistCallback
<1>7. Repetition'
  BY SerialAssumption DEF VehicleInvariant, SerialTypeOK, Repetition, TwistCallback, Unspoiled
<1>8. Following'
  BY <1>4, <1>5 DEF VehicleInvariant, Following, TwistCallback
<1> QED BY <1>2, <1>6, <1>7, <1>8 DEF VehicleInvariant

(* One round of the loop, whatever became of the write.                     *)
LEMMA WriteStep ==
    ASSUME VehicleInvariant, WriteLine \/ WriteTimesOut, UNCHANGED OtherVars
    PROVE  VehicleInvariant'
<1> USE SerialAssumption DEF VehicleInvariant
<1>1. cmdVel' = cmdVel /\ current' = current /\ heard' = heard /\ lastTwist' = lastTwist
  BY DEF WriteLine, WriteTimesOut, EndAttempt, OtherVars
<1>2. Typing' /\ MotionInvariant'
  BY <1>1, ControllerUntouched
<1>3. Line(current)' = Line(current) /\ Line(current) \in Twist
  BY <1>1, LineIsTwist DEF SerialTypeOK, Line
<1>4. /\ node = "sending" /\ attempt \in Nat /\ attempt < SendAttempts /\ attempt' = attempt + 1
      /\ node' = IF attempt + 1 < SendAttempts THEN "sending" ELSE "idle"
  <2>1. node = "sending" /\ attempt' = attempt + 1
        /\ node' = IF attempt + 1 < SendAttempts THEN "sending" ELSE "idle"
    BY DEF WriteLine, WriteTimesOut, EndAttempt
  <2>2. attempt \in Nat
    BY Rounds DEF SerialTypeOK
  <2> QED BY <2>1, <2>2 DEF Repetition
<1>b. attempt' \in 0..Larger(0, SendAttempts)
  BY <1>4, Rounds
<1>5. CASE WriteLine
  <2>1. /\ chassis' = IF torn THEN chassis ELSE Line(current)
        /\ torn' = FALSE /\ faults' = faults
    BY <1>5 DEF WriteLine
  <2>2. SerialTypeOK'
    BY <1>1, <1>3, <1>4, <1>b, <2>1 DEF SerialTypeOK
  <2>3. Repetition'
    BY <1>3, <1>4, <2>1 DEF SerialTypeOK, Repetition, Unspoiled
  <2>4. Following'
    BY <1>1, <1>3, <1>4, <2>1 DEF Following, SerialTypeOK
  <2> QED BY <1>2, <2>2, <2>3, <2>4
<1>6. CASE WriteTimesOut
  <2>1. chassis' = chassis /\ torn' \in BOOLEAN /\ faults' = faults + 1
    BY <1>6 DEF WriteTimesOut, SerialTypeOK
  <2>2. SerialTypeOK'
    BY <1>1, <1>3, <1>4, <1>b, <2>1 DEF SerialTypeOK
  <2>3. Repetition'
    BY <1>3, <1>4, <2>1 DEF SerialTypeOK, Repetition, Unspoiled
  <2>4. Following'
    BY <2>1 DEF Following, SerialTypeOK
  <2> QED BY <1>2, <2>2, <2>3, <2>4
<1> QED BY <1>5, <1>6

(* The ways the serial node ends.                                           *)
LEMMA EndStep ==
    ASSUME VehicleInvariant, StartFails \/ WriteThrows \/ SerialInterrupt, UNCHANGED OtherVars
    PROVE  VehicleInvariant'
<1>1. /\ cmdVel' = cmdVel /\ node' = "down" /\ chassis' = chassis /\ current' = current
      /\ heard' = heard /\ attempt' = attempt
      /\ \/ faults' = faults /\ torn' = torn
         \/ faults' = faults + 1 /\ torn' \in BOOLEAN
  BY DEF StartFails, WriteThrows, SerialInterrupt, VehicleInvariant, SerialTypeOK
<1>2. Typing' /\ MotionInvariant'
  BY <1>1, ControllerUntouched DEF VehicleInvariant
<1>3. SerialTypeOK' /\ Repetition' /\ Following'
  BY <1>1 DEF VehicleInvariant, SerialTypeOK, Repetition, Following
<1> QED BY <1>2, <1>3 DEF VehicleInvariant

LEMMA VehicleStep == VehicleInvariant /\ [VehicleNext]_vehicleVars => VehicleInvariant'
<1> SUFFICES ASSUME VehicleInvariant, [VehicleNext]_vehicleVars PROVE VehicleInvariant'
  OBVIOUS
<1>1. CASE UNCHANGED vehicleVars
  <2>1. UNCHANGED vars /\ UNCHANGED serialVars
    BY <1>1 DEF vehicleVars
  <2>2. Typing' /\ MotionInvariant'
    BY <2>1, TypingStep, MotionStep DEF VehicleInvariant
  <2>3. cmdVel' = cmdVel /\ lastTwist' = lastTwist
    BY <2>1 DEF vars, outputVars
  <2>4. SerialTypeOK' /\ Repetition' /\ Following'
    BY <2>1, <2>3
    DEF VehicleInvariant, serialVars, SerialTypeOK, Repetition, Following, Unspoiled, Line
  <2> QED BY <2>2, <2>4 DEF VehicleInvariant
<1>2. CASE VehicleNext
  BY <1>2, ControllerStep, SubscribeStep, TwistCallbackStep, WriteStep, EndStep
  DEF VehicleNext, SerialNext
<1> QED BY <1>1, <1>2

THEOREM VehicleInvariantHolds == VehicleSafety => []VehicleInvariant
BY VehicleInitially, VehicleStep, PTL DEF VehicleSafety

(* Every reachable state of the serial node is well-typed.                  *)
THEOREM SerialTypeCorrect == VehicleSafety => []SerialTypeOK
<1>1. VehicleInvariant => SerialTypeOK
  BY DEF VehicleInvariant
<1> QED BY <1>1, VehicleInvariantHolds, PTL

(* More than twice as many attempts as faults leave the chassis with the    *)
(* velocity sent last (twist_callback).                                     *)
THEOREM RepetitionMasksFaultsHolds == VehicleSafety => []RepetitionMasksFaults
<1>1. VehicleInvariant => RepetitionMasksFaults
  BY SerialAssumption DEF VehicleInvariant, Repetition, SerialTypeOK, RepetitionMasksFaults
<1> QED BY <1>1, VehicleInvariantHolds, PTL

(* Without faults the chassis drives, or is about to be sent, the velocity  *)
(* the controller published last.                                           *)
THEOREM ChassisFollowsHolds == VehicleSafety => []ChassisFollows
<1>1. VehicleInvariant => ChassisFollows
  <2> SUFFICES ASSUME VehicleInvariant, SendAttempts > 0, faults = 0, node \in {"idle", "sending"}
               PROVE  /\ cmdVel # <<>> => cmdVel[Len(cmdVel)] = lastTwist
                      /\ cmdVel = <<>> /\ node = "sending" => current = lastTwist
                      /\ cmdVel = <<>> /\ node = "idle" =>
                            chassis = IF heard THEN Line(lastTwist) ELSE Zero
    BY DEF ChassisFollows
  <2>1. NewestCommandQueued /\ Following
    BY DEF VehicleInvariant, MotionInvariant
  <2> QED BY <2>1 DEF NewestCommandQueued, Following
<1> QED BY <1>1, VehicleInvariantHolds, PTL

(* On the vehicle, too, the controller publishes nothing but zero outside   *)
(* of a pulse, and nothing beyond the limits.                               *)
THEOREM VehicleKeepsMotionBounded == VehicleSafety => [](HaltedOutsidePulse /\ TwistBounded)
<1>1. VehicleInvariant => HaltedOutsidePulse /\ TwistBounded
  BY DEF VehicleInvariant, MotionInvariant
<1> QED BY <1>1, VehicleInvariantHolds, PTL

(* On the vehicle the controller keeps its promise to whoever listens to    *)
(* the topic: the serial node, which empties the queue when it subscribes   *)
(* and takes twists from it at any time, disturbs none of it.               *)
THEOREM VehicleImplementsSafeMotion == VehicleSafety => SafeMotionOf!Safety
<1>1. VehicleInit => SafeMotionOf!Init
  BY DEF VehicleInit, Init, SafeMotionOf!Init
<1>2. VehicleInvariant /\ [VehicleNext]_vehicleVars => [SafeMotionOf!Next]_SafeMotionOf!vars
  <2> SUFFICES ASSUME VehicleInvariant, [VehicleNext]_vehicleVars
               PROVE  [SafeMotionOf!Next]_SafeMotionOf!vars
    OBVIOUS
  <2>1. CASE Controller \/ Arrivals \/ Tick \/ UNCHANGED vehicleVars
    <3>1. [Next]_vars
      BY <2>1 DEF Next, vehicleVars
    <3> QED
      BY <3>1, SafeMotionStep DEF VehicleInvariant
  <2>2. CASE UNCHANGED OtherVars
    <3>1. UNCHANGED <<lastTwist, stepIndex, phase>>
      BY <2>2 DEF OtherVars, learntVars
    <3> QED
      BY <3>1 DEF SafeMotionOf!vars
  <2> QED
    BY <2>1, <2>2 DEF VehicleNext
<1> QED
  BY <1>1, <1>2, VehicleInvariantHolds, PTL DEF VehicleSafety, SafeMotionOf!Safety
=============================================================================
