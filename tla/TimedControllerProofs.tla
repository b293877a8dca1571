----------------------- MODULE TimedControllerProofs -----------------------
(***************************************************************************)
(* How long a motion and a silence last and how old a picture gets, for    *)
(* every period, timeout, duration and queue depth.  The clock says it all *)
(* only together with where the thread is: what is left of a sleep, what   *)
(* an exchange has used up of its timeouts, and whether the timer is due.  *)
(***************************************************************************)
EXTENDS TimedController, RemoteControllerProofs

-----------------------------------------------------------------------------
(* The strengthening.                                                       *)
TimedTypeOK ==
    /\ waited \in 0..InferenceTimeout /\ operations \in 0..(MaxOperations - 1)
    /\ sinceCamera \in 0..CameraPeriod /\ misses \in Nat
    /\ ages \in Seq(Nat) /\ Len(ages) = Len(imageQueue)
    /\ pictureAge \in Nat

(* The age of the last command, by where the thread is.                     *)
Pulse == Larger(0, StepDuration)

(* What an exchange has taken at most, and what it can take.                *)
Elapsed == operations * InferenceTimeout + waited
Longest == MaxOperations * InferenceTimeout

Durations ==
    /\ ~armed => commandAge = 0
    /\ phase = "idle" => waited = 0 /\ operations = 0
    /\ phase = "idle" => commandAge <= CommandTimeout + 1
    /\ phase = "idle" /\ ~timerDue => commandAge <= CommandTimeout
    /\ phase = "waiting" => commandAge <= CommandTimeout + 1 + Elapsed
    /\ phase = "answered" => commandAge <= CommandTimeout + 1 + Longest
    /\ phase = "pulsing" => commandAge + sleepLeft <= Pulse

(* A frame that k others followed has waited k periods, and as many more as *)
(* the camera missed.                                                       *)
Lag(missed, k) == (k + missed) * CameraPeriod
QueueAges == \A i \in 1..Len(ages) : ages[i] <= sinceCamera + Lag(misses, Len(ages) - i)

(* The frame the callback is about was the oldest of a queue of QueueDepth. *)
PictureAges ==
    /\ phase = "waiting" => pictureAge <= Lag(misses, QueueDepth) + Elapsed
    /\ phase = "answered" => pictureAge <= Lag(misses, QueueDepth) + Longest
    /\ phase = "pulsing" =>
            pictureAge + sleepLeft <= Lag(misses, QueueDepth) + Longest + Pulse

Timing == TimedTypeOK /\ Durations /\ QueueAges /\ PictureAges
TimedInvariant == Typing /\ MotionInvariant /\ Timing

-----------------------------------------------------------------------------
(* A command that moves lasts for the step duration, wherever it comes from *)
(* and however large its repeat.                                            *)
LEMMA ChosenDuration ==
    ASSUME NEW body \in Bodies, ~IsHalt(ChosenCommand(body))
    PROVE  ChosenCommand(body).duration = StepDuration
<1> DEFINE c == ChosenCommand(body)
<1>1. /\ body.chunks \in Seq([action : Actions, repeat : Int])
      /\ body.target \in Target \cup {None}
  BY ControllerAssumption DEF Chunks
<1>2. c # None /\ c.stop # TRUE
  BY DEF IsHalt
<1>3. CASE VisualServoCommand(body.target) # None
  <2>1. c = TargetCommand(body.target) /\ body.target # None
    BY <1>3 DEF ChosenCommand, VisualServoCommand, TargetCommand
  <2> DEFINE error == Larger(0, Smaller(1000, body.target.center)) - 500
  <2>2. c # StopCommand
    <3>1. StopCommand.stop = TRUE
      BY DEF StopCommand
    <3> HIDE DEF c
    <3> QED
      BY <1>2, <3>1
  <2>3. c = Steer(error)
    BY <2>1, <2>2 DEF TargetCommand
  <2> HIDE DEF error, c
  <2>4. Steer(error).duration = StepDuration
    BY DEF Steer, Move
  <2> QED
    BY <2>3, <2>4 DEF c
<1>4. CASE VisualServoCommand(body.target) = None
  <2>1. c = FirstCommand(body.chunks)
    BY <1>4 DEF ChosenCommand
  <2>2. body.chunks # <<>> /\ c = ChunkCommand(body.chunks[1])
    BY <1>2, <2>1 DEF FirstCommand
  <2> DEFINE chunk == body.chunks[1]
             raw == ActionChunkToVelocityCommand(chunk)
  <2>3. chunk \in [action : Actions, repeat : Int]
    BY <1>1, <2>2, FirstElement
  <2>4. raw = StopCommand \/ \E linear, angular : raw = Move(linear, angular)
    BY <2>3 DEF ActionChunkToVelocityCommand, Actions
  <2> HIDE DEF raw
  <2>5. c = ClampVelocityCommand(raw)
    BY <2>2 DEF raw, ChunkCommand
  <2>6. CASE raw.stop
    BY <1>2, <2>5, <2>6 DEF ClampVelocityCommand, StopCommand
  <2>7. CASE ~raw.stop
    <3>1. PICK linear, angular : raw = Move(linear, angular)
      BY <2>4, <2>7 DEF StopCommand
    <3>2. c.duration = raw.duration
      BY <2>5, <2>7, <3>1 DEF ClampVelocityCommand, Move
    <3> QED
      BY <3>1, <3>2 DEF Move
  <2> QED
    BY <2>6, <2>7
<1> QED
  BY <1>3, <1>4

LEMMA PulseIsNat == Pulse \in Nat
BY ControlAssumption DEF Pulse, Larger, Less

(* The finished operations and the present one never take more than all of  *)
(* them together.                                                           *)
LEMMA ElapsedFacts ==
    ASSUME TimedTypeOK
    PROVE  Elapsed \in Nat /\ Longest \in Nat /\ Elapsed <= Longest
<1>1. /\ waited \in 0..InferenceTimeout /\ operations \in 0..(MaxOperations - 1)
      /\ InferenceTimeout \in Nat /\ MaxOperations \in Nat
  BY TimeAssumption DEF TimedTypeOK
<1>2. PICK rest \in Nat : MaxOperations = operations + 1 + rest
  <2>1. MaxOperations - operations - 1 \in Nat
    BY <1>1
  <2> QED
    BY <1>1, <2>1
<1>3. operations * InferenceTimeout \in Nat /\ rest * InferenceTimeout \in Nat
  BY <1>1
<1>4. (operations + 1 + rest) * InferenceTimeout
          = operations * InferenceTimeout + InferenceTimeout + rest * InferenceTimeout
  BY <1>1
<1> QED
  BY <1>1, <1>2, <1>3, <1>4 DEF Elapsed, Longest

(* Elapsed grows with the clock, and the next operation loses none of it.   *)
LEMMA ElapsedStep ==
    ASSUME TimedTypeOK
    PROVE  /\ operations' = operations /\ waited' = waited + 1 => Elapsed' = Elapsed + 1
           /\ operations' = operations /\ waited' = waited => Elapsed' = Elapsed
           /\ operations' = operations + 1 /\ waited' = 0
                   => Elapsed' = Elapsed + (InferenceTimeout - waited)
<1>1. /\ waited \in 0..InferenceTimeout /\ operations \in Nat /\ InferenceTimeout \in Nat
  BY TimeAssumption DEF TimedTypeOK
<1>2. /\ operations * InferenceTimeout \in Nat
      /\ (operations + 1) * InferenceTimeout = operations * InferenceTimeout + InferenceTimeout
  BY <1>1
<1> QED
  BY <1>1, <1>2 DEF Elapsed

-----------------------------------------------------------------------------
(* What a step that takes no time does to the clockwork of the controller.  *)
Halts == Publish(Zero) /\ phase' = "idle"
Moves ==
    /\ phase = "answered" /\ phase' = "pulsing"
    /\ armed' = TRUE /\ commandAge' = 0 /\ sleepLeft' = Pulse
Asks ==
    /\ phase = "idle" /\ phase' = "waiting"
    /\ imageQueue # <<>> /\ imageQueue' = Tail(imageQueue)
    /\ UNCHANGED <<armed, commandAge>>
Hears == phase = "waiting" /\ phase' = "answered" /\ UNCHANGED <<armed, commandAge>>
Idles ==
    /\ phase' = phase /\ UNCHANGED <<armed, commandAge, sleepLeft>>
    /\ timerDue' = timerDue \/ (phase = "idle" /\ ~Expired)

Dies == phase' = "down" /\ UNCHANGED <<armed, commandAge>>

(* Only a callback that begins takes a frame from the queue.                *)
Takes == phase = "idle" /\ imageQueue # <<>> /\ imageQueue' = Tail(imageQueue)

Timeless ==
    \/ Controller \/ TakeTwist
    \/ \E session \in Sessions, step \in 0..MaxFrames, body \in Bodies :
            ServerReplies(session, step, body)

LEMMA TimelessKinds ==
    ASSUME Typing, Timeless
    PROVE  /\ Halts \/ Moves \/ Asks \/ Hears \/ Idles \/ Dies
           /\ imageQueue' = imageQueue \/ Takes
<1>1. ASSUME TakeTwist PROVE Idles /\ imageQueue' = imageQueue
  BY <1>1 DEF TakeTwist, Idles, cameraVars, clockVars
<1>2. ASSUME SkipImage PROVE Idles /\ Takes
  BY <1>2 DEF SkipImage, Idles, Takes, outputVars, clockVars
<1>3. ASSUME BeginInference PROVE Asks /\ Takes
  BY <1>3 DEF BeginInference, StartImage, Asks, Takes, outputVars
<1>4. ASSUME RefuseRequest PROVE Halts /\ Takes
  BY <1>4 DEF RefuseRequest, StartImage, Halts, Takes
<1>5. ASSUME NEW session \in Sessions, NEW step \in 0..MaxFrames, NEW body \in Bodies,
             ServerReplies(session, step, body)
      PROVE  Hears /\ imageQueue' = imageQueue
  BY <1>5 DEF ServerReplies, Hears, cameraVars, outputVars
<1>6. ASSUME FailInference PROVE Halts /\ imageQueue' = imageQueue
  BY <1>6 DEF FailInference, Halts, cameraVars
<1>7. ASSUME AnswerWithHalt PROVE Halts /\ imageQueue' = imageQueue
  BY <1>7 DEF AnswerWithHalt, AcceptReply, Halts, cameraVars
<1>8. ASSUME StartPulse PROVE Moves /\ imageQueue' = imageQueue
  <2>1. phase = "answered" /\ reply.body \in Bodies
    BY <1>8 DEF StartPulse, AcceptReply, Typing, Exchange, Reply
  <2>2. ChosenCommand(reply.body).duration = StepDuration
    BY <1>8, <2>1, ChosenDuration DEF StartPulse
  <2> QED
    BY <1>8, <2>1, <2>2 DEF StartPulse, AcceptReply, Publish, Moves, Pulse, cameraVars
<1>9. ASSUME EndPulse PROVE Halts /\ imageQueue' = imageQueue
  BY <1>9 DEF EndPulse, Halts, cameraVars
<1>10. ASSUME OnWatchdogTimer PROVE (Halts \/ Idles) /\ imageQueue' = imageQueue
  BY <1>10 DEF OnWatchdogTimer, Halts, Idles, cameraVars, outputVars
<1>11. ASSUME Interrupt PROVE Dies /\ imageQueue' = imageQueue
  BY <1>11 DEF Interrupt, Dies, cameraVars, outputVars
<1> QED
  BY <1>1, <1>2, <1>3, <1>4, <1>5, <1>6, <1>7, <1>8, <1>9, <1>10, <1>11
  DEF Timeless, Controller, OnImage, InferenceFails, RejectReply

(* Every step of TimedController is a step of RemoteController or leaves    *)
(* its variables alone.                                                     *)
LEMMA TimedStepIsStep == [TimedNext]_timedVars => [Next]_vars
BY DEF TimedNext, TimedTick, NextOperation, Untimed, CameraReads, CameraMisses,
   timedVars, Next, Arrivals

(* Letting time pass only when nobody has anything to do restricts the      *)
(* controller's behaviours and adds none: whatever holds of all of them     *)
(* holds of the timed ones.                                                 *)
THEOREM TimedImplementsController == TimedSpec => Safety
<1>1. TimedInit => Init
  BY DEF TimedInit
<1> QED
  BY <1>1, TimedStepIsStep, PTL DEF TimedSpec, Safety

-----------------------------------------------------------------------------
(* The clock's own types.                                                   *)
LEMMA TimedTypeInit == TimedInit => TimedTypeOK
BY TimeAssumption DEF TimedInit, Init, TimedTypeOK

LEMMA TimedTypeStep ==
    ASSUME Typing, Durations, TimedTypeOK, [TimedNext]_timedVars PROVE TimedTypeOK'
<1> USE TimeAssumption DEF TimedTypeOK
<1>t. imageQueue \in Seq(Frame) /\ Len(imageQueue) <= QueueDepth /\ QueueDepth \in Nat \ {0}
  BY ControllerAssumption DEF Typing, TypeOK
<1>1. CASE TimedTick
  <2>1. /\ imageQueue' = imageQueue /\ ~CameraDue
        /\ phase = "waiting" => waited < InferenceTimeout
    BY <1>1 DEF TimedTick, Tick, cameraVars
  <2>2. ages' \in Seq(Nat) /\ Len(ages') = Len(ages)
    <3>1. ages' = [i \in 1..Len(ages) |-> ages[i] + 1]
      BY <1>1 DEF TimedTick
    <3> QED
      BY <3>1
  <2>3. waited' \in 0..InferenceTimeout /\ sinceCamera' \in 0..CameraPeriod
    BY <1>1, <2>1 DEF TimedTick, CameraDue
  <2> QED
    BY <1>1, <2>1, <2>2, <2>3 DEF TimedTick
<1>n. CASE NextOperation
  BY <1>n DEF NextOperation, vars, cameraVars, ageVars
<1>2. ASSUME NEW kind \in FrameKinds, CameraReads(kind) PROVE TimedTypeOK'
  <2> DEFINE frame == [id |-> published + 1, kind |-> kind]
  <2>1. frame \in Frame
    BY <1>2, ControllerAssumption DEF CameraReads, PublishFrame, Typing, TypeOK, Frame
  <2>2. /\ imageQueue' = KeepLast(Append(imageQueue, frame), QueueDepth)
        /\ ages' = KeepLast(Append(ages, 0), QueueDepth)
    BY <1>2 DEF CameraReads, PublishFrame
  <2> HIDE DEF frame
  <2>3. Len(imageQueue') = IF Len(imageQueue) < QueueDepth THEN Len(imageQueue) + 1 ELSE QueueDepth
    BY <1>t, <2>1, <2>2, KeepLastAppend
  <2>4. /\ ages' \in Seq(Nat)
        /\ Len(ages') = IF Len(ages) < QueueDepth THEN Len(ages) + 1 ELSE QueueDepth
    <3>1. ages \in Seq(Nat) /\ Len(ages) <= QueueDepth /\ QueueDepth \in Nat /\ 0 \in Nat
      BY <1>t
    <3> QED
      BY <2>2, <3>1, KeepLastAppend
  <2> QED
    BY <1>2, <2>3, <2>4 DEF CameraReads, socketVars
<1>3. CASE CameraMisses
  BY <1>3 DEF CameraMisses, vars, cameraVars, socketVars
<1>4. CASE Untimed
  <2>1. imageQueue' = imageQueue \/ Takes
    BY <1>4, TimelessKinds DEF Untimed, Timeless
  <2>2. CASE imageQueue' = imageQueue
    BY <1>4, <2>2 DEF Untimed
  <2>3. CASE Takes
    <3>1. /\ imageQueue # <<>> /\ imageQueue' = Tail(imageQueue) /\ imageQueue' # imageQueue
          /\ Len(imageQueue') = Len(imageQueue) - 1
      BY <1>t, <2>3 DEF Takes
    <3>2. ages # <<>> /\ Head(ages) \in Nat /\ Tail(ages) \in Seq(Nat)
          /\ Len(Tail(ages)) = Len(ages) - 1
      BY <1>t, <3>1
    <3>3. operations' \in 0..(MaxOperations - 1) /\ waited' \in 0..InferenceTimeout
      BY <1>4 DEF Untimed
    <3>4. sinceCamera' = sinceCamera /\ misses' = misses /\ ages' = Tail(ages)
      BY <1>4, <3>1 DEF Untimed
    <3>5. pictureAge' \in Nat
      BY <1>4, <3>1, <3>2 DEF Untimed
    <3> QED
      BY <1>t, <3>1, <3>2, <3>3, <3>4, <3>5
  <2> QED
    BY <2>1, <2>2, <2>3
<1>5. CASE UNCHANGED timedVars
  BY <1>5 DEF timedVars, ageVars, vars, cameraVars, socketVars
<1> QED
  BY <1>1, <1>n, <1>2, <1>3, <1>4, <1>5 DEF TimedNext

-----------------------------------------------------------------------------
(* Durations.                                                               *)
LEMMA DurationsInit == TimedInit => Durations
BY ControllerAssumption DEF TimedInit, Init, Durations

LEMMA DurationsStep ==
    ASSUME Typing, Timing, [TimedNext]_timedVars PROVE Durations'
<1>t. /\ commandAge \in Nat /\ AgeCap \in Nat /\ CommandTimeout \in Nat /\ sleepLeft \in Nat
      /\ Elapsed \in Nat /\ Longest \in Nat /\ Elapsed <= Longest
      /\ armed \in BOOLEAN /\ timerDue \in BOOLEAN
  BY ControllerAssumption, ElapsedFacts DEF Typing, TypeOK, Timing
<1>o. Longest' = Longest
  BY DEF Longest
<1>f. /\ operations' = operations /\ waited' = waited + 1 => Elapsed' = Elapsed + 1
      /\ operations' = operations /\ waited' = waited => Elapsed' = Elapsed
  BY ElapsedStep DEF Timing
<1>d. Durations
  BY DEF Timing
<1>1. CASE TimedTick
  <2>1. /\ phase' = phase /\ armed' = armed /\ timerDue' = TRUE
        /\ commandAge' = IF armed THEN Smaller(commandAge + 1, AgeCap) ELSE 0
        /\ sleepLeft' = Larger(0, sleepLeft - 1)
        /\ waited' = IF phase = "waiting" THEN waited + 1 ELSE 0
        /\ operations' = operations /\ ~ThreadHasWork
    BY <1>1 DEF TimedTick, Tick
  <2>2. commandAge' <= commandAge + 1 /\ commandAge' \in Nat /\ (~armed => commandAge' = 0)
    BY <1>t, <2>1 DEF Smaller, Less
  <2>3. phase = "idle" => ~timerDue
    BY <2>1 DEF ThreadHasWork
  <2>4. phase = "pulsing" => sleepLeft' = sleepLeft - 1
    BY <1>t, <2>1 DEF ThreadHasWork, Larger, Less
  <2>5. phase # "answered"
    BY <2>1 DEF ThreadHasWork
  <2> QED
    BY <1>t, <1>o, <1>f, <1>d, <2>1, <2>2, <2>3, <2>4, <2>5, PulseIsNat DEF Durations
<1>2. CASE UNCHANGED <<phase, armed, commandAge, timerDue, sleepLeft, socketVars>>
  BY <1>2, <1>o, <1>f, <1>d DEF Durations, Pulse, socketVars
<1>n. CASE NextOperation
  <2>1. /\ UNCHANGED <<phase, armed, commandAge, timerDue, sleepLeft>> /\ phase = "waiting"
        /\ Elapsed' = Elapsed + (InferenceTimeout - waited)
        /\ InferenceTimeout - waited \in Nat
    BY <1>n, ElapsedStep, TimeAssumption
    DEF NextOperation, Timing, TimedTypeOK, vars, clockVars, outputVars
  <2>2. commandAge' <= CommandTimeout + 1 + Elapsed'
    BY <1>t, <1>d, <2>1 DEF Durations
  <2> QED
    BY <1>d, <2>1, <2>2 DEF Durations
<1>3. ASSUME NEW kind \in FrameKinds, CameraReads(kind) PROVE Durations'
  BY <1>2, <1>3 DEF CameraReads, PublishFrame, outputVars, clockVars, socketVars
<1>4. CASE CameraMisses
  BY <1>2, <1>4 DEF CameraMisses, vars, outputVars, clockVars
<1>5. CASE Untimed
  <2>1. Halts \/ Moves \/ Asks \/ Hears \/ Idles \/ Dies
    BY <1>5, TimelessKinds DEF Untimed, Timeless
  <2>2. /\ waited' = IF phase' = "waiting" THEN waited ELSE 0
        /\ operations' = IF phase' = "waiting" THEN operations ELSE 0
    BY <1>5 DEF Untimed
  <2>3. CASE Halts
    BY <1>t, <2>2, <2>3 DEF Halts, Publish, Durations
  <2>4. CASE Moves
    BY <1>t, <2>2, <2>4, PulseIsNat DEF Moves, Durations, Pulse
  <2>5. CASE Asks
    BY <1>t, <1>o, <1>f, <1>d, <2>2, <2>5 DEF Asks, Durations
  <2>6. CASE Hears
    BY <1>t, <1>o, <1>d, <2>2, <2>6 DEF Hears, Durations
  <2>7. CASE Idles
    BY <1>t, <1>o, <1>f, <1>d, <2>2, <2>7 DEF Idles, Durations, Expired, Pulse
  <2>8. CASE Dies
    BY <1>d, <2>8 DEF Dies, Durations
  <2> QED
    BY <2>1, <2>3, <2>4, <2>5, <2>6, <2>7, <2>8
<1>6. CASE UNCHANGED timedVars
  BY <1>2, <1>6 DEF timedVars, ageVars, vars, outputVars, clockVars
<1> QED
  BY <1>1, <1>n, <1>3, <1>4, <1>5, <1>6 DEF TimedNext

-----------------------------------------------------------------------------
(* Ages.                                                                    *)
LEMMA LagFacts ==
    ASSUME NEW missed \in Nat, NEW k \in Int
    PROVE  /\ Lag(missed, k) \in Int
           /\ Lag(missed, k + 1) = Lag(missed, k) + CameraPeriod
           /\ Lag(missed + 1, k) = Lag(missed, k) + CameraPeriod
           /\ k >= 0 => Lag(missed, k) >= 0
<1>1. CameraPeriod \in Nat
  BY TimeAssumption
<1>2. (k + 1 + missed) * CameraPeriod = (k + missed) * CameraPeriod + CameraPeriod
  BY <1>1
<1>3. (k + (missed + 1)) * CameraPeriod = (k + missed) * CameraPeriod + CameraPeriod
  BY <1>1
<1>4. k >= 0 => (k + missed) * CameraPeriod >= 0
  BY <1>1
<1> QED
  BY <1>1, <1>2, <1>3, <1>4 DEF Lag

(* The oldest frame of a queue that is no longer than QueueDepth.           *)
LEMMA HeadAge ==
    ASSUME TimedTypeOK, QueueAges, ages # <<>>, Len(ages) <= QueueDepth
    PROVE  Head(ages) <= Lag(misses, QueueDepth)
<1>1. /\ ages \in Seq(Nat) /\ Len(ages) \in Nat \ {0} /\ Head(ages) = ages[1]
      /\ misses \in Nat /\ CameraPeriod \in Nat /\ sinceCamera \in 0..CameraPeriod
      /\ ages[1] \in Nat /\ QueueDepth \in Nat
  BY TimeAssumption, ControllerAssumption DEF TimedTypeOK
<1>2. ages[1] <= sinceCamera + Lag(misses, Len(ages) - 1)
  BY <1>1 DEF QueueAges
<1>3. Lag(misses, Len(ages) - 1) <= Lag(misses, QueueDepth - 1)
  <2>1. QueueDepth - Len(ages) \in Nat
    BY <1>1
  <2>2. (QueueDepth - Len(ages)) * CameraPeriod >= 0
    BY <1>1, <2>1
  <2>3. (QueueDepth - 1 + misses) * CameraPeriod
            = (Len(ages) - 1 + misses) * CameraPeriod + (QueueDepth - Len(ages)) * CameraPeriod
    BY <1>1
  <2>4. (Len(ages) - 1 + misses) * CameraPeriod \in Int
    BY <1>1
  <2>5. (QueueDepth - Len(ages)) * CameraPeriod \in Int
    BY <1>1
  <2> QED
    BY <2>2, <2>3, <2>4, <2>5 DEF Lag
<1>4. /\ Lag(misses, QueueDepth - 1) \in Int /\ Lag(misses, Len(ages) - 1) \in Int
      /\ Lag(misses, QueueDepth) = Lag(misses, QueueDepth - 1) + CameraPeriod
  <2>1. QueueDepth - 1 \in Int /\ Len(ages) - 1 \in Int /\ (QueueDepth - 1) + 1 = QueueDepth
    BY <1>1
  <2>2. Lag(misses, (QueueDepth - 1) + 1) = Lag(misses, QueueDepth)
    BY <2>1
  <2> QED
    BY <1>1, <2>1, <2>2, LagFacts
<1> QED
  BY <1>1, <1>2, <1>3, <1>4

LEMMA AgesInit == TimedInit => QueueAges /\ PictureAges
BY DEF TimedInit, Init, QueueAges, PictureAges

(* The frames in the queue.                                                 *)
LEMMA QueueAgesStep ==
    ASSUME Typing, TimedTypeOK, QueueAges, [TimedNext]_timedVars PROVE QueueAges'
<1>t. /\ imageQueue \in Seq(Frame) /\ Len(imageQueue) <= QueueDepth /\ QueueDepth \in Nat \ {0}
      /\ ages \in Seq(Nat) /\ Len(ages) = Len(imageQueue) /\ Len(ages) \in Nat
      /\ sinceCamera \in 0..CameraPeriod /\ misses \in Nat /\ CameraPeriod \in Nat \ {0}
      /\ \A i \in 1..Len(ages) : ages[i] \in Nat
  BY ControllerAssumption, TimeAssumption DEF Typing, TypeOK, TimedTypeOK
<1>k. ASSUME NEW i \in 1..Len(ages)
      PROVE  ages[i] <= sinceCamera + Lag(misses, Len(ages) - i) /\ Lag(misses, Len(ages) - i) \in Int
  BY <1>t, LagFacts DEF QueueAges
<1>1. CASE TimedTick
  <2>1. /\ ages' = [i \in 1..Len(ages) |-> ages[i] + 1]
        /\ sinceCamera' = sinceCamera + 1 /\ misses' = misses
    BY <1>1, <1>t DEF TimedTick
  <2>2. Len(ages') = Len(ages)
    BY <2>1, <1>t
  <2>3. ASSUME NEW i \in 1..Len(ages')
        PROVE  ages'[i] <= sinceCamera' + Lag(misses', Len(ages') - i)
    BY <1>t, <1>k, <2>1, <2>2, <2>3 DEF Lag
  <2> QED
    BY <2>3 DEF QueueAges
<1>2. ASSUME NEW kind \in FrameKinds, CameraReads(kind) PROVE QueueAges'
  <2>1. /\ ages' = KeepLast(Append(ages, 0), QueueDepth) /\ misses' = misses
        /\ sinceCamera = CameraPeriod /\ sinceCamera' = 0
    BY <1>2 DEF CameraReads, CameraDue
  <2>2. ages \in Seq(Nat) /\ Len(ages) <= QueueDepth /\ QueueDepth \in Nat /\ 0 \in Nat
    BY <1>t
  <2>3. PICK d \in Nat : Shifted(ages, 0, ages', d)
    BY <2>1, <2>2, KeepLastShift
  <2>4. ASSUME NEW i \in 1..Len(ages')
        PROVE  ages'[i] <= sinceCamera' + Lag(misses', Len(ages') - i)
    <3>1. /\ Len(ages') \in Nat /\ Len(ages') - i \in Nat
          /\ Lag(misses', Len(ages') - i) = Lag(misses, Len(ages') - i)
      BY <2>1, <2>3 DEF Shifted, Lag
    <3>2. CASE i + d <= Len(ages)
      <4>1. ages'[i] = ages[i + d] /\ i + d \in 1..Len(ages)
            /\ Len(ages') - i = (Len(ages) - (i + d)) + 1
        BY <2>3, <3>2, <1>t DEF Shifted
      <4>2. ages[i + d] <= CameraPeriod + Lag(misses, Len(ages) - (i + d))
        BY <4>1, <1>k, <2>1
      <4>3. Lag(misses, (Len(ages) - (i + d)) + 1) = Lag(misses, Len(ages) - (i + d)) + CameraPeriod
        BY <4>1, <1>t, LagFacts
      <4>4. Lag(misses, Len(ages') - i) = Lag(misses, (Len(ages) - (i + d)) + 1)
        BY <4>1
      <4>5. ages[i + d] \in Nat /\ Lag(misses, Len(ages) - (i + d)) \in Int
        BY <4>1, <1>t, <1>k
      <4> QED
        BY <1>t, <2>1, <3>1, <4>1, <4>2, <4>3, <4>4, <4>5
    <3>3. CASE ~(i + d <= Len(ages))
      <4>1. ages'[i] = 0
        BY <2>3, <3>3 DEF Shifted
      <4>2. Lag(misses, Len(ages') - i) >= 0 /\ Lag(misses, Len(ages') - i) \in Int
        BY <1>t, <3>1, LagFacts
      <4> QED
        BY <2>1, <3>1, <4>1, <4>2
    <3> QED
      BY <3>2, <3>3
  <2> QED
    BY <2>4 DEF QueueAges
<1>3. CASE CameraMisses
  <2>1. /\ ages' = ages /\ misses' = misses + 1
        /\ sinceCamera = CameraPeriod /\ sinceCamera' = 0
    BY <1>3 DEF CameraMisses, CameraDue
  <2>2. ASSUME NEW i \in 1..Len(ages)
        PROVE  ages[i] <= sinceCamera' + Lag(misses', Len(ages) - i)
    <3>1. Len(ages) - i \in Int
      BY <1>t
    <3>2. Lag(misses', Len(ages) - i) = Lag(misses, Len(ages) - i) + CameraPeriod
      BY <1>t, <2>1, <3>1, LagFacts
    <3> QED
      BY <1>t, <1>k, <2>1, <3>2
  <2> QED
    BY <2>1, <2>2 DEF QueueAges
<1>4. CASE Untimed
  <2>1. misses' = misses /\ sinceCamera' = sinceCamera
    BY <1>4 DEF Untimed
  <2>2. CASE ages' = ages
    BY <2>1, <2>2 DEF QueueAges, Lag
  <2>3. CASE ages' = Tail(ages) /\ ages # <<>>
    <3>1. /\ Len(ages') = Len(ages) - 1
          /\ \A i \in 1..Len(ages') : ages'[i] = ages[i + 1]
      BY <1>t, <2>3
    <3>2. ASSUME NEW i \in 1..Len(ages')
          PROVE  ages'[i] <= sinceCamera' + Lag(misses', Len(ages') - i)
      <4>1. i + 1 \in 1..Len(ages) /\ Len(ages') - i = Len(ages) - (i + 1)
        BY <1>t, <3>1
      <4>2. Lag(misses', Len(ages') - i) = Lag(misses, Len(ages) - (i + 1))
        BY <2>1, <4>1 DEF Lag
      <4> QED
        BY <1>k, <2>1, <3>1, <4>1, <4>2
    <3> QED
      BY <3>2 DEF QueueAges
  <2>4. imageQueue' = imageQueue \/ Takes
    BY <1>4, TimelessKinds DEF Untimed, Timeless
  <2>5. CASE imageQueue' = imageQueue
    BY <1>4, <2>2, <2>5 DEF Untimed
  <2>6. CASE Takes
    <3>1. imageQueue' # imageQueue /\ imageQueue # <<>>
      BY <1>t, <2>6 DEF Takes
    <3> QED
      BY <1>4, <1>t, <2>3, <3>1 DEF Untimed
  <2> QED
    BY <2>4, <2>5, <2>6
<1>n. CASE NextOperation
  BY <1>n DEF NextOperation, ageVars, QueueAges, Lag
<1>5. CASE UNCHANGED timedVars
  BY <1>5 DEF timedVars, ageVars, QueueAges, Lag
<1> QED
  BY <1>1, <1>n, <1>2, <1>3, <1>4, <1>5 DEF TimedNext

(* The frame the callback is about.                                         *)
LEMMA PictureAgesStep ==
    ASSUME Typing, Timing, [TimedNext]_timedVars PROVE PictureAges'
<1>t. /\ pictureAge \in Nat /\ sleepLeft \in Nat
      /\ misses \in Nat /\ misses' \in Nat /\ CameraPeriod \in Nat /\ QueueDepth \in Nat \ {0}
      /\ Elapsed \in Nat /\ Longest \in Nat /\ Elapsed <= Longest /\ Longest' = Longest
      /\ imageQueue \in Seq(Frame) /\ Len(imageQueue) <= QueueDepth
      /\ ages \in Seq(Nat) /\ Len(ages) = Len(imageQueue)
  <2>1. Elapsed \in Nat /\ Longest \in Nat /\ Elapsed <= Longest /\ Longest' = Longest
    BY ElapsedFacts DEF Timing, Longest
  <2> QED
    BY <2>1, ControllerAssumption, TimeAssumption, TimedTypeStep
    DEF Typing, TypeOK, Timing, TimedTypeOK
<1>f. /\ operations' = operations /\ waited' = waited + 1 => Elapsed' = Elapsed + 1
      /\ operations' = operations /\ waited' = waited => Elapsed' = Elapsed
  BY ElapsedStep DEF Timing
<1>p. PictureAges
  BY DEF Timing
<1>l. /\ Lag(misses, QueueDepth) \in Int /\ Lag(misses, QueueDepth) >= 0
      /\ misses' = misses + 1 => Lag(misses', QueueDepth) = Lag(misses, QueueDepth) + CameraPeriod
  <2>1. QueueDepth \in Int /\ QueueDepth >= 0
    BY <1>t
  <2>2. Lag(misses + 1, QueueDepth) = Lag(misses, QueueDepth) + CameraPeriod
    BY <1>t, <2>1, LagFacts
  <2> QED
    BY <1>t, <2>1, <2>2, LagFacts
<1>s. ASSUME misses' = misses PROVE Lag(misses', QueueDepth) = Lag(misses, QueueDepth)
  BY <1>s
<1>1. CASE TimedTick
  <2>1. /\ phase' = phase /\ misses' = misses
        /\ sleepLeft' = Larger(0, sleepLeft - 1)
        /\ waited' = IF phase = "waiting" THEN waited + 1 ELSE 0
        /\ pictureAge' = IF phase = "idle" THEN 0 ELSE pictureAge + 1
        /\ operations' = operations /\ ~ThreadHasWork
    BY <1>1 DEF TimedTick, Tick
  <2>2. phase = "pulsing" => sleepLeft' = sleepLeft - 1
    BY <1>t, <2>1 DEF ThreadHasWork, Larger, Less
  <2>3. phase # "answered"
    BY <2>1 DEF ThreadHasWork
  <2> QED
    BY <1>t, <1>f, <1>p, <1>l, <1>s, <2>1, <2>2, <2>3, PulseIsNat DEF PictureAges
<1>2. ASSUME UNCHANGED <<phase, sleepLeft, socketVars, pictureAge>>,
             misses' = misses \/ misses' = misses + 1
      PROVE  PictureAges'
  <2>1. /\ Lag(misses', QueueDepth) >= Lag(misses, QueueDepth)
        /\ Lag(misses', QueueDepth) \in Int /\ Elapsed' = Elapsed
    BY <1>t, <1>f, <1>l, <1>s, <1>2 DEF socketVars
  <2> QED
    BY <1>t, <1>p, <1>l, <1>2, <2>1, PulseIsNat DEF PictureAges, Pulse
<1>3. ASSUME NEW kind \in FrameKinds, CameraReads(kind) PROVE PictureAges'
  BY <1>2, <1>3 DEF CameraReads, PublishFrame, clockVars, socketVars
<1>4. CASE CameraMisses
  BY <1>2, <1>4 DEF CameraMisses, vars, clockVars, socketVars
<1>n. CASE NextOperation
  <2>1. /\ UNCHANGED <<phase, sleepLeft, pictureAge, misses>> /\ phase = "waiting"
        /\ Elapsed' = Elapsed + (InferenceTimeout - waited)
        /\ InferenceTimeout - waited \in Nat
    BY <1>n, ElapsedStep, TimeAssumption
    DEF NextOperation, Timing, TimedTypeOK, ageVars, vars, clockVars
  <2> QED
    BY <1>t, <1>p, <1>l, <1>s, <2>1 DEF PictureAges
<1>5. CASE Untimed
  <2>1. Halts \/ Moves \/ Asks \/ Hears \/ Idles \/ Dies
    BY <1>5, TimelessKinds DEF Untimed, Timeless
  <2>2. /\ waited' = IF phase' = "waiting" THEN waited ELSE 0
        /\ operations' = IF phase' = "waiting" THEN operations ELSE 0
        /\ misses' = misses
        /\ pictureAge' = CASE phase' = "idle" -> 0
                           [] phase' # "idle" /\ imageQueue' # imageQueue -> Head(ages)
                           [] phase' # "idle" /\ imageQueue' = imageQueue -> pictureAge
    BY <1>5 DEF Untimed
  <2>3. imageQueue' = imageQueue \/ Takes
    BY <1>5, TimelessKinds DEF Untimed, Timeless
  <2>4. phase # "idle" /\ phase' # "idle" => pictureAge' = pictureAge
    BY <2>2, <2>3 DEF Takes
  <2>5. CASE phase' \in {"idle", "down"}
    BY <2>5 DEF PictureAges
  <2>6. CASE Moves
    BY <1>t, <1>p, <1>l, <1>s, <2>2, <2>4, <2>6, PulseIsNat DEF Moves, PictureAges
  <2>7. CASE Asks
    <3>1. /\ imageQueue' # imageQueue /\ ages # <<>> /\ phase' = "waiting" /\ Elapsed' = Elapsed
          /\ Head(ages) \in Nat
      BY <1>f, <1>t, <2>2, <2>7 DEF Asks
    <3>2. Head(ages) <= Lag(misses, QueueDepth)
      BY <1>t, <3>1, HeadAge DEF Timing
    <3> QED
      BY <1>t, <1>l, <1>s, <2>2, <3>1, <3>2 DEF PictureAges
  <2>8. CASE Hears
    BY <1>t, <1>p, <1>l, <1>s, <2>2, <2>4, <2>8 DEF Hears, PictureAges
  <2>9. CASE Idles /\ phase' # "idle"
    BY <1>t, <1>f, <1>p, <1>l, <1>s, <2>2, <2>4, <2>9, PulseIsNat DEF Idles, PictureAges, Pulse
  <2> QED
    BY <2>1, <2>5, <2>6, <2>7, <2>8, <2>9 DEF Halts, Dies
<1>6. CASE UNCHANGED timedVars
  BY <1>2, <1>6 DEF timedVars, ageVars, vars, clockVars
<1> QED
  BY <1>1, <1>n, <1>3, <1>4, <1>5, <1>6 DEF TimedNext

-----------------------------------------------------------------------------
(* The invariant.                                                           *)
LEMMA TimedInvariantInit == TimedInit => TimedInvariant
BY TypingInit, MotionInit, TimedTypeInit, DurationsInit, AgesInit
DEF TimedInit, TimedInvariant, Timing

LEMMA TimedInvariantStep == TimedInvariant /\ [TimedNext]_timedVars => TimedInvariant'
<1> SUFFICES ASSUME TimedInvariant, [TimedNext]_timedVars PROVE TimedInvariant'
  OBVIOUS
<1> USE DEF TimedInvariant
<1>1. Typing' /\ MotionInvariant'
  BY TimedStepIsStep, TypingStep, MotionStep
<1>2. TimedTypeOK' /\ Durations'
  BY TimedTypeStep, DurationsStep DEF Timing
<1>3. QueueAges' /\ PictureAges'
  BY QueueAgesStep, PictureAgesStep DEF Timing
<1> QED
  BY <1>1, <1>2, <1>3 DEF Timing

THEOREM TimedInvariantHolds == TimedSpec => []TimedInvariant
BY TimedInvariantInit, TimedInvariantStep, PTL DEF TimedSpec

(* A motion lasts for at most the step duration: outside of a pulse the     *)
(* robot stands, and in a pulse the age of the command and what is left of  *)
(* the sleep add up to the duration of one chunk.                           *)
THEOREM MotionIsBriefHolds == TimedSpec => []MotionIsBrief
<1>1. ASSUME TimedInvariant, phase # "down", lastTwist # Zero
      PROVE  commandAge <= Larger(0, StepDuration)
  <2>1. phase = "pulsing"
    BY <1>1 DEF TimedInvariant, MotionInvariant, HaltedOutsidePulse
  <2>2. commandAge \in Nat /\ sleepLeft \in Nat /\ commandAge + sleepLeft <= Pulse
    BY <1>1, <2>1, ControllerAssumption DEF TimedInvariant, Timing, Durations, Typing, TypeOK
  <2>3. commandAge <= Pulse
    BY <2>2, PulseIsNat
  <2> QED
    BY <2>3 DEF Pulse
<1>2. TimedInvariant => MotionIsBrief
  BY <1>1 DEF MotionIsBrief
<1> QED
  BY <1>2, TimedInvariantHolds, PTL

(* The topic is silent no longer than the watchdog's timeout, one period of *)
(* its timer and one HTTP exchange, which keeps the only thread from it for *)
(* as many of the socket's timeouts as it has operations.                   *)
THEOREM SilenceBoundedHolds == TimedSpec => []SilenceBounded
<1>1. ASSUME TimedInvariant, phase # "down", armed
      PROVE  commandAge <= Larger(CommandTimeout + 1 + MaxOperations * InferenceTimeout,
                                  StepDuration)
  <2>1. /\ commandAge \in Nat /\ sleepLeft \in Nat /\ CommandTimeout \in Nat
        /\ Elapsed \in Nat /\ Longest \in Nat /\ Elapsed <= Longest /\ StepDuration \in Int
        /\ phase \in Phases
    BY <1>1, ControllerAssumption, ControlAssumption, ElapsedFacts
    DEF TimedInvariant, Typing, TypeOK, Timing
  <2>2. commandAge <= Pulse \/ commandAge <= CommandTimeout + 1 + Longest
    BY <1>1, <2>1, PulseIsNat DEF TimedInvariant, Timing, Durations, Phases
  <2> QED
    BY <2>1, <2>2 DEF Pulse, Longest, Larger, Less
<1>2. TimedInvariant => SilenceBounded
  BY <1>1 DEF SilenceBounded
<1> QED
  BY <1>2, TimedInvariantHolds, PTL

(* The picture a motion answers to has waited behind at most QueueDepth     *)
(* frames and the reads that failed; its age beyond that is the exchange    *)
(* and the motion themselves.                                               *)
THEOREM MotionIsRecentHolds == TimedSpec => []MotionIsRecent
<1>1. ASSUME TimedInvariant, phase # "down", lastTwist # Zero
      PROVE  pictureAge <= (QueueDepth + misses) * CameraPeriod
                           + MaxOperations * InferenceTimeout + Larger(0, StepDuration)
  <2>1. phase = "pulsing"
    BY <1>1 DEF TimedInvariant, MotionInvariant, HaltedOutsidePulse
  <2>2. pictureAge + sleepLeft <= Lag(misses, QueueDepth) + Longest + Pulse
    BY <1>1, <2>1 DEF TimedInvariant, Timing, PictureAges
  <2>3. /\ pictureAge \in Nat /\ sleepLeft \in Nat /\ misses \in Nat
        /\ QueueDepth \in Nat /\ Longest \in Nat
    BY <1>1, ControllerAssumption, ElapsedFacts
    DEF TimedInvariant, Typing, TypeOK, Timing, TimedTypeOK
  <2>4. Lag(misses, QueueDepth) \in Int
    BY <2>3, LagFacts
  <2>5. pictureAge <= Lag(misses, QueueDepth) + Longest + Pulse
    BY <2>2, <2>3, <2>4, PulseIsNat
  <2> QED
    BY <2>5 DEF Lag, Longest, Pulse
<1>2. TimedInvariant => MotionIsRecent
  BY <1>1 DEF MotionIsRecent
<1> QED
  BY <1>2, TimedInvariantHolds, PTL
=============================================================================
