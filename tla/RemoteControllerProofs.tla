----------------------- MODULE RemoteControllerProofs -----------------------
(***************************************************************************)
(* Theorems about RemoteController, for every value of its parameters.     *)
(*                                                                         *)
(* TypeOK is not inductive: the image callback reads request and reply,    *)
(* which TypeOK lets be None.  Exchange says when they are not, and that   *)
(* no step has passed since the request was made.                          *)
(***************************************************************************)
EXTENDS RemoteController, SequenceTheorems, TLAPS

-----------------------------------------------------------------------------
(* What the operators of Motion and Control return.                         *)

(* A clamped value lies within the limit's magnitude, also when the limit   *)
(* is negative.                                                             *)
THEOREM ClampWithin ==
    ASSUME NEW value \in Int, NEW limit \in Int
    PROVE  /\ Clamp(value, limit) \in Int
           /\ Within(Clamp(value, limit), Abs(limit))
BY DEF Clamp, Within, Abs, Larger, Smaller, Less

LEMMA FirstElement == ASSUME NEW S, NEW s \in Seq(S), s # <<>> PROVE s[1] \in S
OBVIOUS

(* A bounded queue keeps the newest elements in their order.                *)
LEMMA KeepLastElements ==
    ASSUME NEW S, NEW s \in Seq(S), NEW n \in Nat
    PROVE  /\ KeepLast(s, n) \in Seq(S)
           /\ Len(KeepLast(s, n)) = IF Len(s) <= n THEN Len(s) ELSE n
           /\ \A i \in 1..Len(KeepLast(s, n)) :
                KeepLast(s, n)[i] = s[i + Len(s) - Len(KeepLast(s, n))]
<1>1. CASE Len(s) <= n
  BY <1>1 DEF KeepLast
<1>2. CASE ~(Len(s) <= n)
  <2> DEFINE m == Len(s) - n + 1
  <2>1. /\ m \in 1..(Len(s) + 1) /\ Len(s) \in Nat
    BY <1>2, LenProperties
  <2>2. KeepLast(s, n) = SubSeq(s, m, Len(s))
    BY <1>2 DEF KeepLast
  <2>3. /\ SubSeq(s, m, Len(s)) \in Seq(S)
        /\ Len(SubSeq(s, m, Len(s))) = Len(s) - m + 1
        /\ \A i \in 1..(Len(s) - m + 1) : SubSeq(s, m, Len(s))[i] = s[m + i - 1]
    BY <2>1
  <2> QED
    BY <1>2, <2>1, <2>2, <2>3
<1> QED
  BY <1>1, <1>2

(* Putting an element into a bounded queue: it is the last one, if the     *)
(* queue can hold any.                                                      *)
LEMMA KeepLastAppend ==
    ASSUME NEW S, NEW s \in Seq(S), NEW e \in S, NEW n \in Nat, Len(s) <= n,
           NEW q, q = KeepLast(Append(s, e), n)
    PROVE  /\ q \in Seq(S)
           /\ Len(q) = IF Len(s) < n THEN Len(s) + 1 ELSE n
           /\ n > 0 => q # <<>> /\ q[Len(q)] = e
<1> DEFINE t == Append(s, e)
<1>1. /\ t \in Seq(S) /\ Len(t) = Len(s) + 1 /\ Len(s) \in Nat
      /\ t[Len(s) + 1] = e
  OBVIOUS
<1>2. q = KeepLast(t, n)
  OBVIOUS
<1> HIDE DEF t
<1>3. /\ q \in Seq(S)
      /\ Len(q) = IF Len(t) <= n THEN Len(t) ELSE n
      /\ \A i \in 1..Len(q) : q[i] = t[i + Len(t) - Len(q)]
  BY <1>1, <1>2, KeepLastElements
<1>4. Len(q) = IF Len(s) < n THEN Len(s) + 1 ELSE n
  BY <1>1, <1>3
<1>5. ASSUME n > 0 PROVE q # <<>> /\ q[Len(q)] = e
  <2>1. Len(q) \in 1..Len(q) /\ Len(q) + Len(t) - Len(q) = Len(s) + 1
    BY <1>1, <1>4, <1>5
  <2>2. q[Len(q)] = t[Len(q) + Len(t) - Len(q)]
    BY <1>3, <2>1
  <2>3. q[Len(q)] = e
    BY <1>1, <2>1, <2>2
  <2>4. q # <<>>
    BY <2>1
  <2> QED
    BY <2>3, <2>4
<1> QED
  BY <1>3, <1>4, <1>5

(* q is s with e put at its end and d elements lost at its front: position  *)
(* i holds the element d positions further on, or the new one.              *)
Shifted(s, e, q, d) ==
    /\ Len(s) \in Nat /\ Len(q) \in Nat /\ d = Len(s) + 1 - Len(q)
    /\ \A i \in 1..Len(q) : q[i] = IF i + d <= Len(s) THEN s[i + d] ELSE e

LEMMA KeepLastShift ==
    ASSUME NEW S, NEW s \in Seq(S), NEW e \in S, NEW n \in Nat, Len(s) <= n,
           NEW q, q = KeepLast(Append(s, e), n)
    PROVE  \E d \in Nat : Shifted(s, e, q, d)
<1> DEFINE t == Append(s, e)
           d == Len(s) + 1 - Len(q)
<1>1. /\ t \in Seq(S) /\ Len(t) = Len(s) + 1 /\ Len(s) \in Nat
      /\ \A k \in 1..(Len(s) + 1) : t[k] = IF k <= Len(s) THEN s[k] ELSE e
  OBVIOUS
<1>2. q = KeepLast(t, n)
  OBVIOUS
<1> HIDE DEF t
<1>3. /\ Len(q) = IF Len(t) <= n THEN Len(t) ELSE n
      /\ \A i \in 1..Len(q) : q[i] = t[i + Len(t) - Len(q)]
  BY <1>1, <1>2, KeepLastElements
<1>4. d \in Nat /\ Len(q) \in Nat
  BY <1>1, <1>3
<1>5. ASSUME NEW i \in 1..Len(q)
      PROVE  q[i] = IF i + d <= Len(s) THEN s[i + d] ELSE e
  <2>1. i + Len(t) - Len(q) = i + d /\ i + d \in 1..(Len(s) + 1)
    BY <1>1, <1>3, <1>4
  <2>2. q[i] = t[i + d]
    BY <1>3, <2>1
  <2> QED
    BY <1>1, <2>1, <2>2
<1> QED
  BY <1>1, <1>4, <1>5 DEF Shifted

-----------------------------------------------------------------------------
(* Zero respects every limit.                                               *)
LEMMA ZeroWithin == ASSUME NEW limit \in Int PROVE Within(0, Abs(limit))
BY DEF Within, Abs, Larger, Less

(* The command of an action chunk is clamped by max_linear_x and            *)
(* max_angular_z.                                                           *)
THEOREM ChunkCommandBounded ==
    ASSUME NEW chunk \in [action : Actions, repeat : Int]
    PROVE  ChunkCommand(chunk) \in VelocityCommand /\ ChunkLimits(ChunkCommand(chunk))
<1> DEFINE c == ActionChunkToVelocityCommand(chunk)
<1>1. c \in VelocityCommand
  BY ControlAssumption
  DEF ActionChunkToVelocityCommand, Actions, Move, StopCommand, VelocityCommand
<1> HIDE DEF c
<1>2. CASE c.stop
  BY <1>2, ZeroWithin, ControlAssumption
  DEF c, ChunkCommand, ClampVelocityCommand, StopCommand, VelocityCommand, ChunkLimits
<1>3. CASE ~c.stop
  <2>1. /\ Clamp(c.linear, MaxLinearX) \in Int
        /\ Within(Clamp(c.linear, MaxLinearX), Abs(MaxLinearX))
        /\ Clamp(c.angular, MaxAngularZ) \in Int
        /\ Within(Clamp(c.angular, MaxAngularZ), Abs(MaxAngularZ))
    BY <1>1, ClampWithin, ControlAssumption DEF VelocityCommand
  <2>2. ChunkCommand(chunk) = [c EXCEPT !.linear  = Clamp(c.linear, MaxLinearX),
                                        !.angular = Clamp(c.angular, MaxAngularZ)]
    BY <1>3 DEF c, ChunkCommand, ClampVelocityCommand
  <2> QED
    BY <1>1, <2>1, <2>2 DEF VelocityCommand, ChunkLimits
<1> QED
  BY <1>2, <1>3

(* The command of visual servo is clamped by its own parameters, whatever   *)
(* the detector reports, NaN included.                                      *)
THEOREM TargetCommandBounded ==
    ASSUME NEW target \in Target, target # None
    PROVE  TargetCommand(target) \in VelocityCommand /\ TargetLimits(TargetCommand(target))
<1> DEFINE error == Larger(0, Smaller(1000, target.center)) - 500
           turn  == Clamp(TargetTurnGain * error, TargetMaxAngularZ)
<1>1. error \in Int
  BY DEF Target, Number, Larger, Smaller, Less
<1> HIDE DEF error
<1>2. TargetTurnGain * error \in Int
  BY <1>1, ControlAssumption
<1>3. -turn \in Int /\ Within(-turn, Abs(TargetMaxAngularZ))
  <2>1. turn \in Int /\ Within(turn, Abs(TargetMaxAngularZ))
    BY <1>2, ClampWithin, ControlAssumption
  <2> HIDE DEF turn
  <2> QED
    BY <2>1, ControlAssumption DEF Within, Abs, Larger, Less
<1> HIDE DEF turn
<1>4. TargetCommand(target) \in {StopCommand, Move(TargetForwardSpeed, 0), Move(0, -turn)}
  BY DEF TargetCommand, Steer, error, turn
<1>5. /\ Within(TargetForwardSpeed, Abs(TargetForwardSpeed))
      /\ Within(0, Abs(TargetForwardSpeed)) /\ Within(0, Abs(TargetMaxAngularZ))
  BY ZeroWithin, ControlAssumption DEF Within, Abs, Larger, Less
<1>6. ASSUME NEW linear \in Int, NEW angular \in Int,
             Within(linear, Abs(TargetForwardSpeed)), Within(angular, Abs(TargetMaxAngularZ))
      PROVE  Move(linear, angular) \in VelocityCommand /\ TargetLimits(Move(linear, angular))
  BY <1>6, ControlAssumption DEF Move, VelocityCommand, TargetLimits
<1>7. StopCommand \in VelocityCommand /\ TargetLimits(StopCommand)
  BY <1>5 DEF StopCommand, VelocityCommand, TargetLimits
<1>8. TargetForwardSpeed \in Int
  BY ControlAssumption
<1> QED
  BY <1>3, <1>4, <1>5, <1>6, <1>7, <1>8

-----------------------------------------------------------------------------
(* Typing.                                                                  *)
Exchange ==
    /\ phase \in {"waiting", "answered"} => request \in Request /\ request.step = stepIndex
    /\ phase = "answered" => reply \in Reply

Typing == TypeOK /\ Exchange

-----------------------------------------------------------------------------
(* Publishing keeps the output well-typed and puts the twist last in the    *)
(* topic queue.                                                             *)
LEMMA PublishLemma ==
    ASSUME TypeOK, NEW twist \in Twist, Publish(twist)
    PROVE  /\ cmdVel' \in Seq(Twist) /\ Len(cmdVel') <= QueueDepth
           /\ lastTwist' \in Twist /\ armed' \in BOOLEAN /\ commandAge' \in 0..AgeCap
           /\ cmdVel' # <<>> /\ cmdVel'[Len(cmdVel')] = lastTwist'
<1>1. QueueDepth \in Nat /\ QueueDepth > 0 /\ AgeCap \in Nat
  BY ControllerAssumption
<1>2. cmdVel \in Seq(Twist) /\ Len(cmdVel) <= QueueDepth
  BY DEF TypeOK
<1> QED
  BY <1>1, <1>2, KeepLastAppend DEF Publish

LEMMA ZeroIsTwist == Zero \in Twist
BY DEF Zero, Twist

LEMMA SizeIsNat == Larger(0, HistorySize) \in Nat
BY ControllerAssumption DEF Larger, Less

(* Remembering a frame keeps the history well-typed and bounded.            *)
LEMMA RememberLemma ==
    ASSUME TypeOK, NEW frame \in Frame, Remember(frame)
    PROVE  frameHistory' \in Seq(Frame) /\ Len(frameHistory') <= Larger(0, HistorySize)
<1>1. frameHistory \in Seq(Frame) /\ Len(frameHistory) <= Larger(0, HistorySize)
  BY DEF TypeOK
<1>2. CASE frame.kind = "empty"
  BY <1>1, <1>2 DEF Remember, FrameHistoryAppend
<1>3. CASE frame.kind # "empty"
  <2>1. frameHistory' = KeepLast(Append(frameHistory, frame), Larger(0, HistorySize))
    BY <1>3 DEF Remember, FrameHistoryAppend
  <2> QED
    BY <1>1, <2>1, SizeIsNat, KeepLastAppend
<1> QED
  BY <1>2, <1>3

(* The frame taken from the queue, and what stays in it.                    *)
LEMMA TakeImage ==
    ASSUME TypeOK, imageQueue # <<>>
    PROVE  /\ Head(imageQueue) \in Frame
           /\ Tail(imageQueue) \in Seq(Frame) /\ Len(Tail(imageQueue)) <= QueueDepth
BY ControllerAssumption DEF TypeOK

(* What an accepted answer may make the robot do.                           *)
LEMMA ChosenCommandBounded ==
    ASSUME NEW body \in Bodies, ~IsHalt(ChosenCommand(body))
    PROVE  /\ ChosenCommand(body) \in VelocityCommand
           /\ ChunkLimits(ChosenCommand(body)) \/ TargetLimits(ChosenCommand(body))
<1> DEFINE c == ChosenCommand(body)
<1>1. /\ body.chunks \in Seq([action : Actions, repeat : Int])
      /\ body.target \in Target \cup {None}
  BY ControllerAssumption DEF Chunks
<1>2. c \in VelocityCommand /\ (ChunkLimits(c) \/ TargetLimits(c))
  <2>1. CASE VisualServoCommand(body.target) # None
    <3>1. VisualServoCommand(body.target) = TargetCommand(body.target)
      BY <2>1 DEF VisualServoCommand
    <3>2. body.target \in Target /\ body.target # None
      BY <1>1, <2>1, <3>1 DEF TargetCommand
    <3>3. c = TargetCommand(body.target)
      BY <2>1, <3>1 DEF ChosenCommand
    <3> QED
      BY <3>2, <3>3, TargetCommandBounded
  <2>2. CASE VisualServoCommand(body.target) = None
    <3>1. c = FirstCommand(body.chunks) /\ c # None
      BY <2>2 DEF ChosenCommand, IsHalt
    <3>2. body.chunks # <<>> /\ c = ChunkCommand(body.chunks[1])
      BY <3>1 DEF FirstCommand
    <3>3. body.chunks[1] \in [action : Actions, repeat : Int]
      BY <1>1, <3>2, FirstElement
    <3> QED
      BY <3>2, <3>3, ChunkCommandBounded
  <2> QED
    BY <2>1, <2>2
<1> QED
  BY <1>2 DEF c

LEMMA PulseBegins ==
    ASSUME NEW command \in VelocityCommand, ~command.stop
    PROVE  /\ VelocityCommandToTwist2D(VelocityCommandToPulse(command)[1]) \in Twist
           /\ VelocityCommandToTwist2D(VelocityCommandToPulse(command)[1])
                = [linear |-> command.linear, angular |-> command.angular]
           /\ Larger(0, command.duration) \in Nat
BY DEF VelocityCommandToTwist2D, VelocityCommandToPulse, VelocityCommand, Twist, Larger, Less

-----------------------------------------------------------------------------
(* The inductive step of typing, one action at a time.                      *)
LEMMA TypingInit == Init => Typing
<1>1. MaxFrames \in Nat /\ MinInferencePeriod \in Nat /\ QueueDepth \in Nat /\ AgeCap \in Nat
  BY ControllerAssumption
<1> SUFFICES ASSUME Init PROVE Typing
  OBVIOUS
<1>2. Exchange
  BY DEF Init, Exchange
<1>3. /\ imageQueue \in Seq(Frame) /\ Len(imageQueue) = 0
      /\ frameHistory \in Seq(Frame) /\ Len(frameHistory) = 0
      /\ cmdVel \in Seq(Twist) /\ Len(cmdVel) = 0
  BY DEF Init
<1>4. armed \in BOOLEAN /\ timerDue \in BOOLEAN
  BY DEF Init
<1>5. /\ published \in 0..MaxFrames /\ sinceInference \in 0..MinInferencePeriod
      /\ commandAge \in 0..AgeCap /\ stepIndex \in Nat /\ sleepLeft \in Nat /\ refusals \in Nat
  BY <1>1 DEF Init
<1>6. /\ phase \in Phases /\ lastTwist \in Twist
      /\ request \in Request \cup {None} /\ reply \in Reply \cup {None}
  BY ZeroIsTwist DEF Init, Phases
<1>7. TypeOK
  BY <1>1, <1>3, <1>4, <1>5, <1>6, SizeIsNat DEF TypeOK
<1> QED
  BY <1>2, <1>7 DEF Typing

LEMMA TypingStep == Typing /\ [Next]_vars => Typing'
<1> SUFFICES ASSUME Typing, [Next]_vars PROVE Typing'
  OBVIOUS
<1> USE DEF Typing
<1>c. /\ HistorySize \in Int /\ MaxFrames \in Nat /\ MinInferencePeriod \in Nat
      /\ QueueDepth \in Nat /\ QueueDepth > 0 /\ AgeCap \in Nat
  BY ControllerAssumption
<1>z. ASSUME Publish(Zero)
      PROVE  /\ cmdVel' \in Seq(Twist) /\ Len(cmdVel') <= QueueDepth
             /\ lastTwist' \in Twist /\ armed' \in BOOLEAN /\ commandAge' \in 0..AgeCap
  BY <1>z, PublishLemma, ZeroIsTwist
<1>1. ASSUME NEW kind \in FrameKinds, PublishFrame(kind) PROVE Typing'
  <2>1. [id |-> published + 1, kind |-> kind] \in Frame /\ published' \in 0..MaxFrames
    BY <1>1, <1>c DEF PublishFrame, TypeOK, Frame
  <2>2. imageQueue' \in Seq(Frame) /\ Len(imageQueue') <= QueueDepth
    BY <1>1, <1>c, <2>1, KeepLastAppend DEF PublishFrame, TypeOK
  <2> QED
    BY <1>1, <2>1, <2>2
    DEF PublishFrame, TypeOK, Exchange, exchangeVars, learntVars, outputVars, clockVars
<1>2. ASSUME TakeTwist PROVE Typing'
  <2>1. cmdVel' \in Seq(Twist) /\ Len(cmdVel') <= QueueDepth
    BY <1>2, <1>c DEF TakeTwist, TypeOK
  <2> QED
    BY <1>2, <2>1 DEF TakeTwist, TypeOK, Exchange, cameraVars, exchangeVars, learntVars, clockVars
<1>3. ASSUME SkipImage PROVE Typing'
  BY <1>3, TakeImage
  DEF SkipImage, TypeOK, Exchange, exchangeVars, learntVars, outputVars, clockVars
<1>4. ASSUME BeginInference PROVE Typing'
  <2>1. Head(imageQueue) \in Frame /\ imageQueue' \in Seq(Frame) /\ Len(imageQueue') <= QueueDepth
    BY <1>4, TakeImage DEF BeginInference, StartImage
  <2>2. request' \in Request /\ request'.step = stepIndex'
    BY <1>4, <2>1 DEF BeginInference, Request, TypeOK
  <2> QED
    BY <1>4, <1>c, <2>1, <2>2
    DEF BeginInference, StartImage, TypeOK, Exchange, Phases, outputVars
<1>5. ASSUME RefuseRequest PROVE Typing'
  <2>1. Head(imageQueue) \in Frame /\ imageQueue' \in Seq(Frame) /\ Len(imageQueue') <= QueueDepth
    BY <1>5, TakeImage DEF RefuseRequest, StartImage
  <2>2. frameHistory' \in Seq(Frame) /\ Len(frameHistory') <= Larger(0, HistorySize)
    BY <1>5, <2>1, RememberLemma DEF RefuseRequest
  <2>3. refusals' \in Nat
    <3>1. Head(imageQueue).kind \in {"jpeg", "invalid", "empty"}
      BY <2>1, ControllerAssumption DEF Frame
    <3> QED
      BY <1>5, <3>1 DEF RefuseRequest, TypeOK
  <2>4. /\ Publish(Zero) /\ phase = "idle" /\ sinceInference' = 0
        /\ UNCHANGED <<published, phase, exchangeVars, stepIndex, timerDue, sleepLeft>>
    BY <1>5 DEF RefuseRequest, StartImage
  <2> QED
    BY <1>c, <1>z, <2>1, <2>2, <2>3, <2>4 DEF TypeOK, Exchange, exchangeVars
<1>6. ASSUME NEW session \in Sessions, NEW step \in 0..MaxFrames, NEW body \in Bodies,
             ServerReplies(session, step, body)
      PROVE  Typing'
  <2>1. reply' \in Reply
    BY <1>6, <1>c DEF ServerReplies, Reply
  <2> QED
    BY <1>6, <2>1
    DEF ServerReplies, TypeOK, Exchange, Phases, cameraVars, learntVars, outputVars, clockVars
<1>7. ASSUME FailInference, phase \in {"waiting", "answered"} PROVE Typing'
  <2>1. frameHistory' \in Seq(Frame) /\ Len(frameHistory') <= Larger(0, HistorySize)
    BY <1>7, RememberLemma DEF FailInference, Exchange, Request
  <2> QED
    BY <1>7, <1>z, <2>1 DEF FailInference, TypeOK, Exchange, Phases, cameraVars, clockVars
<1>8. ASSUME AcceptReply
      PROVE  /\ frameHistory' \in Seq(Frame) /\ Len(frameHistory') <= Larger(0, HistorySize)
             /\ stepIndex' \in Nat /\ request' = None /\ reply' = None
             /\ UNCHANGED <<cameraVars, refusals, sinceInference, timerDue>>
             /\ phase = "answered" /\ reply \in Reply
  BY <1>8, RememberLemma DEF AcceptReply, Exchange, Request, TypeOK
<1>9. ASSUME AnswerWithHalt PROVE Typing'
  BY <1>9, <1>8, <1>z DEF AnswerWithHalt, TypeOK, Exchange, Phases, cameraVars
<1>10. ASSUME StartPulse PROVE Typing'
  <2> DEFINE command == ChosenCommand(reply.body)
             twist == VelocityCommandToTwist2D(VelocityCommandToPulse(command)[1])
  <2>1. AcceptReply /\ ~IsHalt(command) /\ Publish(twist)
        /\ phase' = "pulsing" /\ sleepLeft' = Larger(0, command.duration)
    BY <1>10 DEF StartPulse
  <2>2. reply.body \in Bodies
    BY <1>8, <2>1 DEF Reply
  <2>3. command \in VelocityCommand /\ ~command.stop
    <3>1. command \in VelocityCommand
      BY <2>1, <2>2, ChosenCommandBounded
    <3> QED
      BY <2>1, <3>1 DEF IsHalt
  <2>4. twist \in Twist /\ sleepLeft' \in Nat
    BY <2>1, <2>3, PulseBegins
  <2> HIDE DEF command, twist
  <2> QED
    BY <1>8, <2>1, <2>4, PublishLemma DEF TypeOK, Exchange, Phases, cameraVars
<1>11. ASSUME EndPulse PROVE Typing'
  BY <1>11, <1>z
  DEF EndPulse, TypeOK, Exchange, Phases, cameraVars, exchangeVars, learntVars, clockVars
<1>12. ASSUME OnWatchdogTimer PROVE Typing'
  BY <1>12, <1>z
  DEF OnWatchdogTimer, TypeOK, Exchange, cameraVars, exchangeVars, learntVars, outputVars
<1>13. ASSUME Interrupt PROVE Typing'
  BY <1>13
  DEF Interrupt, TypeOK, Exchange, Phases, cameraVars, exchangeVars, learntVars, outputVars, clockVars
<1>14. ASSUME Tick PROVE Typing'
  BY <1>14, <1>c
  DEF Tick, TypeOK, Exchange, cameraVars, exchangeVars, learntVars, Smaller, Larger, Less
<1>15. ASSUME UNCHANGED vars PROVE Typing'
  BY <1>15
  DEF vars, TypeOK, Exchange, cameraVars, exchangeVars, learntVars, outputVars, clockVars
<1> QED
  BY <1>1, <1>2, <1>3, <1>4, <1>5, <1>6, <1>7, <1>9, <1>10, <1>11, <1>12, <1>13, <1>14, <1>15
  DEF Next, Controller, OnImage, Arrivals, InferenceFails, RejectReply

(* Every reachable state is well-typed.                                     *)
THEOREM TypeCorrect == Safety => []TypeOK
<1>1. Typing => TypeOK
  BY DEF Typing
<1> QED
  BY <1>1, TypingInit, TypingStep, PTL DEF Safety

-----------------------------------------------------------------------------
(* What a step can do to the output: publish zero, start a pulse, lose the  *)
(* oldest command to the subscriber, or nothing; and a step that publishes  *)
(* nothing does not leave a pulse, unless the node is gone.                 *)
Quiet ==
    /\ lastTwist' = lastTwist
    /\ cmdVel' = cmdVel \/ (cmdVel # <<>> /\ cmdVel' = Tail(cmdVel))
    /\ phase' \notin {"pulsing", "down"} => phase \notin {"pulsing", "down"}

LEMMA OutputStep == [Next]_vars => Publish(Zero) \/ StartPulse \/ Quiet
<1> SUFFICES ASSUME [Next]_vars PROVE Publish(Zero) \/ StartPulse \/ Quiet
  OBVIOUS
<1>1. ASSUME NEW kind \in FrameKinds, PublishFrame(kind) PROVE Quiet
  BY <1>1 DEF PublishFrame, Quiet, outputVars
<1>2. ASSUME TakeTwist PROVE Quiet
  BY <1>2 DEF TakeTwist, Quiet
<1>3. ASSUME SkipImage PROVE Quiet
  BY <1>3 DEF SkipImage, Quiet, outputVars
<1>4. ASSUME BeginInference PROVE Quiet
  BY <1>4 DEF BeginInference, StartImage, Quiet, outputVars
<1>5. ASSUME RefuseRequest PROVE Publish(Zero)
  BY <1>5 DEF RefuseRequest
<1>6. ASSUME NEW session \in Sessions, NEW step \in 0..MaxFrames, NEW body \in Bodies,
             ServerReplies(session, step, body)
      PROVE  Quiet
  BY <1>6 DEF ServerReplies, Quiet, outputVars
<1>7. ASSUME FailInference PROVE Publish(Zero)
  BY <1>7 DEF FailInference
<1>8. ASSUME AnswerWithHalt PROVE Publish(Zero)
  BY <1>8 DEF AnswerWithHalt
<1>9. ASSUME EndPulse PROVE Publish(Zero)
  BY <1>9 DEF EndPulse
<1>10. ASSUME OnWatchdogTimer PROVE Publish(Zero) \/ Quiet
  BY <1>10 DEF OnWatchdogTimer, Quiet, outputVars
<1>11. ASSUME Interrupt PROVE Quiet
  BY <1>11 DEF Interrupt, Quiet, outputVars
<1>12. ASSUME Tick PROVE Quiet
  BY <1>12 DEF Tick, Quiet
<1>13. ASSUME UNCHANGED vars PROVE Quiet
  BY <1>13 DEF vars, Quiet, outputVars
<1> QED
  BY <1>1, <1>2, <1>3, <1>4, <1>5, <1>6, <1>7, <1>8, <1>9, <1>10, <1>11, <1>12, <1>13
  DEF Next, Controller, OnImage, Arrivals, InferenceFails, RejectReply

(* The velocity a pulse starts with.                                        *)
LEMMA StartPulseLemma ==
    ASSUME Typing, StartPulse
    PROVE  /\ phase' = "pulsing" /\ TwistBounded'
           /\ lastTwist' \in Twist /\ Publish(lastTwist')
<1> DEFINE command == ChosenCommand(reply.body)
           twist == VelocityCommandToTwist2D(VelocityCommandToPulse(command)[1])
<1>1. /\ phase = "answered" /\ ~IsHalt(command) /\ Publish(twist) /\ phase' = "pulsing"
  BY DEF StartPulse, AcceptReply
<1>2. reply.body \in Bodies
  BY <1>1 DEF Typing, Exchange, Reply
<1>3. /\ command \in VelocityCommand /\ ~command.stop
      /\ ChunkLimits(command) \/ TargetLimits(command)
  <2>1. command \in VelocityCommand /\ (ChunkLimits(command) \/ TargetLimits(command))
    BY <1>1, <1>2, ChosenCommandBounded
  <2> QED
    BY <1>1, <2>1 DEF IsHalt
<1>4. twist \in Twist /\ twist = [linear |-> command.linear, angular |-> command.angular]
  BY <1>3, PulseBegins
<1>5. lastTwist' = twist
  BY <1>1 DEF Publish
<1> HIDE DEF command, twist
<1> QED
  BY <1>1, <1>3, <1>4, <1>5 DEF TwistBounded, ChunkLimits, TargetLimits

LEMMA ZeroBounded == ChunkLimits(Zero)
BY ControlAssumption DEF Zero, Within, ChunkLimits, Abs, Larger, Less

-----------------------------------------------------------------------------
(* The safety of motion.  The three parts hold together in every state, the *)
(* first because whatever leaves a pulse publishes zero.  The topic's queue *)
(* ends with the velocity published last, for what the chassis will do.     *)
NewestCommandQueued == cmdVel # <<>> => cmdVel[Len(cmdVel)] = lastTwist
MotionInvariant == HaltedOutsidePulse /\ TwistBounded /\ NewestCommandQueued

LEMMA MotionInit == Init => MotionInvariant
BY ZeroBounded DEF Init, MotionInvariant, HaltedOutsidePulse, TwistBounded, NewestCommandQueued

LEMMA MotionStep == Typing /\ MotionInvariant /\ [Next]_vars => MotionInvariant'
<1> SUFFICES ASSUME Typing, MotionInvariant, [Next]_vars PROVE MotionInvariant'
  OBVIOUS
<1> USE DEF MotionInvariant
<1>t. TypeOK
  BY DEF Typing
<1>1. CASE Publish(Zero)
  <2>1. lastTwist' = Zero
    BY <1>1 DEF Publish
  <2>2. cmdVel'[Len(cmdVel')] = lastTwist'
    BY <1>1, <1>t, PublishLemma, ZeroIsTwist
  <2> QED
    BY <2>1, <2>2, ZeroBounded DEF HaltedOutsidePulse, TwistBounded, NewestCommandQueued
<1>2. CASE StartPulse
  <2>1. cmdVel'[Len(cmdVel')] = lastTwist'
    BY <1>2, <1>t, StartPulseLemma, PublishLemma
  <2> QED
    BY <1>2, <2>1, StartPulseLemma DEF HaltedOutsidePulse, NewestCommandQueued
<1>3. CASE Quiet
  <2>1. HaltedOutsidePulse' /\ TwistBounded'
    BY <1>3 DEF Quiet, HaltedOutsidePulse, TwistBounded
  <2>2. cmdVel \in Seq(Twist)
    BY <1>t DEF TypeOK
  <2>3. NewestCommandQueued'
    BY <1>3, <2>2 DEF Quiet, NewestCommandQueued
  <2> QED
    BY <2>1, <2>3
<1> QED
  BY <1>1, <1>2, <1>3, OutputStep

(* The velocity published last is zero except in a pulse.                   *)
THEOREM HaltedOutsidePulseHolds == Safety => []HaltedOutsidePulse
<1>1. MotionInvariant => HaltedOutsidePulse
  BY DEF MotionInvariant
<1> QED
  BY <1>1, TypingInit, TypingStep, MotionInit, MotionStep, PTL DEF Safety

(* Velocities respect the configured limits, whatever the answers contain.  *)
THEOREM TwistBoundedHolds == Safety => []TwistBounded
<1>1. MotionInvariant => TwistBounded
  BY DEF MotionInvariant
<1> QED
  BY <1>1, TypingInit, TypingStep, MotionInit, MotionStep, PTL DEF Safety

(* Motion begins only on an answer to the step being asked for.             *)
THEOREM MotionNeedsAFreshAnswerHolds == Safety => MotionNeedsAFreshAnswer
<1>1. Typing /\ [Next]_vars =>
        [lastTwist' # lastTwist /\ lastTwist' # Zero
           => /\ phase = "answered"
              /\ reply.session = "mine" /\ reply.step = stepIndex
              /\ stepIndex' = stepIndex + 1]_vars
  <2> SUFFICES ASSUME Typing, [Next]_vars, lastTwist' # lastTwist, lastTwist' # Zero
               PROVE  /\ phase = "answered"
                      /\ reply.session = "mine" /\ reply.step = stepIndex
                      /\ stepIndex' = stepIndex + 1
    OBVIOUS
  <2>1. StartPulse
    BY OutputStep DEF Publish, Quiet
  <2> QED
    BY <2>1 DEF StartPulse, AcceptReply, Accepts, Typing, Exchange
<1> QED
  BY <1>1, TypingInit, TypingStep, PTL DEF Safety, MotionNeedsAFreshAnswer

(* A step of the controller is a step of SafeMotion or changes nothing it   *)
(* speaks of.                                                               *)
LEMMA SafeMotionStep ==
    Typing /\ MotionInvariant /\ [Next]_vars => [SafeMotionOf!Next]_SafeMotionOf!vars
<1> SUFFICES ASSUME Typing, MotionInvariant, [Next]_vars
             PROVE  [SafeMotionOf!Next]_SafeMotionOf!vars
  OBVIOUS
<1> USE DEF SafeMotionOf!Next, SafeMotionOf!vars
<1>a. ASSUME AcceptReply, lastTwist' \in Twist, phase' # "down" PROVE SafeMotionOf!Answer
  BY <1>a DEF AcceptReply, SafeMotionOf!Answer, MotionInvariant, HaltedOutsidePulse
<1>h. ASSUME Publish(Zero), phase # "down", phase' # "down", UNCHANGED stepIndex
      PROVE  SafeMotionOf!Halt
  BY <1>h DEF Publish, SafeMotionOf!Halt
<1>q. ASSUME UNCHANGED <<lastTwist, stepIndex>>, (phase # "down") = (phase' # "down")
      PROVE  UNCHANGED SafeMotionOf!vars
  BY <1>q
<1>1. ASSUME NEW kind \in FrameKinds, PublishFrame(kind) PROVE UNCHANGED SafeMotionOf!vars
  BY <1>1, <1>q DEF PublishFrame, outputVars, learntVars
<1>2. ASSUME TakeTwist PROVE UNCHANGED SafeMotionOf!vars
  BY <1>2, <1>q DEF TakeTwist, learntVars
<1>3. ASSUME SkipImage PROVE UNCHANGED SafeMotionOf!vars
  BY <1>3, <1>q DEF SkipImage, outputVars, learntVars
<1>4. ASSUME BeginInference PROVE UNCHANGED SafeMotionOf!vars
  BY <1>4, <1>q DEF BeginInference, StartImage, outputVars
<1>5. ASSUME RefuseRequest PROVE SafeMotionOf!Halt
  BY <1>5, <1>h DEF RefuseRequest, StartImage
<1>6. ASSUME NEW session \in Sessions, NEW step \in 0..MaxFrames, NEW body \in Bodies,
             ServerReplies(session, step, body)
      PROVE  UNCHANGED SafeMotionOf!vars
  BY <1>6, <1>q DEF ServerReplies, outputVars, learntVars
<1>7. ASSUME FailInference, phase \in {"waiting", "answered"} PROVE SafeMotionOf!Halt
  BY <1>7, <1>h DEF FailInference
<1>8. ASSUME AnswerWithHalt PROVE SafeMotionOf!Answer
  BY <1>8, <1>a, ZeroIsTwist DEF AnswerWithHalt, Publish
<1>9. ASSUME StartPulse PROVE SafeMotionOf!Answer
  BY <1>9, <1>a, StartPulseLemma DEF StartPulse
<1>10. ASSUME EndPulse PROVE SafeMotionOf!Halt
  BY <1>10, <1>h DEF EndPulse, learntVars
<1>11. ASSUME OnWatchdogTimer PROVE SafeMotionOf!Halt \/ UNCHANGED SafeMotionOf!vars
  BY <1>11, <1>h, <1>q DEF OnWatchdogTimer, outputVars, learntVars
<1>12. ASSUME Interrupt PROVE SafeMotionOf!Die
  BY <1>12 DEF Interrupt, SafeMotionOf!Die, outputVars, learntVars
<1>13. ASSUME Tick PROVE UNCHANGED SafeMotionOf!vars
  BY <1>13, <1>q DEF Tick, learntVars
<1>14. ASSUME UNCHANGED vars PROVE UNCHANGED SafeMotionOf!vars
  BY <1>14, <1>q DEF vars, outputVars, learntVars
<1> QED
  BY <1>1, <1>2, <1>3, <1>4, <1>5, <1>6, <1>7, <1>8, <1>9, <1>10, <1>11, <1>12, <1>13, <1>14
  DEF Next, Controller, OnImage, Arrivals, InferenceFails, RejectReply

(* Every step of the controller is a step of SafeMotion or changes nothing  *)
(* it speaks of.  (EveryMotionEnds, the rest of SafeMotion, is liveness.)   *)
THEOREM ImplementsSafeMotionSafety == Safety => SafeMotionOf!Safety
<1>1. Init => SafeMotionOf!Init
  BY DEF Init, SafeMotionOf!Init
<1> QED
  BY <1>1, SafeMotionStep, TypingInit, TypingStep, MotionInit, MotionStep, PTL
  DEF Safety, SafeMotionOf!Safety

-----------------------------------------------------------------------------
(* The frame history.  An empty frame leaves it alone; any other joins it,  *)
(* and position i then holds what position i + d held before, or the frame. *)
LEMMA RememberElements ==
    ASSUME TypeOK, NEW frame \in Frame, Remember(frame)
    PROVE  \/ frame.kind = "empty" /\ frameHistory' = frameHistory
           \/ /\ frame.kind # "empty"
              /\ \E d \in Nat :
                    Shifted(frameHistory, frame, frameHistory', d)
<1>1. CASE frame.kind = "empty"
  BY <1>1 DEF Remember, FrameHistoryAppend
<1>2. CASE frame.kind # "empty"
  <2>1. frameHistory' = KeepLast(Append(frameHistory, frame), Larger(0, HistorySize))
    BY <1>2 DEF Remember, FrameHistoryAppend
  <2>2. frameHistory \in Seq(Frame) /\ Len(frameHistory) <= Larger(0, HistorySize)
    BY DEF TypeOK
  <2> QED
    BY <1>2, <2>1, <2>2, SizeIsNat, KeepLastShift
<1> QED
  BY <1>1, <1>2

LEMMA FrameIds ==
    ASSUME NEW frames \in Seq(Frame)
    PROVE  Len(frames) \in Nat /\ \A i \in 1..Len(frames) : frames[i].id \in Int
<1>1. \A frame \in Frame : frame.id \in Int
  BY ControllerAssumption DEF Frame
<1>2. Len(frames) \in Nat /\ \A i \in 1..Len(frames) : frames[i] \in Frame
  OBVIOUS
<1> QED
  BY <1>1, <1>2

(* Frames are handled in the order they were taken: those remembered, the   *)
(* one being asked about, those waiting, and those to come.                 *)
HistoryOrder ==
    /\ Increasing(frameHistory) /\ Increasing(imageQueue)
    /\ \A i \in 1..Len(frameHistory) :
            /\ frameHistory[i].id <= published
            /\ \A j \in 1..Len(imageQueue) : frameHistory[i].id < imageQueue[j].id
    /\ \A j \in 1..Len(imageQueue) : imageQueue[j].id <= published
    /\ phase \in {"waiting", "answered"} =>
            /\ request.frame.id <= published
            /\ \A i \in 1..Len(frameHistory) : frameHistory[i].id < request.frame.id
            /\ \A j \in 1..Len(imageQueue) : request.frame.id < imageQueue[j].id
    /\ HistoryOldestToNewest

LEMMA HistoryOrderInit == Init => HistoryOrder
BY DEF Init, HistoryOrder, HistoryOldestToNewest, Increasing

(* Taking the oldest waiting frame.                                         *)
LEMMA TakeImageOrder ==
    ASSUME TypeOK, HistoryOrder, imageQueue # <<>>
    PROVE  LET frame == Head(imageQueue)
               rest  == Tail(imageQueue)
           IN  /\ Increasing(rest) /\ frame.id <= published
               /\ \A i \in 1..Len(frameHistory) : frameHistory[i].id < frame.id
               /\ \A j \in 1..Len(rest) :
                    /\ frame.id < rest[j].id /\ rest[j].id <= published
                    /\ \A i \in 1..Len(frameHistory) : frameHistory[i].id < rest[j].id
<1>1. /\ imageQueue \in Seq(Frame) /\ Len(imageQueue) \in Nat /\ Len(imageQueue) > 0
      /\ Head(imageQueue) = imageQueue[1] /\ Len(Tail(imageQueue)) = Len(imageQueue) - 1
      /\ \A j \in 1..Len(Tail(imageQueue)) : Tail(imageQueue)[j] = imageQueue[j + 1]
  BY DEF TypeOK
<1> QED
  BY <1>1 DEF HistoryOrder, Increasing

(* A bounded queue of frames stays ordered when a younger one joins it.     *)
LEMMA ShiftOrder ==
    ASSUME NEW s \in Seq(Frame), NEW frame \in Frame, NEW q, NEW d \in Nat,
           Increasing(s), \A i \in 1..Len(s) : s[i].id < frame.id,
           Shifted(s, frame, q, d)
    PROVE  /\ Increasing(q)
           /\ \A i \in 1..Len(q) : q[i] = frame \/ \E k \in 1..Len(s) : q[i] = s[k]
<1>1. \A k \in 1..Len(s) : s[k].id \in Int
  BY FrameIds
<1> USE DEF Shifted
<1>2. ASSUME NEW i \in 1..Len(q)
      PROVE  q[i] = frame \/ (i + d \in 1..Len(s) /\ q[i] = s[i + d])
  OBVIOUS
<1>3. ASSUME NEW i \in 1..Len(q), NEW j \in 1..Len(q), i < j
      PROVE  q[i].id < q[j].id
  <2>1. i + d < j + d /\ i + d \in 1..Len(s)
    BY <1>3
  <2>2. q[i] = s[i + d]
    BY <2>1
  <2>3. CASE j + d \in 1..Len(s) /\ q[j] = s[j + d]
    BY <2>1, <2>2, <2>3 DEF Increasing
  <2>4. CASE q[j] = frame
    BY <2>1, <2>2, <2>4
  <2> QED
    BY <1>2, <2>3, <2>4
<1> QED
  BY <1>2, <1>3 DEF Increasing

(* Remembering a frame younger than the history.                            *)
LEMMA RememberOrder ==
    ASSUME TypeOK, NEW frame \in Frame, Remember(frame), Increasing(frameHistory),
           \A i \in 1..Len(frameHistory) : frameHistory[i].id < frame.id
    PROVE  /\ Increasing(frameHistory')
           /\ \A i \in 1..Len(frameHistory') : frameHistory'[i].id <= frame.id
<1>1. frameHistory \in Seq(Frame) /\ frame.id \in Int
  BY ControllerAssumption DEF TypeOK, Frame
<1>2. \A k \in 1..Len(frameHistory) : frameHistory[k].id \in Int
  BY <1>1, FrameIds
<1>3. CASE frameHistory' = frameHistory
  BY <1>1, <1>2, <1>3 DEF Increasing
<1>4. CASE frameHistory' # frameHistory
  <2>1. PICK d \in Nat : Shifted(frameHistory, frame, frameHistory', d)
    BY <1>4, RememberElements
  <2>2. /\ Increasing(frameHistory')
        /\ \A i \in 1..Len(frameHistory') :
                frameHistory'[i] = frame
                \/ \E k \in 1..Len(frameHistory) : frameHistory'[i] = frameHistory[k]
    BY <1>1, <2>1, ShiftOrder
  <2> QED
    BY <1>1, <1>2, <2>2
<1> QED
  BY <1>3, <1>4

LEMMA HistoryOrderStep == Typing /\ HistoryOrder /\ [Next]_vars => HistoryOrder'
<1> SUFFICES ASSUME Typing, HistoryOrder, [Next]_vars PROVE HistoryOrder'
  OBVIOUS
<1>t. TypeOK /\ imageQueue \in Seq(Frame) /\ frameHistory \in Seq(Frame) /\ published \in Int
  BY ControllerAssumption DEF Typing, TypeOK
<1>i. /\ \A i \in 1..Len(frameHistory) : frameHistory[i].id \in Int
      /\ \A j \in 1..Len(imageQueue) : imageQueue[j].id \in Int
  BY <1>t, FrameIds
<1>r. phase \in {"waiting", "answered"} => request.frame \in Frame /\ request.frame.id \in Int
  BY ControllerAssumption DEF Typing, Exchange, Request, Frame
<1>u. ASSUME UNCHANGED <<frameHistory, imageQueue, request, published>>,
             phase' \in {"waiting", "answered"} => phase \in {"waiting", "answered"}
      PROVE  HistoryOrder'
  BY <1>u DEF HistoryOrder, HistoryOldestToNewest, Increasing
<1>1. ASSUME NEW kind \in FrameKinds, PublishFrame(kind) PROVE HistoryOrder'
  <2> DEFINE frame == [id |-> published + 1, kind |-> kind]
  <2>1. frame \in Frame /\ frame.id = published + 1
    BY <1>1, <1>t, ControllerAssumption DEF PublishFrame, TypeOK, Frame
  <2>2. /\ imageQueue' = KeepLast(Append(imageQueue, frame), QueueDepth)
        /\ published' = published + 1
        /\ UNCHANGED <<phase, request, frameHistory>>
    BY <1>1 DEF PublishFrame, exchangeVars, learntVars
  <2> HIDE DEF frame
  <2>3. PICK d \in Nat : Shifted(imageQueue, frame, imageQueue', d)
    BY <1>t, <2>1, <2>2, KeepLastShift, ControllerAssumption DEF TypeOK
  <2>4. Increasing(imageQueue) /\ \A j \in 1..Len(imageQueue) : imageQueue[j].id < frame.id
    BY <1>t, <1>i, <2>1 DEF HistoryOrder
  <2>5. /\ Increasing(imageQueue')
        /\ \A j \in 1..Len(imageQueue') :
                imageQueue'[j] = frame \/ \E k \in 1..Len(imageQueue) : imageQueue'[j] = imageQueue[k]
    BY <1>t, <2>1, <2>3, <2>4, ShiftOrder
  <2>6. \A j \in 1..Len(imageQueue') : imageQueue'[j].id <= published'
    BY <1>t, <1>i, <2>1, <2>2, <2>5 DEF HistoryOrder
  <2>7. ASSUME NEW i \in 1..Len(frameHistory), NEW j \in 1..Len(imageQueue')
        PROVE  frameHistory[i].id < imageQueue'[j].id
    <3>1. CASE imageQueue'[j] = frame
      BY <1>t, <1>i, <2>1, <3>1 DEF HistoryOrder
    <3>2. ASSUME NEW k \in 1..Len(imageQueue), imageQueue'[j] = imageQueue[k]
          PROVE  frameHistory[i].id < imageQueue'[j].id
      BY <3>2 DEF HistoryOrder
    <3> QED
      BY <2>5, <3>1, <3>2
  <2>8. phase \in {"waiting", "answered"} =>
            /\ request.frame.id <= published'
            /\ \A j \in 1..Len(imageQueue') : request.frame.id < imageQueue'[j].id
    BY <1>t, <1>i, <1>r, <2>1, <2>2, <2>5 DEF HistoryOrder
  <2>9. \A i \in 1..Len(frameHistory) : frameHistory[i].id <= published'
    BY <1>t, <1>i, <2>2 DEF HistoryOrder
  <2> QED
    BY <2>2, <2>5, <2>6, <2>7, <2>8, <2>9
    DEF HistoryOrder, HistoryOldestToNewest, Increasing
<1>2. ASSUME SkipImage PROVE HistoryOrder'
  <2>1. /\ imageQueue # <<>> /\ imageQueue' = Tail(imageQueue) /\ phase = "idle"
        /\ UNCHANGED <<published, phase, request, frameHistory>>
    BY <1>2 DEF SkipImage, exchangeVars, learntVars
  <2> QED
    BY <1>t, <2>1, TakeImageOrder DEF HistoryOrder, HistoryOldestToNewest, Increasing
<1>3. ASSUME BeginInference PROVE HistoryOrder'
  <2>1. /\ imageQueue # <<>> /\ imageQueue' = Tail(imageQueue)
        /\ request' = [step |-> stepIndex, frame |-> Head(imageQueue), history |-> frameHistory]
        /\ UNCHANGED <<published, frameHistory>>
    BY <1>3 DEF BeginInference, StartImage
  <2> QED
    BY <1>t, <2>1, TakeImageOrder DEF HistoryOrder, HistoryOldestToNewest, Increasing
<1>4. ASSUME RefuseRequest PROVE HistoryOrder'
  <2> DEFINE frame == Head(imageQueue)
             rest == Tail(imageQueue)
  <2>1. /\ imageQueue # <<>> /\ imageQueue' = rest /\ phase = "idle" /\ Remember(frame)
        /\ UNCHANGED <<published, phase, request>>
    BY <1>4 DEF RefuseRequest, StartImage, exchangeVars
  <2>2. frame \in Frame /\ frame.id \in Int /\ rest \in Seq(Frame)
    BY <1>t, <2>1, TakeImage, ControllerAssumption DEF Frame
  <2>3. /\ Increasing(rest) /\ frame.id <= published
        /\ \A i \in 1..Len(frameHistory) : frameHistory[i].id < frame.id
        /\ \A j \in 1..Len(rest) : frame.id < rest[j].id /\ rest[j].id <= published
    BY <1>t, <2>1, TakeImageOrder
  <2> HIDE DEF frame, rest
  <2>4. /\ Increasing(frameHistory')
        /\ \A i \in 1..Len(frameHistory') : frameHistory'[i].id <= frame.id
    BY <1>t, <2>1, <2>2, <2>3, RememberOrder DEF HistoryOrder
  <2>5. frameHistory' \in Seq(Frame)
    BY <1>t, <2>1, <2>2, RememberLemma
  <2>6. /\ \A i \in 1..Len(frameHistory') : frameHistory'[i].id \in Int
        /\ \A j \in 1..Len(rest) : rest[j].id \in Int
    BY <2>2, <2>5, FrameIds
  <2>7. \A i \in 1..Len(frameHistory') :
            /\ frameHistory'[i].id <= published
            /\ \A j \in 1..Len(rest) : frameHistory'[i].id < rest[j].id
    BY <1>t, <2>2, <2>3, <2>4, <2>6
  <2>8. HistoryOldestToNewest'
    BY <2>1 DEF HistoryOrder, HistoryOldestToNewest, Increasing
  <2> QED
    BY <2>1, <2>3, <2>4, <2>7, <2>8 DEF HistoryOrder, Increasing
<1>5. ASSUME Remember(request.frame), phase \in {"waiting", "answered"},
             request' = None, phase' \notin {"waiting", "answered"},
             UNCHANGED <<published, imageQueue>>
      PROVE  HistoryOrder'
  <2>1. /\ Increasing(frameHistory')
        /\ \A i \in 1..Len(frameHistory') : frameHistory'[i].id <= request.frame.id
    BY <1>t, <1>r, <1>5, RememberOrder DEF HistoryOrder
  <2>2. \A i \in 1..Len(frameHistory') : frameHistory'[i].id \in Int
    BY <1>t, <1>r, <1>5, RememberLemma, FrameIds
  <2>3. \A i \in 1..Len(frameHistory') :
            /\ frameHistory'[i].id <= published
            /\ \A j \in 1..Len(imageQueue) : frameHistory'[i].id < imageQueue[j].id
    BY <1>t, <1>i, <1>r, <1>5, <2>1, <2>2 DEF HistoryOrder
  <2> QED
    BY <1>5, <2>1, <2>3 DEF HistoryOrder, HistoryOldestToNewest, Increasing
<1>6. ASSUME FailInference, phase \in {"waiting", "answered"} PROVE HistoryOrder'
  BY <1>5, <1>6 DEF FailInference, cameraVars
<1>7. ASSUME AnswerWithHalt PROVE HistoryOrder'
  BY <1>5, <1>7 DEF AnswerWithHalt, AcceptReply, cameraVars
<1>8. ASSUME StartPulse PROVE HistoryOrder'
  BY <1>5, <1>8 DEF StartPulse, AcceptReply, cameraVars
<1>9. ASSUME TakeTwist PROVE HistoryOrder'
  BY <1>9, <1>u DEF TakeTwist, cameraVars, exchangeVars, learntVars
<1>10. ASSUME NEW session \in Sessions, NEW step \in 0..MaxFrames, NEW body \in Bodies,
              ServerReplies(session, step, body)
       PROVE  HistoryOrder'
  BY <1>10, <1>u DEF ServerReplies, cameraVars, learntVars
<1>11. ASSUME EndPulse PROVE HistoryOrder'
  BY <1>11, <1>u DEF EndPulse, cameraVars, exchangeVars, learntVars
<1>12. ASSUME OnWatchdogTimer PROVE HistoryOrder'
  BY <1>12, <1>u DEF OnWatchdogTimer, cameraVars, exchangeVars, learntVars
<1>13. ASSUME Interrupt PROVE HistoryOrder'
  BY <1>13, <1>u DEF Interrupt, cameraVars, exchangeVars, learntVars
<1>14. ASSUME Tick PROVE HistoryOrder'
  BY <1>14, <1>u DEF Tick, cameraVars, exchangeVars, learntVars
<1>15. ASSUME UNCHANGED vars PROVE HistoryOrder'
  BY <1>15, <1>u DEF vars, cameraVars, exchangeVars, learntVars
<1> QED
  BY <1>1, <1>2, <1>3, <1>4, <1>6, <1>7, <1>8, <1>9, <1>10, <1>11, <1>12, <1>13, <1>14, <1>15
  DEF Next, Controller, OnImage, Arrivals, InferenceFails, RejectReply

(* The frames sent along are ordered and older than the frame they          *)
(* accompany, for every history size and every queue depth.                 *)
THEOREM HistoryOldestToNewestHolds == Safety => []HistoryOldestToNewest
<1>1. HistoryOrder => HistoryOldestToNewest
  BY DEF HistoryOrder
<1> QED
  BY <1>1, TypingInit, TypingStep, HistoryOrderInit, HistoryOrderStep, PTL DEF Safety

-----------------------------------------------------------------------------
(* Recovery.  What spoils the requests is older than the frames refused     *)
(* because of it, so every refusal moves it one place towards the exit, and *)
(* a request is only sent when nothing was refused since.                   *)
Recovery ==
    /\ phase \in {"waiting", "answered"} => refusals = 0
    /\ \A i \in 1..Len(frameHistory) :
            frameHistory[i].kind # "jpeg" => i <= Len(frameHistory) - refusals
    /\ HistoryRecovers

LEMMA RecoveryInit == Init => Recovery
BY SizeIsNat DEF Init, Recovery, HistoryRecovers

LEMMA RecoveryStep == Typing /\ Recovery /\ [Next]_vars => Recovery'
<1> SUFFICES ASSUME Typing, Recovery, [Next]_vars PROVE Recovery'
  OBVIOUS
<1>t. /\ TypeOK /\ frameHistory \in Seq(Frame) /\ Len(frameHistory) \in Nat /\ refusals \in Nat
      /\ Len(frameHistory) <= Larger(0, HistorySize)
  BY DEF Typing, TypeOK
<1>u. ASSUME UNCHANGED <<frameHistory, refusals>>,
             phase' \in {"waiting", "answered"} => phase \in {"waiting", "answered"}
      PROVE  Recovery'
  BY <1>u DEF Recovery, HistoryRecovers
<1>z. ASSUME refusals' = 0 PROVE Recovery'
  <2>1. ASSUME NEW i \in 1..Len(frameHistory') PROVE i <= Len(frameHistory') - refusals'
    <3>1. frameHistory' \in Seq(Frame)
      BY TypingStep DEF Typing, TypeOK
    <3> QED
      BY <1>z, <3>1
  <2> QED
    BY <1>z, <2>1, SizeIsNat DEF Recovery, HistoryRecovers
<1>1. ASSUME BeginInference PROVE Recovery'
  BY <1>1, <1>z DEF BeginInference
<1>2. ASSUME RefuseRequest PROVE Recovery'
  <2> DEFINE frame == Head(imageQueue)
  <2>1. /\ imageQueue # <<>> /\ ~Sendable(frame) /\ Remember(frame)
        /\ phase = "idle" /\ phase' = "idle"
        /\ refusals' = CASE frame.kind = "jpeg"    -> refusals + 1
                         [] frame.kind = "empty"   -> refusals
                         [] frame.kind = "invalid" -> 0
    BY <1>2 DEF RefuseRequest, StartImage
  <2>2. frame \in Frame /\ frame.kind \in {"jpeg", "invalid", "empty"}
    BY <1>t, <2>1, TakeImage, ControllerAssumption DEF Frame
  <2> HIDE DEF frame
  <2>3. CASE frame.kind = "empty"
    BY <1>t, <1>u, <2>1, <2>2, <2>3, RememberElements
  <2>4. CASE frame.kind = "invalid"
    BY <1>z, <2>1, <2>4
  <2>5. CASE frame.kind = "jpeg"
    <3>1. refusals' = refusals + 1
      BY <2>1, <2>5
    <3>2. PICK d \in Nat : Shifted(frameHistory, frame, frameHistory', d)
      BY <1>t, <2>1, <2>2, <2>5, RememberElements
    <3>3. ASSUME NEW i \in 1..Len(frameHistory'), frameHistory'[i].kind # "jpeg"
          PROVE  i <= Len(frameHistory') - refusals'
      <4>1. i + d \in 1..Len(frameHistory) /\ frameHistory'[i] = frameHistory[i + d]
        BY <2>5, <3>2, <3>3 DEF Shifted
      <4>2. i + d <= Len(frameHistory) - refusals
        BY <3>3, <4>1 DEF Recovery
      <4> QED
        BY <1>t, <3>1, <3>2, <4>2 DEF Shifted
    <3>4. ASSUME HistorySize <= MaxHistoryImages PROVE refusals' <= Larger(0, HistorySize)
      <4>1. Len(frameHistory) <= MaxHistoryImages /\ Larger(0, HistorySize) \in Nat
        BY <1>t, <3>4, SizeIsNat, ControllerAssumption DEF Larger, Less
      <4>2. PICK i \in 1..Len(frameHistory) : frameHistory[i].kind # "jpeg"
        BY <2>1, <2>5, <4>1 DEF Sendable
      <4>3. i <= Len(frameHistory) - refusals
        BY <4>2 DEF Recovery
      <4> QED
        BY <1>t, <3>1, <4>1, <4>3
    <3> QED
      BY <2>1, <3>3, <3>4 DEF Recovery, HistoryRecovers
  <2> QED
    BY <2>2, <2>3, <2>4, <2>5
<1>3. ASSUME FailInference \/ AcceptReply, phase \in {"waiting", "answered"} PROVE Recovery'
  BY <1>3, <1>z DEF FailInference, AcceptReply, Recovery
<1>4. ASSUME NEW kind \in FrameKinds, PublishFrame(kind) PROVE Recovery'
  BY <1>4, <1>u DEF PublishFrame, learntVars
<1>5. ASSUME SkipImage \/ TakeTwist \/ EndPulse \/ OnWatchdogTimer \/ Interrupt \/ Tick
      PROVE  Recovery'
  BY <1>5, <1>u DEF SkipImage, TakeTwist, EndPulse, OnWatchdogTimer, Interrupt, Tick, learntVars
<1>6. ASSUME NEW session \in Sessions, NEW step \in 0..MaxFrames, NEW body \in Bodies,
             ServerReplies(session, step, body)
      PROVE  Recovery'
  BY <1>6, <1>u DEF ServerReplies, learntVars
<1>7. ASSUME UNCHANGED vars PROVE Recovery'
  BY <1>7, <1>u DEF vars, learntVars
<1> QED
  BY <1>1, <1>2, <1>3, <1>4, <1>5, <1>6, <1>7
  DEF Next, Controller, OnImage, Arrivals, InferenceFails, RejectReply, AnswerWithHalt,
      StartPulse, AcceptReply

(* A frame the service would refuse spoils at most HistorySize requests for *)
(* good frames, provided the service accepts a history of that size at all. *)
THEOREM HistoryRecoversHolds == Safety => []HistoryRecovers
<1>1. Recovery => HistoryRecovers
  BY DEF Recovery
<1> QED
  BY <1>1, TypingInit, TypingStep, RecoveryInit, RecoveryStep, PTL DEF Safety
=============================================================================
