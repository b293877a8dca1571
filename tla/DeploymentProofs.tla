-------------------------- MODULE DeploymentProofs --------------------------
(***************************************************************************)
(* The safety of Deployment, for every value of the parameters.  Each step *)
(* of the deployment is a step of the controller, of the service, or of    *)
(* both, so that what is proved of the two holds of it; what relates the   *)
(* two is proved here.                                                     *)
(***************************************************************************)
EXTENDS Deployment, RemoteControllerProofs

(* A number below those of all frames that wait or are still to come.       *)
Past(n) == n <= published /\ \A i \in 1..Len(imageQueue) : n < imageQueue[i].id

(* Each step of the session uses up a frame.                                *)
StepsBelowFrames ==
    /\ Past(stepIndex)
    /\ phase \in {"waiting", "answered"} => stepIndex < request.frame.id

(* A frame that waits, or is still to come, has no connection yet; that of  *)
(* the frame being asked about carries its request or does not exist.       *)
ConnectionsBelowFrames == \A c \in Connections : threads[c] # "idle" => Past(c)
CarriesRequest ==
    phase \in {"waiting", "answered"} =>
        threads[Connection] = "idle" \/ call[Connection] = CallOf(request)

Joined ==
    /\ StepsBelowFrames /\ ConnectionsBelowFrames /\ CarriesRequest
    /\ AnswersThisFrame /\ AnswerIsUsed /\ OneConnection

DeploymentInvariant ==
    Typing /\ HistoryOrder /\ Service!ServiceInvariant /\ Joined

-----------------------------------------------------------------------------
(* What is proved of the service holds of this one.                         *)
LEMMA ServiceApplies ==
    /\ Service!ProtocolAssumption /\ Service!ImageAssumption
    /\ Service!MarkerAssumption /\ Service!ServiceAssumption
BY ServiceAssumptions

LEMMA ServiceKeeps ==
    Service!ServiceInvariant /\ [Service!Next]_Service!vars => Service!ServiceInvariant'
BY ServiceApplies, Service!NextKeepsInvariant
   DEF Service!ProtocolAssumption, Service!ImageAssumption, Service!MarkerAssumption,
       Service!ServiceAssumption

LEMMA ServiceStarts == Service!Init => Service!ServiceInvariant
BY ServiceApplies, Service!InitInvariant
   DEF Service!ProtocolAssumption, Service!ImageAssumption, Service!MarkerAssumption,
       Service!ServiceAssumption

(* The connection of the request being answered.                            *)
LEMMA ConnectionExists ==
    ASSUME Typing, phase \in {"waiting", "answered"}
    PROVE  /\ request.frame \in Frame /\ request.step = stepIndex
           /\ Connection \in Connections
BY DEF Typing, Exchange, Request, Frame, Connection, Connections

LEMMA RequestSent ==
    ASSUME Typing, HistoryOrder, StepsBelowFrames, BeginInference
    PROVE  /\ CallOf(request') \in Calls
           /\ Head(imageQueue).id \in Connections
           /\ request' = [step |-> stepIndex, frame |-> Head(imageQueue), history |-> frameHistory]
<1>1. /\ imageQueue # <<>> /\ Sendable(Head(imageQueue))
      /\ request' = [step |-> stepIndex, frame |-> Head(imageQueue), history |-> frameHistory]
  BY DEF BeginInference, StartImage
<1>2. Head(imageQueue) \in Frame
  BY <1>1, TakeImage DEF Typing
<1>3. Head(imageQueue).id \in Connections
  BY <1>2 DEF Frame, Connections
<1>4. stepIndex \in 0..MaxFrames
  BY ControllerAssumption DEF Typing, TypeOK, StepsBelowFrames, Past
<1>5. frameHistory \in UNION {[1..n -> Frame] : n \in 0..MaxHistoryImages}
  <2>1. frameHistory \in Seq(Frame) /\ Len(frameHistory) <= MaxHistoryImages
    BY <1>1 DEF Typing, TypeOK, Sendable
  <2>2. Len(frameHistory) \in 0..MaxHistoryImages /\ frameHistory \in [1..Len(frameHistory) -> Frame]
    BY <2>1, ControllerAssumption
  <2> QED
    BY <2>2
<1> DEFINE requests == [step : 0..MaxFrames, frame : Frame,
                        history : UNION {[1..n -> Frame] : n \in 0..MaxHistoryImages}]
<1>6. request' \in requests
  BY <1>1, <1>2, <1>4, <1>5
<1>7. CallOf(request') \in Calls
  BY <1>6 DEF Calls
<1> QED
  BY <1>1, <1>3, <1>7

-----------------------------------------------------------------------------
(* The reply that has come back over a connection.                          *)
LEMMA ReplyHeard ==
    ASSUME DeploymentInvariant, phase = "waiting", received[Connection] # <<>>,
           received[Connection][1].payload # Absent
    PROVE  LET payload == received[Connection][1].payload IN
           /\ threads[Connection] = "done"
           /\ call[Connection] = CallOf(request)
           /\ payload.session = "mine" /\ payload.step = request.step
<1>1. Connection \in Connections
  BY ConnectionExists DEF DeploymentInvariant
<1>2. Service!Exchange(Connection)
  BY <1>1 DEF DeploymentInvariant, Service!ServiceInvariant
<1>3. threads[Connection] = "done"
  BY <1>2 DEF Service!Exchange
<1>4. call[Connection] = CallOf(request)
  BY <1>3 DEF DeploymentInvariant, Joined, CarriesRequest
<1>5. Service!Matches(received[Connection][1], call[Connection].body)
  BY <1>2, <1>3 DEF Service!Exchange, Service!Fit
<1>6. /\ CallOf(request).body.session = "mine"
      /\ CallOf(request).body.step = request.step
  BY DEF CallOf, Wire!RequestPayloadOf, MessageOf
<1> QED
  BY <1>3, <1>4, <1>5, <1>6 DEF Service!Matches

(* Every step of the deployment is a step of its controller.                *)
LEMMA ControllerStep ==
    DeploymentInvariant /\ [DeploymentNext]_deploymentVars => [Next]_vars
<1> SUFFICES ASSUME DeploymentInvariant, [DeploymentNext]_deploymentVars
             PROVE  [Next]_vars
  OBVIOUS
<1>1. CASE Ask
  BY <1>1 DEF Ask, Next, Controller, OnImage
<1>2. CASE HearReply
  <2>1. phase = "waiting" /\ PostInferenceReturns(received[Connection][1].payload)
        /\ received[Connection] # <<>>
    BY <1>2 DEF HearReply, Hears
  <2> DEFINE payload == received[Connection][1].payload
  <2>2. /\ payload # Absent
        /\ \E body \in Bodies : ServerReplies(SessionOf(payload), payload.step, body)
    BY <2>1 DEF PostInferenceReturns
  <2>3. payload.session = "mine" /\ payload.step = request.step
    BY <2>1, <2>2, ReplyHeard
  <2>4. SessionOf(payload) \in Sessions
    BY DEF SessionOf, Sessions
  <2>5. payload.step \in 0..MaxFrames
    BY <2>1, <2>3, ConnectionExists, ControllerAssumption
       DEF DeploymentInvariant, Joined, StepsBelowFrames, Past, Typing, TypeOK
  <2> QED
    BY <2>2, <2>4, <2>5 DEF Next, Arrivals
<1>3. CASE Fails \/ Dies
  BY <1>3 DEF Fails, Dies, Next, Controller, OnImage
<1>4. CASE ControllerAlone
  BY <1>4 DEF ControllerAlone, Next, Controller, OnImage, Arrivals
<1>5. CASE ServiceAlone \/ UNCHANGED deploymentVars
  BY <1>5 DEF ServiceAlone, deploymentVars
<1> QED
  BY <1>1, <1>2, <1>3, <1>4, <1>5 DEF DeploymentNext

LEMMA ServiceUnchanged == UNCHANGED serviceVars => UNCHANGED Service!vars
BY DEF serviceVars, Service!vars, Service!clientVars, Service!backendVars

(* And every step is a step of its service.                                 *)
LEMMA ServiceStep ==
    DeploymentInvariant /\ [DeploymentNext]_deploymentVars => [Service!Next]_Service!vars
<1> SUFFICES ASSUME DeploymentInvariant, [DeploymentNext]_deploymentVars
             PROVE  [Service!Next]_Service!vars
  OBVIOUS
<1>1. CASE Ask
  <2>1. CASE UNCHANGED serviceVars
    BY <2>1, ServiceUnchanged
  <2>2. CASE Service!Connect(Head(imageQueue).id, CallOf(request'))
    <3>1. CallOf(request') \in Calls /\ Head(imageQueue).id \in Connections
      BY <1>1, RequestSent DEF Ask, DeploymentInvariant, Joined
    <3>2. Service!Client(Head(imageQueue).id)
      BY <2>2, <3>1 DEF Service!Client
    <3> QED
      BY <3>1, <3>2 DEF Service!Next
  <2> QED
    BY <1>1, <2>1, <2>2 DEF Ask
<1>2. CASE Fails \/ Dies
  <2>1. HangUp
    BY <1>2 DEF Fails, Dies
  <2>2. CASE UNCHANGED serviceVars
    BY <2>2, ServiceUnchanged
  <2>3. CASE phase = "waiting" /\ Service!Leave(Connection)
    <3>1. Connection \in Connections
      BY <2>3, ConnectionExists DEF DeploymentInvariant
    <3> QED
      BY <2>3, <3>1 DEF Service!Client, Service!Next
  <2> QED
    BY <2>1, <2>2, <2>3 DEF HangUp
<1>3. CASE HearReply \/ ControllerAlone \/ UNCHANGED deploymentVars
  BY <1>3, ServiceUnchanged DEF HearReply, ControllerAlone, deploymentVars
<1>4. CASE ServiceAlone
  BY <1>4 DEF ServiceAlone, Service!Next
<1> QED
  BY <1>1, <1>2, <1>3, <1>4 DEF DeploymentNext

-----------------------------------------------------------------------------
(* What the steps do to the parts that join the two.                        *)
LEMMA PastStays ==
    ASSUME Typing, HistoryOrder, [Next]_vars, NEW n \in Int, Past(n)
    PROVE  n <= published' /\ \A i \in 1..Len(imageQueue') : n < imageQueue'[i].id
<1>t. /\ TypeOK /\ published \in Int /\ imageQueue \in Seq(Frame)
      /\ n <= published /\ \A i \in 1..Len(imageQueue) : n < imageQueue[i].id
  <2>1. TypeOK
    BY DEF Typing
  <2>2. n <= published /\ \A i \in 1..Len(imageQueue) : n < imageQueue[i].id
    BY DEF Past
  <2> QED
    BY <2>1, <2>2 DEF TypeOK
<1>1. CASE UNCHANGED <<published, imageQueue>>
  BY <1>1, <1>t
<1>2. CASE imageQueue # <<>> /\ imageQueue' = Tail(imageQueue) /\ published' = published
  <2>1. \A i \in 1..Len(Tail(imageQueue)) :
            i + 1 \in 1..Len(imageQueue) /\ Tail(imageQueue)[i] = imageQueue[i + 1]
    BY <1>2, <1>t
  <2> QED
    BY <1>2, <1>t, <2>1
<1>3. ASSUME NEW kind \in FrameKinds, PublishFrame(kind)
      PROVE  n <= published' /\ \A i \in 1..Len(imageQueue') : n < imageQueue'[i].id
  <2> DEFINE frame == [id |-> published + 1, kind |-> kind]
  <2>1. frame \in Frame /\ frame.id = published + 1
    BY <1>3, <1>t, ControllerAssumption DEF PublishFrame, TypeOK, Frame
  <2>2. imageQueue' = KeepLast(Append(imageQueue, frame), QueueDepth) /\ published' = published + 1
    BY <1>3 DEF PublishFrame
  <2> HIDE DEF frame
  <2>3. PICK d \in Nat : Shifted(imageQueue, frame, imageQueue', d)
    BY <1>t, <2>1, <2>2, KeepLastShift, ControllerAssumption DEF TypeOK
  <2>4. Increasing(imageQueue) /\ \A j \in 1..Len(imageQueue) : imageQueue[j].id < frame.id
    BY <1>t, <2>1, FrameIds DEF HistoryOrder
  <2>5. \A i \in 1..Len(imageQueue') :
            imageQueue'[i] = frame \/ \E k \in 1..Len(imageQueue) : imageQueue'[i] = imageQueue[k]
    BY <1>t, <2>1, <2>3, <2>4, ShiftOrder
  <2> QED
    BY <1>t, <2>1, <2>2, <2>5
<1> QED
  BY <1>1, <1>2, <1>3
     DEF Next, Controller, OnImage, Arrivals, SkipImage, BeginInference, RefuseRequest, StartImage,
         InferenceFails, RejectReply, FailInference, AnswerWithHalt, StartPulse, AcceptReply, EndPulse,
         OnWatchdogTimer, Interrupt, Tick, TakeTwist, ServerReplies, cameraVars, vars

(* What becomes of the request of the image callback.                       *)
LEMMA RequestSteps ==
    ASSUME [Next]_vars
    PROVE  \/ BeginInference
           \/ AcceptReply /\ phase' \in {"idle", "pulsing"}
           \/ /\ stepIndex' = stepIndex
              /\ phase' \in {"waiting", "answered"} =>
                    phase \in {"waiting", "answered"} /\ request' = request
BY DEF Next, Controller, OnImage, Arrivals, SkipImage, RefuseRequest, StartImage, PublishFrame,
       InferenceFails, RejectReply, FailInference, AnswerWithHalt, StartPulse, EndPulse,
       OnWatchdogTimer, Interrupt, Tick, TakeTwist, ServerReplies, vars, exchangeVars, learntVars

LEMMA AloneSteps ==
    ASSUME ControllerAlone
    PROVE  /\ UNCHANGED serviceVars
           /\ phase' = "waiting" <=> phase = "waiting"
           /\ phase' = "waiting" => request' = request
           /\ phase' = "answered" => phase = "answered" /\ request' = request /\ reply' = reply
<1>1. CASE \E kind \in FrameKinds : PublishFrame(kind)
  BY <1>1 DEF ControllerAlone, PublishFrame, exchangeVars
<1>2. CASE SkipImage \/ OnWatchdogTimer \/ Tick \/ TakeTwist
  BY <1>2 DEF ControllerAlone, SkipImage, OnWatchdogTimer, Tick, TakeTwist, exchangeVars
<1>3. CASE RefuseRequest
  BY <1>3 DEF ControllerAlone, RefuseRequest, StartImage
<1>4. CASE RejectReply \/ AnswerWithHalt \/ StartPulse \/ EndPulse
  BY <1>4
     DEF ControllerAlone, RejectReply, FailInference, AnswerWithHalt, AcceptReply, StartPulse, EndPulse
<1> QED
  BY <1>1, <1>2, <1>3, <1>4 DEF ControllerAlone

(* The service makes no connections, and leaves alone one that is done.     *)
LEMMA ServiceSteps ==
    ASSUME Service!ServiceInvariant, ServiceAlone, NEW c \in Connections
    PROVE  /\ UNCHANGED vars /\ call' = call
           /\ open'[c] => open[c]
           /\ threads[c] = "idle" => threads'[c] = "idle"
           /\ threads[c] = "done" => threads'[c] = "done" /\ received'[c] = received[c]
<1>t. /\ threads \in [Connections -> Service!Phases] /\ open \in [Connections -> BOOLEAN]
      /\ received \in [Connections -> Seq(Service!Reply)]
  BY DEF Service!ServiceInvariant, Service!TypeOK
<1> USE DEF Service!At, Service!Goto, Service!clientVars, Service!backendVars
<1>1. CASE (Service!Stop \/ Service!Start) /\ UNCHANGED vars
  BY <1>1, <1>t DEF Service!Stop, Service!Start
<1>2. ASSUME NEW d \in Connections, Service!Handle(d), UNCHANGED vars
      PROVE  /\ call' = call /\ (open'[c] => open[c])
             /\ threads[c] = "idle" => threads'[c] = "idle"
             /\ threads[c] = "done" => threads'[c] = "done" /\ received'[c] = received[c]
  BY <1>2, <1>t
     DEF Service!Handle, Service!Accept, Service!DoGet, Service!RefuseHeaders, Service!BeginReading,
         Service!ReadBody, Service!ReadFails, Service!CheckModel, Service!StoreProcessor,
         Service!TakeModel, Service!TakeProcessor, Service!CheckDetector, Service!Write,
         Service!WriteRefusal, Service!WriteToNobody, Service!Fail
<1>3. ASSUME NEW d \in Connections, Service!Compute(d) \/ Service!Hang(d), UNCHANGED vars
      PROVE  /\ call' = call /\ (open'[c] => open[c])
             /\ threads[c] = "idle" => threads'[c] = "idle"
             /\ threads[c] = "done" => threads'[c] = "done" /\ received'[c] = received[c]
  BY <1>3, <1>t
     DEF Service!Compute, Service!LoadFails, Service!StoreModel, Service!AskDetector,
         Service!StoreDetector, Service!InferRaises, Service!Answer, Service!Hang, Service!Fail
<1> QED
  BY <1>1, <1>2, <1>3 DEF ServiceAlone

-----------------------------------------------------------------------------
(* The inductive step, one part of Joined at a time.                        *)
LEMMA StepsBelowFramesKept ==
    DeploymentInvariant /\ [Next]_vars => StepsBelowFrames'
<1> SUFFICES ASSUME DeploymentInvariant, [Next]_vars PROVE StepsBelowFrames'
  OBVIOUS
<1>t. /\ Typing /\ TypeOK /\ HistoryOrder /\ StepsBelowFrames
      /\ stepIndex \in Int /\ imageQueue \in Seq(Frame) /\ published \in Int
  BY ControllerAssumption DEF DeploymentInvariant, Joined, Typing, TypeOK
<1>p. stepIndex <= published' /\ \A i \in 1..Len(imageQueue') : stepIndex < imageQueue'[i].id
  BY <1>t, PastStays DEF StepsBelowFrames
<1>1. CASE BeginInference
  <2>1. /\ imageQueue # <<>> /\ request'.frame = Head(imageQueue) /\ stepIndex' = stepIndex
    BY <1>1 DEF BeginInference, StartImage
  <2>2. stepIndex < Head(imageQueue).id
    BY <1>t, <2>1 DEF StepsBelowFrames, Past
  <2> QED
    BY <1>p, <2>1, <2>2 DEF StepsBelowFrames, Past
<1>2. CASE AcceptReply /\ phase' \in {"idle", "pulsing"}
  <2>1. /\ stepIndex' = stepIndex + 1 /\ phase = "answered"
        /\ UNCHANGED <<published, imageQueue>>
    BY <1>2 DEF AcceptReply, cameraVars
  <2>2. /\ stepIndex < request.frame.id /\ request.frame.id \in Int
        /\ request.frame.id <= published
        /\ \A i \in 1..Len(imageQueue) : request.frame.id < imageQueue[i].id
    BY <1>t, <2>1, ConnectionExists DEF StepsBelowFrames, HistoryOrder, Frame
  <2>3. \A i \in 1..Len(imageQueue) : imageQueue[i].id \in Int
    BY <1>t, FrameIds
  <2> QED
    BY <1>t, <1>2, <2>1, <2>2, <2>3 DEF StepsBelowFrames, Past
<1>3. CASE /\ stepIndex' = stepIndex
           /\ phase' \in {"waiting", "answered"} =>
                 phase \in {"waiting", "answered"} /\ request' = request
  BY <1>t, <1>p, <1>3 DEF StepsBelowFrames, Past
<1> QED
  BY <1>1, <1>2, <1>3, RequestSteps

(* The frame a request is about to be made for has no connection yet.       *)
LEMMA NoConnectionYet ==
    ASSUME DeploymentInvariant, BeginInference
    PROVE  /\ Head(imageQueue).id \in Connections
           /\ threads[Head(imageQueue).id] = "idle"
<1>1. imageQueue # <<>> /\ Head(imageQueue).id \in Connections
  BY RequestSent DEF DeploymentInvariant, Joined, BeginInference, StartImage
<1>2. imageQueue \in Seq(Frame) /\ Head(imageQueue) = imageQueue[1] /\ 1 \in 1..Len(imageQueue)
  BY <1>1 DEF DeploymentInvariant, Typing, TypeOK
<1>3. ~Past(Head(imageQueue).id)
  BY <1>1, <1>2 DEF Past, Connections
<1> QED
  BY <1>1, <1>3 DEF DeploymentInvariant, Joined, ConnectionsBelowFrames

(* Asking, seen from the connections.                                       *)
LEMMA AskSteps ==
    ASSUME DeploymentInvariant, Ask, NEW c \in Connections
    PROVE  /\ phase = "idle" /\ phase' = "waiting" /\ Connection' = Head(imageQueue).id
           /\ \/ UNCHANGED <<threads, call, open>>
              \/ /\ call'[Connection'] = CallOf(request')
                 /\ c # Connection' => threads'[c] = threads[c] /\ open'[c] = open[c]
<1>1. /\ phase = "idle" /\ phase' = "waiting" /\ Connection' = Head(imageQueue).id
      /\ BeginInference
  BY RequestSent DEF Ask, BeginInference, StartImage, Connection
<1>2. /\ threads \in [Connections -> Service!Phases] /\ open \in [Connections -> BOOLEAN]
      /\ call \in [Connections -> Calls \cup {None}] /\ Connection' \in Connections
  BY <1>1, NoConnectionYet DEF DeploymentInvariant, Service!ServiceInvariant, Service!TypeOK
<1>3. CASE UNCHANGED serviceVars
  BY <1>1, <1>3 DEF serviceVars
<1>4. CASE Service!Connect(Head(imageQueue).id, CallOf(request'))
  BY <1>1, <1>2, <1>4 DEF Service!Connect, Service!Goto
<1> QED
  BY <1>1, <1>3, <1>4 DEF Ask

(* Hanging up closes what is open of the request's connection.              *)
LEMMA HangUpSteps ==
    ASSUME DeploymentInvariant, HangUp, NEW c \in Connections
    PROVE  /\ threads' = threads /\ call' = call
           /\ open'[c] => open[c] /\ (phase = "waiting" => c # Connection \/ threads[c] = "done")
<1>1. CASE phase = "waiting" /\ open[Connection] /\ threads[Connection] # "done"
  <2>1. Connection \in Connections /\ open \in [Connections -> BOOLEAN]
    BY <1>1, ConnectionExists DEF DeploymentInvariant, Service!ServiceInvariant, Service!TypeOK
  <2> QED
    BY <1>1, <2>1 DEF HangUp, Service!Leave
<1>2. CASE ~(phase = "waiting" /\ open[Connection] /\ threads[Connection] # "done")
  BY <1>2 DEF HangUp, serviceVars
<1> QED
  BY <1>1, <1>2

LEMMA ConnectionsBelowFramesKept ==
    DeploymentInvariant /\ [DeploymentNext]_deploymentVars => ConnectionsBelowFrames'
<1> SUFFICES ASSUME DeploymentInvariant, [DeploymentNext]_deploymentVars,
                    NEW c \in Connections, threads'[c] # "idle"
             PROVE  Past(c)'
  BY DEF ConnectionsBelowFrames
<1>n. c \in Int /\ [Next]_vars /\ Typing /\ HistoryOrder
  BY ControllerStep DEF Connections, DeploymentInvariant
<1>1. CASE threads[c] # "idle"
  <2>1. Past(c)
    BY <1>1 DEF DeploymentInvariant, Joined, ConnectionsBelowFrames
  <2> QED
    BY <1>n, <2>1, PastStays DEF Past
<1>2. CASE threads[c] = "idle"
  <2>1. CASE Ask
    <3>1. c = Head(imageQueue).id
      BY <1>2, <2>1, AskSteps
    <3>2. /\ imageQueue # <<>> /\ imageQueue' = Tail(imageQueue) /\ published' = published
      BY <2>1 DEF Ask, BeginInference, StartImage
    <3> QED
      BY <1>n, <3>1, <3>2, TakeImageOrder DEF Typing, Past
  <2>2. CASE Fails \/ Dies
    BY <1>2, <2>2, HangUpSteps DEF Fails, Dies
  <2>3. CASE HearReply \/ ControllerAlone \/ UNCHANGED deploymentVars
    BY <1>2, <2>3 DEF HearReply, ControllerAlone, deploymentVars, serviceVars
  <2>4. CASE ServiceAlone
    BY <1>2, <2>4, ServiceSteps DEF DeploymentInvariant
  <2> QED
    BY <2>1, <2>2, <2>3, <2>4 DEF DeploymentNext
<1> QED
  BY <1>1, <1>2

LEMMA CarriesRequestKept ==
    DeploymentInvariant /\ [DeploymentNext]_deploymentVars => CarriesRequest'
<1> SUFFICES ASSUME DeploymentInvariant, [DeploymentNext]_deploymentVars,
                    phase' \in {"waiting", "answered"}
             PROVE  threads'[Connection'] = "idle" \/ call'[Connection'] = CallOf(request')
  BY DEF CarriesRequest, CallOf, MessageOf, FileOf
<1>c. CarriesRequest /\ Typing
  BY DEF DeploymentInvariant, Joined
<1>1. CASE Ask
  <2>1. Ask /\ BeginInference
    BY <1>1 DEF Ask
  <2>2. Connection' \in Connections /\ threads[Connection'] = "idle"
    BY <2>1, AskSteps, NoConnectionYet
  <2> QED
    BY <2>1, <2>2, AskSteps
<1>2. CASE UNCHANGED <<request, threads, call>> /\ phase \in {"waiting", "answered"}
  BY <1>c, <1>2 DEF CarriesRequest, Connection
<1>3. CASE HearReply
  BY <1>2, <1>3 DEF HearReply, PostInferenceReturns, ServerReplies, serviceVars
<1>4. CASE Fails \/ Dies
  BY <1>4 DEF Fails, Dies, InferenceFails, FailInference, Interrupt
<1>5. CASE ControllerAlone
  BY <1>2, <1>5, AloneSteps DEF serviceVars
<1>6. CASE ServiceAlone
  <2>1. UNCHANGED vars
    BY <1>6 DEF ServiceAlone
  <2>2. phase \in {"waiting", "answered"} /\ UNCHANGED <<phase, request>>
    BY <2>1 DEF vars, exchangeVars
  <2>3. Connection' = Connection /\ Connection \in Connections
    BY <1>c, <2>2, ConnectionExists DEF Connection
  <2>4. /\ call' = call
        /\ threads[Connection] = "idle" => threads'[Connection] = "idle"
    BY <1>6, <2>3, ServiceSteps DEF DeploymentInvariant
  <2> QED
    BY <1>c, <2>2, <2>3, <2>4 DEF CarriesRequest
<1>7. CASE UNCHANGED deploymentVars
  BY <1>2, <1>7 DEF deploymentVars, vars, exchangeVars, serviceVars
<1> QED
  BY <1>1, <1>3, <1>4, <1>5, <1>6, <1>7 DEF DeploymentNext

LEMMA AnswersKept ==
    DeploymentInvariant /\ [DeploymentNext]_deploymentVars => (AnswersThisFrame /\ AnswerIsUsed)'
<1> SUFFICES ASSUME DeploymentInvariant, [DeploymentNext]_deploymentVars, phase' = "answered"
             PROVE  /\ received'[Connection'] # <<>> /\ call'[Connection'] = CallOf(request')
                    /\ reply'.step = received'[Connection'][1].payload.step
                    /\ reply'.session = "mine" /\ reply'.step = request'.step
  BY DEF AnswersThisFrame, AnswerIsUsed, Accepts, CallOf, MessageOf, FileOf
<1>c. AnswersThisFrame /\ AnswerIsUsed /\ Typing
  BY DEF DeploymentInvariant, Joined
<1>1. CASE UNCHANGED <<request, reply, received, call>> /\ phase = "answered"
  BY <1>c, <1>1 DEF AnswersThisFrame, AnswerIsUsed, Accepts, Connection
<1>2. CASE HearReply
  <2> DEFINE payload == received[Connection][1].payload
  <2>1. /\ phase = "waiting" /\ received[Connection] # <<>> /\ payload # Absent
        /\ \E body \in Bodies : ServerReplies(SessionOf(payload), payload.step, body)
        /\ UNCHANGED serviceVars
    BY <1>2 DEF HearReply, Hears, PostInferenceReturns
  <2>2. /\ request' = request /\ reply'.session = SessionOf(payload)
        /\ reply'.step = payload.step
    BY <2>1 DEF ServerReplies
  <2>3. /\ call[Connection] = CallOf(request)
        /\ payload.session = "mine" /\ payload.step = request.step
    BY <2>1, ReplyHeard
  <2> QED
    BY <2>1, <2>2, <2>3 DEF SessionOf, Connection, serviceVars
<1>3. CASE Ask \/ Fails \/ Dies
  BY <1>3, AskSteps DEF Ask, Fails, Dies, BeginInference, InferenceFails, FailInference, Interrupt
<1>4. CASE ControllerAlone
  BY <1>1, <1>4, AloneSteps DEF serviceVars
<1>5. CASE ServiceAlone
  <2>1. UNCHANGED <<phase, request, reply>>
    BY <1>5 DEF ServiceAlone, vars, exchangeVars
  <2>2. Connection' = Connection /\ Connection \in Connections /\ phase = "answered"
    BY <1>c, <2>1, ConnectionExists DEF Connection
  <2>3. received[Connection] # <<>>
    BY <1>c, <2>2 DEF AnswersThisFrame
  <2>4. threads[Connection] = "done"
    BY <2>2, <2>3 DEF DeploymentInvariant, Service!ServiceInvariant, Service!Exchange
  <2>5. call' = call /\ received'[Connection] = received[Connection]
    BY <1>5, <2>2, <2>4, ServiceSteps DEF DeploymentInvariant
  <2> QED
    BY <1>c, <2>1, <2>2, <2>5 DEF AnswersThisFrame, AnswerIsUsed, Accepts
<1>6. CASE UNCHANGED deploymentVars
  BY <1>1, <1>6 DEF deploymentVars, vars, exchangeVars, serviceVars
<1> QED
  BY <1>2, <1>3, <1>4, <1>5, <1>6 DEF DeploymentNext

LEMMA OneConnectionKept ==
    DeploymentInvariant /\ [DeploymentNext]_deploymentVars => OneConnection'
<1> SUFFICES ASSUME DeploymentInvariant, [DeploymentNext]_deploymentVars,
                    NEW c \in Connections, open'[c], threads'[c] # "done"
             PROVE  phase' = "waiting" /\ c = Connection'
  BY DEF OneConnection
<1>c. /\ open[c] /\ threads[c] # "done" => phase = "waiting" /\ c = Connection
      /\ Typing /\ Service!ServiceInvariant
  BY DEF DeploymentInvariant, Joined, OneConnection
<1>1. CASE Ask
  BY <1>1, <1>c, AskSteps
<1>2. CASE Fails \/ Dies
  BY <1>2, <1>c, HangUpSteps DEF Fails, Dies
<1>3. CASE HearReply
  <2>1. phase = "waiting" /\ received[Connection] # <<>> /\ UNCHANGED serviceVars
    BY <1>3 DEF HearReply, Hears
  <2>2. threads[Connection] = "done"
    BY <1>c, <2>1, ConnectionExists DEF Service!ServiceInvariant, Service!Exchange
  <2> QED
    BY <1>c, <2>1, <2>2 DEF serviceVars
<1>4. CASE ControllerAlone
  BY <1>4, <1>c, AloneSteps DEF serviceVars, Connection
<1>5. CASE ServiceAlone
  <2>1. UNCHANGED <<phase, request>>
    BY <1>5 DEF ServiceAlone, vars, exchangeVars
  <2>2. open[c] /\ threads[c] # "done"
    BY <1>5, <1>c, ServiceSteps
  <2> QED
    BY <1>c, <2>1, <2>2 DEF Connection
<1>6. CASE UNCHANGED deploymentVars
  BY <1>6, <1>c DEF deploymentVars, vars, exchangeVars, serviceVars, Connection
<1> QED
  BY <1>1, <1>2, <1>3, <1>4, <1>5, <1>6 DEF DeploymentNext

-----------------------------------------------------------------------------
(* The invariant, and what follows from it.                                 *)
LEMMA DeploymentStarts == DeploymentInit => DeploymentInvariant
<1> SUFFICES ASSUME DeploymentInit PROVE DeploymentInvariant
  OBVIOUS
<1>1. Typing /\ HistoryOrder /\ Service!ServiceInvariant
  BY TypingInit, HistoryOrderInit, ServiceStarts DEF DeploymentInit
<1>2. Joined
  BY DEF DeploymentInit, Init, Service!Init, Joined, StepsBelowFrames, Past,
         ConnectionsBelowFrames, CarriesRequest, AnswersThisFrame, AnswerIsUsed, OneConnection
<1> QED
  BY <1>1, <1>2 DEF DeploymentInvariant

LEMMA DeploymentKeeps ==
    DeploymentInvariant /\ [DeploymentNext]_deploymentVars => DeploymentInvariant'
<1> SUFFICES ASSUME DeploymentInvariant, [DeploymentNext]_deploymentVars
             PROVE  DeploymentInvariant'
  OBVIOUS
<1>1. [Next]_vars /\ [Service!Next]_Service!vars
  BY ControllerStep, ServiceStep
<1>2. Typing' /\ HistoryOrder' /\ Service!ServiceInvariant'
  BY <1>1, TypingStep, HistoryOrderStep, ServiceKeeps DEF DeploymentInvariant
<1>3. Joined'
  BY <1>1, StepsBelowFramesKept, ConnectionsBelowFramesKept, CarriesRequestKept, AnswersKept,
     OneConnectionKept DEF Joined
<1> QED
  BY <1>2, <1>3 DEF DeploymentInvariant

THEOREM DeploymentInvariantHolds == DeploymentSafety => []DeploymentInvariant
BY DeploymentStarts, DeploymentKeeps, PTL DEF DeploymentSafety

(* The controller of a deployment behaves as RemoteController says, with    *)
(* the real service for its environment: what is proved of the controller   *)
(* holds here.                                                              *)
THEOREM ControllerImplemented == DeploymentSafety => Safety
<1>1. DeploymentInit => Init
  BY DEF DeploymentInit
<1> QED
  BY <1>1, ControllerStep, DeploymentInvariantHolds, PTL DEF DeploymentSafety, Safety

(* With the real service at the other end, too, each answer is worth one    *)
(* motion at most, and a halt stands between two of them.                   *)
THEOREM DeploymentImplementsSafeMotion == DeploymentSafety => SafeMotionOf!Safety
BY ControllerImplemented, ImplementsSafeMotionSafety

(* The service behaves as InferenceService says: the vehicle is a client of *)
(* the kind it expects.                                                     *)
THEOREM ServiceImplemented == DeploymentSafety => Service!Safety
<1>1. DeploymentInit => Service!Init
  BY DEF DeploymentInit
<1> QED
  BY <1>1, ServiceStep, DeploymentInvariantHolds, PTL DEF DeploymentSafety, Service!Safety

(* The answer acted on is the service's answer to this very frame, however  *)
(* many attempts at the same step are still being computed.                 *)
THEOREM AnswersThisFrameHolds == DeploymentSafety => []AnswersThisFrame
<1>1. DeploymentInvariant => AnswersThisFrame
  BY DEF DeploymentInvariant, Joined
<1> QED
  BY <1>1, DeploymentInvariantHolds, PTL

(* An answer of the service is never refused by post_inference.             *)
THEOREM AnswerIsUsedHolds == DeploymentSafety => []AnswerIsUsed
<1>1. DeploymentInvariant => AnswerIsUsed
  BY DEF DeploymentInvariant, Joined
<1> QED
  BY <1>1, DeploymentInvariantHolds, PTL

(* The controller listens on at most one connection, whatever it has given  *)
(* up waiting for.                                                          *)
THEOREM OneConnectionHolds == DeploymentSafety => []OneConnection
<1>1. DeploymentInvariant => OneConnection
  BY DEF DeploymentInvariant, Joined
<1> QED
  BY <1>1, DeploymentInvariantHolds, PTL

-----------------------------------------------------------------------------
(* What the controller sends.                                               *)
LEMMA WireApplies == Wire!ProtocolAssumption /\ Wire!ImageAssumption /\ Wire!MarkerAssumption
<1>1. Wire!ProtocolAssumption
  BY ServiceAssumptions DEF Service!ProtocolAssumption, Wire!ProtocolAssumption
<1>2. Wire!ImageAssumption
  BY ServiceAssumptions DEF Service!ImageAssumption, Wire!ImageAssumption, Service!Bytes, Wire!Bytes,
        Service!Base64, Wire!Base64
<1>3. Wire!MarkerAssumption
  BY ServiceAssumptions
  DEF Service!MarkerAssumption, Wire!MarkerAssumption, Service!Versions, Wire!Versions,
      Service!ApiVersion, Wire!ApiVersion, Service!Commands, Wire!Commands, Service!Actions,
      Wire!Actions, Service!Waypoint, Wire!Waypoint, Service!Chunk, Wire!Chunk,
      Service!ErrorBody, Wire!ErrorBody, Service!Codes, Wire!Codes, Service!Strings, Wire!Strings,
      Service!Steps, Wire!Steps
<1> QED
  BY <1>1, <1>2, <1>3

(* The length of a body is a number.                                        *)
LEMMA BodyHasLength ==
    ASSUME NEW m, Len(m.history) \in Nat,
           Wire!WireRequest(m).image.size \in 0..MaxImageBytes,
           \A i \in 1..Len(m.history) : m.history[i].size \in 0..MaxImageBytes
    PROVE  Wire!BodySize(Wire!RequestPayloadOf(m)) \in Nat
<1> DEFINE p == Wire!RequestPayloadOf(m)
           n == Len(m.history)
           k == 4 * ((MaxImageBytes + 2) \div 3)
<1>1. MaxImageBytes \in Nat /\ k \in Nat
  BY WireApplies DEF Wire!ProtocolAssumption
<1>2. ASSUME NEW image, image.size \in 0..MaxImageBytes
      PROVE  Wire!EncodedSize(Wire!EncodeBytes(image)) \in 0..k
  <2>1. 4 * ((image.size + 2) \div 3) \in 0..k
    BY <1>1, <1>2
  <2> HIDE DEF k
  <2> QED
    BY <1>1, <2>1 DEF Wire!EncodedSize, Wire!EncodeBytes
<1>3. /\ Len(p.history) = n
      /\ p.image = Wire!EncodeBytes(Wire!WireRequest(m).image)
      /\ \A i \in 1..n : p.history[i] = Wire!EncodeBytes(m.history[i])
  BY DEF Wire!RequestPayloadOf
<1> HIDE DEF p, k
<1>4. Wire!BodySize(p) \in 0..((n + 1) * k)
  BY <1>1, <1>2, <1>3, WireApplies, Wire!BodySizeBounded
     DEF Wire!ProtocolAssumption, Wire!ImageAssumption, Wire!MarkerAssumption
<1> QED
  BY <1>4 DEF p

(* What BeginInference lets through, the service lets through, too, or      *)
(* refuses for its length.                                                  *)
Verdict(what) ==
    IF what.length <= MaxRequestBodyBytes THEN Wire!Ok ELSE Wire!Error("IMAGE_TOO_LARGE", 413)

(* A file of the camera, if it is a JPEG, is one the client lets through.    *)
FileIsValid(file) ==
    file \in Wire!Bytes /\ file.size \in 0..MaxImageBytes /\ Wire!ValidateJpeg(file) = Wire!Ok

LEMMA JpegIsValid ==
    ASSUME NEW frame \in Frame, frame.kind = "jpeg"
    PROVE  FileIsValid(FileOf(frame))
<1> DEFINE file == FileOf(frame)
<1>1. MaxImageBytes \in Nat /\ JpegBytes[frame.id] \in 4..MaxImageBytes
  BY DeploymentAssumption, WireApplies DEF Frame, Wire!ProtocolAssumption
<1>2. file.jpeg /\ file.size \in 4..MaxImageBytes /\ file \in Wire!Bytes
  <2>1. file = [jpeg |-> TRUE, size |-> JpegBytes[frame.id]]
    BY DEF FileOf
  <2>2. JpegBytes[frame.id] \in Nat /\ JpegBytes[frame.id] >= 4
    BY <1>1
  <2> HIDE DEF file
  <2> QED
    BY <1>1, <2>1, <2>2 DEF Wire!Bytes
<1> HIDE DEF file
<1>3. Wire!ValidateJpeg(file) = Wire!Ok
  BY <1>1, <1>2, WireApplies, Wire!ValidateJpegAccepts
     DEF Wire!ProtocolAssumption, Wire!ImageAssumption, Wire!MarkerAssumption
<1> QED
  BY <1>1, <1>2, <1>3 DEF FileIsValid, file

LEMMA SentIsAccepted ==
    ASSUME Typing, StepsBelowFrames, HistoryOrder, BeginInference
    PROVE  /\ Service!HeaderError(CallOf(request')) = Verdict(CallOf(request'))
           /\ Wire!RequestFromDict(CallOf(request').body) = Wire!Ok
<1> DEFINE r == request'
           m == MessageOf(r)
           wire == Wire!WireRequest(m)
<1>1. /\ r = [step |-> stepIndex, frame |-> Head(imageQueue), history |-> frameHistory]
      /\ Sendable(Head(imageQueue))
  BY DEF BeginInference
<1>2. stepIndex \in Nat /\ frameHistory \in Seq(Frame) /\ Len(frameHistory) \in 0..MaxHistoryImages
  BY <1>1, ControllerAssumption DEF Typing, TypeOK, Sendable
<1>3. /\ m.version = Wire!ApiVersion /\ m.session = "mine" /\ m.step = stepIndex
      /\ m.instruction = Instruction /\ m.path = Absent
      /\ m.image = FileOf(Head(imageQueue))
      /\ m.history = [i \in 1..Len(frameHistory) |-> FileOf(frameHistory[i])]
  BY <1>1, <1>2 DEF MessageOf
<1>4. "mine" \in Texts /\ Instruction \in Texts
  BY DeploymentAssumption
<1>8. /\ FileIsValid(m.image)
      /\ \A i \in 1..Len(frameHistory) : FileIsValid(m.history[i])
  <2>1. Head(imageQueue) \in Frame
    BY DEF Typing, TypeOK, BeginInference, StartImage
  <2>2. \A i \in 1..Len(frameHistory) : frameHistory[i] \in Frame
    BY <1>2
  <2>3. /\ Head(imageQueue).kind = "jpeg"
        /\ \A i \in 1..Len(frameHistory) : frameHistory[i].kind = "jpeg"
    BY <1>1 DEF Sendable
  <2> QED
    BY <1>2, <1>3, <2>1, <2>2, <2>3, JpegIsValid
<1>5. m \in Wire!Request
  <2>1. m.history \in Seq(Wire!Bytes)
    BY <1>2, <1>3, <1>8 DEF FileIsValid
  <2>2. m = [version |-> m.version, session |-> m.session, step |-> m.step,
             instruction |-> m.instruction, image |-> m.image, path |-> m.path,
             history |-> m.history]
    BY DEF MessageOf
  <2> HIDE DEF m
  <2>3. /\ m.version \in Wire!Versions /\ m.session \in Wire!Strings /\ m.step \in Wire!Steps
        /\ m.instruction \in Wire!Strings /\ m.image \in Wire!Bytes /\ m.path = Absent
    BY <1>2, <1>3, <1>4, <1>8 DEF FileIsValid, Wire!Versions, Wire!Strings, Wire!Steps
  <2> QED
    BY <2>1, <2>2, <2>3 DEF Wire!Request
<1>6. m.image # Absent
  BY <1>8, WireApplies DEF FileIsValid, Wire!ImageAssumption
<1> HIDE DEF m
<1>7. /\ wire.version = m.version /\ wire.session = m.session /\ wire.step = m.step
      /\ wire.instruction = m.instruction /\ wire.image = m.image /\ wire.history = m.history
  BY <1>5, <1>6 DEF Wire!WireRequest, Wire!Request
<1>9. Len(m.history) = Len(frameHistory) /\ Len(m.history) \in 0..MaxHistoryImages
  BY <1>2, <1>3
<1>10. Wire!ValidRequest(wire)
  <2>1. Len(wire.history) <= MaxHistoryImages
    BY <1>7, <1>9
  <2>2. \A i \in 1..Len(wire.history) : Wire!ValidateJpeg(wire.history[i]) = Wire!Ok
    BY <1>7, <1>8, <1>9 DEF FileIsValid
  <2>3. Wire!ValidateCurrentImage(wire.image) = Wire!Ok
    BY <1>6, <1>7, <1>8 DEF FileIsValid, Wire!ValidateCurrentImage
  <2> QED
    BY <1>2, <1>3, <1>4, <1>7, <2>1, <2>2, <2>3 DEF Wire!ValidRequest
<1>11. Wire!RequestToDict(m) = Wire!Ok
  <2>1. Len(wire.history) \in Nat
    BY <1>2, <1>7, <1>9
  <2>2. Wire!ValidateRequest(wire) = Wire!Ok
    BY <1>10, <2>1, WireApplies, Wire!ValidateRequestAccepts
       DEF Wire!ProtocolAssumption, Wire!ImageAssumption, Wire!MarkerAssumption
  <2> QED
    BY <1>6, <2>2 DEF Wire!RequestToDict
<1>12. Wire!RequestFromDict(Wire!RequestPayloadOf(m)) = Wire!Ok
  BY <1>5, <1>11, WireApplies, Wire!RequestSurvivesHolds
     DEF Wire!ProtocolAssumption, Wire!ImageAssumption, Wire!MarkerAssumption,
         Wire!RequestSurvives
<1>13. Wire!BodySize(Wire!RequestPayloadOf(m)) \in Nat
  BY <1>7, <1>8, <1>9, BodyHasLength DEF FileIsValid
<1> DEFINE call1 == CallOf(request')
<1>14. /\ call1.path = "/v1/infer" /\ call1.json
       /\ call1.length = Wire!BodySize(Wire!RequestPayloadOf(m))
       /\ call1.body = Wire!RequestPayloadOf(m)
  BY DEF CallOf, m
<1> HIDE DEF call1, r
<1>15. Service!HeaderError(call1) =
            IF call1.length <= MaxRequestBodyBytes THEN Service!Ok
            ELSE Service!Error("IMAGE_TOO_LARGE", 413)
  <2>1. CASE call1.length <= MaxRequestBodyBytes
    <3>1. call1.length \in 0..MaxRequestBodyBytes
      BY <1>13, <1>14, <2>1, WireApplies DEF Wire!ProtocolAssumption
    <3> QED
      BY <1>14, <2>1, <3>1, ServiceApplies, Service!HeaderAccepts
         DEF Service!ProtocolAssumption, Service!ImageAssumption, Service!MarkerAssumption,
             Service!ServiceAssumption
  <2>2. CASE ~(call1.length <= MaxRequestBodyBytes)
    BY <1>13, <1>14, <2>2, ServiceApplies, Service!HeaderRefusesLength
       DEF Service!ProtocolAssumption, Service!ImageAssumption, Service!MarkerAssumption,
           Service!ServiceAssumption
  <2> QED
    BY <2>1, <2>2
<1>16. /\ Service!Ok = Wire!Ok
       /\ Service!Error("IMAGE_TOO_LARGE", 413) = Wire!Error("IMAGE_TOO_LARGE", 413)
  BY DEF Service!Ok, Wire!Ok, Service!Error, Wire!Error
<1>17. Service!HeaderError(call1) = Verdict(call1)
  BY <1>15, <1>16, Zenon DEF Verdict
<1> QED
  BY <1>12, <1>14, <1>17 DEF call1

(* Only Ask makes a call.                                                   *)
LEMMA OnlyLengthIsRefusedKept ==
    DeploymentInvariant /\ OnlyLengthIsRefused /\ [DeploymentNext]_deploymentVars
        => OnlyLengthIsRefused'
<1> SUFFICES ASSUME DeploymentInvariant, OnlyLengthIsRefused, [DeploymentNext]_deploymentVars,
                    NEW c \in Connections, call'[c] # None
             PROVE  /\ Service!HeaderError(call'[c]) = Verdict(call'[c])
                    /\ Wire!RequestFromDict(call'[c].body) = Wire!Ok
  BY DEF OnlyLengthIsRefused, Verdict
<1>t. call \in [Connections -> Calls \cup {None}]
  BY DEF DeploymentInvariant, Service!ServiceInvariant, Service!TypeOK
<1>1. CASE call'[c] = call[c]
  BY <1>1 DEF OnlyLengthIsRefused, Verdict
<1>2. CASE Ask /\ call'[c] # call[c]
  <2>1. BeginInference /\ Service!Connect(Head(imageQueue).id, CallOf(request'))
    BY <1>2 DEF Ask, serviceVars
  <2>2. call'[c] = CallOf(request')
    BY <1>2, <1>t, <2>1 DEF Service!Connect
  <2> QED
    BY <2>1, <2>2, SentIsAccepted DEF DeploymentInvariant, Joined
<1>3. CASE HearReply \/ ControllerAlone \/ UNCHANGED deploymentVars
  BY <1>1, <1>3 DEF HearReply, ControllerAlone, deploymentVars, serviceVars
<1>4. CASE Fails \/ Dies
  BY <1>1, <1>4, HangUpSteps DEF Fails, Dies
<1>5. CASE ServiceAlone
  BY <1>1, <1>5, ServiceSteps DEF DeploymentInvariant
<1> QED
  BY <1>1, <1>2, <1>3, <1>4, <1>5 DEF DeploymentNext

(* The service refuses nothing that the controller sends, unless it is the  *)
(* length of the body, and then with the code and the status for that: not  *)
(* the other headers, not the request and not the older frames that go with *)
(* it, whatever the limits are, and whether or not they fit together        *)
(* (validate_request on both sides, do_POST's check of Content-Length).     *)
THEOREM OnlyLengthIsRefusedHolds == DeploymentSafety => []OnlyLengthIsRefused
<1>1. DeploymentInit => OnlyLengthIsRefused
  BY DEF DeploymentInit, Service!Init, OnlyLengthIsRefused
<1> QED
  BY <1>1, OnlyLengthIsRefusedKept, DeploymentInvariantHolds, PTL DEF DeploymentSafety
=============================================================================
