----------------------------- MODULE Deployment -----------------------------
(***************************************************************************)
(* The vehicle's controller and the inference service, joined by HTTP.     *)
(* The service is what RemoteController leaves abstract: ServerReplies     *)
(* happens only when the service has written a reply, and the controller's *)
(* side of a connection is closed when post_inference is left.             *)
(*                                                                         *)
(* urlopen opens a connection for each request and closes it afterwards,   *)
(* so that the request about frame i has connection i to itself; no        *)
(* connection is made while the service is down or out of reach.  A        *)
(* request that failed is asked again with the same session and step, for  *)
(* a newer frame, while the service may still be computing the answer to   *)
(* the old one.  The service remembers nothing of a session.               *)
(***************************************************************************)
EXTENDS RemoteController

CONSTANTS
    Answers, Fallback, ServiceName, NotJson,   \* of InferenceService
    MaxImageBytes, MaxWaypoints, MaxRequestBodyBytes,
    Texts, Blank, Mistyped, Absent, NotBase64, Unreadable,
    Instruction,       \* instruction
    JpegBytes          \* the sizes of the JPEGs of the camera's frames

VARIABLES
    up, threads, call, open, outgoing, received, model, processor, detector, took, warm
serviceVars ==
    <<up, threads, call, open, outgoing, received, model, processor, detector, took, warm>>
deploymentVars == <<vars, serviceVars>>

(* Protocol and InferenceService, together with what is proved of them.     *)
Wire == INSTANCE ProtocolProofs

(* A frame as a JPEG file.  A message that is not a picture, but not empty, *)
(* is passed on as it is.                                                   *)
FileOf(frame) == [jpeg |-> frame.kind = "jpeg", size |-> JpegBytes[frame.id]]

(* build_request                                                            *)
MessageOf(r) ==
    [version |-> Wire!ApiVersion, session |-> "mine", step |-> r.step,
     instruction |-> Instruction, image |-> FileOf(r.frame), path |-> Absent,
     history |-> [i \in 1..Len(r.history) |-> FileOf(r.history[i])]]

(* The HTTP request of post_inference.                                      *)
CallOf(r) ==
    LET payload == Wire!RequestPayloadOf(MessageOf(r))
    IN  [method |-> "POST", path |-> "/v1/infer", json |-> TRUE,
         length |-> Wire!BodySize(payload), body |-> payload]

(* Each request is about another frame and has a connection to itself.      *)
Connections == 1..MaxFrames
Connection == request.frame.id
Calls == {CallOf(r) : r \in [step : 0..MaxFrames, frame : Frame,
                             history : UNION {[1..n -> Frame] : n \in 0..MaxHistoryImages}]}

Service == INSTANCE InferenceServiceProofs WITH phase <- threads, reply <- outgoing

(* The service's own assumptions about its parameters.                      *)
ASSUME ServiceAssumptions ==
    /\ Service!ProtocolAssumption /\ Service!ImageAssumption
    /\ Service!MarkerAssumption /\ Service!ServiceAssumption

(* A file above the limit is refused by request_to_dict like one that is no *)
(* JPEG, so that such a frame is "invalid" here.                            *)
ASSUME DeploymentAssumption ==
    /\ "mine" \in Texts /\ Instruction \in Texts
    /\ \A i \in 1..MaxFrames : JpegBytes[i] \in 4..MaxImageBytes

-----------------------------------------------------------------------------
(* What the controller takes from a response: response_to_velocity_commands *)
(* and visual servo read the chunks and the target, which Protocol leaves   *)
(* open.                                                                    *)
SessionOf(payload) == IF payload.session = "mine" THEN "mine" ELSE "other"
Conveys(body, r) ==
    /\ body.stop = r.stop
    /\ body.chunks = [i \in 1..Len(r.chunks) |->
                        [action |-> r.chunks[i].action, repeat |-> r.chunks[i].repeat]]

ASSUME BodiesAssumption ==
    \A answer \in Answers \ {Mistyped} :
        Wire!ValidateResponse(Wire!Normalized(answer, ServiceName)) = Wire!Ok =>
            \E body \in Bodies : Conveys(body, answer)

DeploymentInit == Init /\ Service!Init

(* urlopen; the connection may not come about.                              *)
Ask ==
    /\ BeginInference
    /\ \/ Service!Connect(Head(imageQueue).id, CallOf(request'))
       \/ UNCHANGED serviceVars

(* Faulty: one connection is kept for all requests, and what arrives on it  *)
(* is taken for the answer to the last one.                                 *)
FaultyHears(c) == c \in Connections

Hears(c) == c = Connection

(* post_inference reads a response that is no error and parses.             *)
PostInferenceReturns(payload) ==
    /\ payload # Absent /\ Wire!ResponseFromDict(payload) = Wire!Ok
    /\ \E body \in Bodies :
        /\ Conveys(body, Wire!ResponseFromPayload(payload))
        /\ ServerReplies(SessionOf(payload), payload.step, body)

HearReply ==
    /\ phase = "waiting"
    /\ \E c \in Connections :
        /\ Hears(c) /\ received[c] # <<>>
        /\ PostInferenceReturns(received[c][1].payload)
    /\ UNCHANGED serviceVars

(* The end of the with statement around urlopen, or of the process.         *)
HangUp ==
    IF phase = "waiting" /\ open[Connection] /\ threads[Connection] # "done"
    THEN Service!Leave(Connection) ELSE UNCHANGED serviceVars

Fails == InferenceFails /\ HangUp
Dies == Interrupt /\ HangUp

ControllerAlone ==
    /\ \/ SkipImage \/ RefuseRequest \/ RejectReply \/ AnswerWithHalt \/ StartPulse \/ EndPulse
       \/ OnWatchdogTimer \/ Tick \/ TakeTwist
       \/ \E kind \in FrameKinds : PublishFrame(kind)
    /\ UNCHANGED serviceVars

ServiceAlone ==
    /\ \/ Service!Stop \/ Service!Start
       \/ \E c \in Connections : Service!Handle(c) \/ Service!Compute(c) \/ Service!Hang(c)
    /\ UNCHANGED vars

DeploymentNext == Ask \/ HearReply \/ Fails \/ Dies \/ ControllerAlone \/ ServiceAlone
DeploymentSafety == DeploymentInit /\ [][DeploymentNext]_deploymentVars

-----------------------------------------------------------------------------
(* The answer the controller is about to act on is the service's answer to  *)
(* this very request: to its frame and its history.  Session and step       *)
(* cannot tell it from a late answer to an earlier attempt at the step; the *)
(* connection does.                                                         *)
AnswersThisFrame ==
    phase = "answered" =>
        /\ received[Connection] # <<>>
        /\ call[Connection] = CallOf(request)
        /\ reply.step = received[Connection][1].payload.step

(* The correlation post_inference checks once more never fails with this    *)
(* service: an answer that arrives is used.                                 *)
AnswerIsUsed == phase = "answered" => Accepts(reply)

(* What the controller sends is refused for the length of its body or not   *)
(* at all: its checks are otherwise as strict as those of the service, also *)
(* for the older frames it sends along.  It never checks the length: every  *)
(* picture within its limit, all of them may still be too much.             *)
OnlyLengthIsRefused ==
    \A c \in Connections :
        call[c] # None =>
            /\ Service!HeaderError(call[c]) =
                 IF call[c].length <= MaxRequestBodyBytes THEN Wire!Ok
                 ELSE Wire!Error("IMAGE_TOO_LARGE", 413)
            /\ Wire!RequestFromDict(call[c].body) = Wire!Ok

(* The controller keeps at most one connection.  The service may still be   *)
(* computing answers for others; nobody listens to them.                    *)
OneConnection ==
    \A c \in Connections :
        open[c] /\ threads[c] # "done" => phase = "waiting" /\ c = Connection

(* Together, the two do to the service only what InferenceService expects   *)
(* of its clients.                                                          *)
ImplementsService == Service!Safety
=============================================================================
