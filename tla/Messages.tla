------------------------------ MODULE Messages ------------------------------
(***************************************************************************)
(* The pure part of the system, one message at a time: what each function  *)
(* may be given, as a kind of message, and what must come of it.  Requests *)
(* and responses are for Protocol; texts, atomic actions and detections    *)
(* for ActionText; image messages and sizes for CameraImage; target        *)
(* records and lists of chunks are what Control makes of a response; logs  *)
(* of points are for PointCloud.                                           *)
(***************************************************************************)
EXTENDS ActionText, CameraImage

CONSTANTS
    ForwardSpeed, TurnSpeed, MaxLinearX, MaxAngularZ, StepDuration, VisualServoEnabled,
    TargetForwardSpeed, TargetTurnGain, TargetMaxAngularZ,
    TargetCenterDeadband, TargetStopArea, TargetMinConfidence, None, Speck

C == INSTANCE Control
Sighted == INSTANCE Control WITH None <- Absent      \* of a target as ActionText writes it

Cloud == INSTANCE PointCloud

VARIABLES kind, message

ASSUME NameAssumption == "text" \in Texts
ASSUME ControlAssumptions ==
    C!ControlAssumption /\ C!SentinelAssumption /\ Sighted!SentinelAssumption

(* The request an answer is for.                                            *)
Asked == [version |-> ApiVersion, session |-> "text", step |-> 0, instruction |-> "text",
          image |-> [jpeg |-> TRUE, size |-> 4], path |-> Absent,
          history |-> <<[jpeg |-> TRUE, size |-> 5]>>]

Messages ==
    [request |-> Request, response |-> Response,
     request_payload |-> RequestPayload, response_payload |-> ResponsePayload,
     target |-> C!Target, list |-> [list : C!Chunks],
     text |-> Text, phrase |-> Phrase,
     target_text |-> TargetRecord,
     atomic |-> {atomic \in [list : Seq(Actions), merges : Seq(BOOLEAN)] :
                    Len(atomic.list) <= Len(atomic.merges)},
     detections |-> [list : Seq(Detection)],
     image |-> Image, size |-> [height : Nat \ {0}, width : Nat \ {0}],
     cloud |-> [list : Seq(Cloud!Row), limit : Int, drop : BOOLEAN, offset : Int]]

(* Any message the code may meet.                                           *)
WellTyped == kind \in DOMAIN Messages /\ message \in Messages[kind]

-----------------------------------------------------------------------------
(* The properties, each for the kind of message it is about.                *)

(* A request or a response that may be sent arrives as it is, and so does   *)
(* the reason a request is refused for.                                     *)
MessagesSurvive ==
    /\ kind = "request" => RequestSurvives(message)
    /\ kind = "response" => ResponseSurvives(message, "text")
    /\ kind = "request_payload" => RefusalArrives(message)

(* Whatever a server sends, what the client returns can be executed and is  *)
(* an answer to its request; only one without a version may lack metadata.  *)
AcceptedAreExecutable ==
    kind = "response_payload" =>
        /\ AcceptedIsExecutable(message)
        /\ ReturnedCanBeUsed("text", 0, message)
        /\ VersionedIsComplete(message)

(* The list built as the code builds it, one extend per chunk.              *)
Extended(chunks) ==
    Concatenated([i \in 1..Len(chunks) |->
        [k \in 1..C!Larger(1, chunks[i].repeat) |-> C!ChunkCommand(chunks[i])]])

(* The controller looks at commands[0] only: it is the first command of the *)
(* list response_to_velocity_commands returns, and there is none exactly    *)
(* when the list is empty.  The bridge node carries out the whole list; its *)
(* first twist is the controller's.                                         *)
FirstCommandIsCommandsZero ==
    kind = "list" =>
        LET commands == C!ResponseToVelocityCommands(message.list)
        IN  /\ commands = Extended(message.list)
            /\ C!FirstCommand(message.list) = IF commands = <<>> THEN None ELSE commands[1]
            /\ C!ProcessFrame(message.list) = commands
            /\ commands # <<>> =>
                 C!ProcessFrameAsTwist(message.list)[1] =
                    C!VelocityCommandToTwist2D(C!FirstCommand(message.list))

(* No text of the model makes an answer the service refuses, nor does the   *)
(* mock backend, whatever actions it is made with.                          *)
TextsAreAnswers ==
    /\ kind = "text" => EveryTextIsAnswer(Asked, message, "text")
    /\ kind = "atomic" =>
         ValidateResponse(Normalized(MockInfer(Asked, message.list), "text")) = Ok

(* What the model wrote before its answer drives the robot only as JSON.    *)
AnswerOrJsonDrives == kind = "text" => ReasoningDrivesOnlyAsJson(message)

(* The player shows of a log what the converter writes.                     *)
PlayerShowsTheFile ==
    kind = "cloud" =>
        Cloud!ToolsAgree(message.list, message.limit, message.drop, message.offset)

(* Distances and angles become the closest number of steps.                 *)
ClosestSteps == kind = "phrase" => ClosestRepeat(message)

(* Merging equal actions into chunks, wherever rng() allows it, changes     *)
(* nothing of what the robot is told: the controller makes the same list of *)
(* commands of the chunks as of the single actions.                         *)
MergingKeepsCommands ==
    kind = "atomic" =>
        C!ResponseToVelocityCommands(ChunkAtomicActions(message.list, message.merges)) =
            [i \in 1..Len(message.list) |->
                C!ChunkCommand([action |-> message.list[i], repeat |-> 1])]

(* A target with a readable box is seen, whatever else is detected.         *)
ReadableBoxes ==
    kind = "detections" => ReadableBoxSeen([early |-> Absent, late |-> Absent], message.list)

(* What the camera sees is what the model is shown, and whatever an image   *)
(* message says of itself, only its data are encoded.                       *)
PicturesKept ==
    /\ kind = "size" => PictureKept(message.height, message.width)
    /\ kind = "image" => PixelsWithinData(message)

(* What the service accepts reaches the model as it was meant.              *)
AcceptedAreShown ==
    kind = "request_payload" /\ RequestFromDict(message) = Ok
        => ModelSeesTheRequest(RequestFromPayload(message))

(* The place max(0.0, min(1.0, center_x)) goes by: a NaN is the right edge. *)
PlaceTaken(center) == IF center \in Int THEN center ELSE 1000

(* A place the text does not give, or that float() does not read, halts the *)
(* robot.  Otherwise it turns, if at all, towards the place the text gives; *)
(* for a NaN, which float() does read, that is always to the right.         *)
UnreadableTargetHalts ==
    kind = "target_text" =>
        LET text == [early |-> [actions |-> <<>>, target |-> message], late |-> Absent]
            command == Sighted!TargetCommand(TargetMetadata(text, Absent))
        IN  /\ message.center \in {Absent, Mistyped} => command.stop
            /\ ~command.stop => /\ message.visible
                               /\ message.center \in Int \cup {NaN}
                               /\ command.angular * (PlaceTaken(message.center) - 500) <= 0

(* Visual servo never turns away from the target, and drives forward only   *)
(* when the target is within the deadband.  A center that is NaN counts as  *)
(* the right edge: the robot turns right whatever it sees.                  *)
SteersTowardsTarget ==
    kind = "target" =>
        LET command == C!TargetCommand(message)
            error == C!Larger(0, C!Smaller(1000, PlaceTaken(message.center))) - 500
        IN  /\ command.angular * error <= 0
            /\ command.linear # 0 => C!Abs(error) <= TargetCenterDeadband
            /\ command.angular # 0 => C!Abs(error) > TargetCenterDeadband
=============================================================================
