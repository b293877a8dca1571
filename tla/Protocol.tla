------------------------------ MODULE Protocol ------------------------------
(***************************************************************************)
(* Version 1 of the inference protocol: what codec.py and validation.py of *)
(* navida_deploy accept, refuse and convert, on the sending and on the     *)
(* receiving side.  Nothing here has state; InferenceService calls these   *)
(* operators where do_POST calls the functions.                            *)
(*                                                                         *)
(* A function that may raise ProtocolError is an operator whose value is   *)
(* Ok or the first error it would raise.  An error is its code and status; *)
(* message and details are left out.                                       *)
(*                                                                         *)
(* Text is told apart only as far as the checks do: a session or an        *)
(* instruction is a value with something in it, Blank (empty, or spaces),  *)
(* or Mistyped.  Mistyped also stands for a key that is missing where the  *)
(* code reads it with get() and no default.  An image is its size and      *)
(* whether its first two and last two bytes are those of a JPEG, which     *)
(* only four bytes or more can be.  The names of                           *)
(* JSON members whose type is checked are listed in a message's broken     *)
(* field when they are missing or have another type.                       *)
(***************************************************************************)
EXTENDS Integers, Sequences

CONSTANTS
    MaxImageBytes, MaxHistoryImages, MaxWaypoints,   \* validation.py
    MaxRequestBodyBytes,                             \* http_service.py
    Texts,                    \* strings with something in them
    Blank, Mistyped,          \* see above
    Absent,                   \* no such key, or None
    NotBase64,                \* a string b64decode refuses
    Unreadable                \* the path of a file that cannot be read

ASSUME ProtocolAssumption ==
    /\ {MaxImageBytes, MaxHistoryImages, MaxWaypoints, MaxRequestBodyBytes} \subseteq Nat
    /\ Mistyped # NotBase64
    /\ {Absent, Unreadable} \cap {Mistyped, NotBase64} = {} /\ Absent # Unreadable
    /\ "legacy" \in Texts

ApiVersion == "1.0"
Versions == {ApiVersion, "0.9"}
Strings == Texts \cup {Blank, Mistyped}
Steps == Int \cup {Mistyped}
Bytes == {bytes \in [jpeg : BOOLEAN, size : Nat] : bytes.jpeg => bytes.size >= 4}
Base64 == [base64 : Bytes]

ASSUME ImageAssumption ==
    /\ Absent \notin Bytes /\ Unreadable \notin Bytes
    /\ Mistyped \notin Base64 /\ NotBase64 \notin Base64

-----------------------------------------------------------------------------
(* Checks in the order the code makes them.                                 *)
Error(code, status) == [code |-> code, status |-> status]
Ok == Error("OK", 200)
Codes == {"OK", "INVALID_JSON", "INVALID_REQUEST", "UNSUPPORTED_API_VERSION",
          "TOO_MANY_HISTORY_IMAGES", "IMAGE_TOO_LARGE", "INVALID_IMAGE", "INVALID_BASE64",
          "INVALID_ACTION", "INVALID_WAYPOINT", "BACKEND_ERROR", "INTERNAL_ERROR"}
Errors == [code : Codes, status : {200, 400, 404, 413, 422, 500}]
Unless(condition, error) == IF condition THEN Ok ELSE error

FirstError(errors) ==
    LET raised == {i \in 1..Len(errors) : errors[i] # Ok}
    IN  IF raised = {} THEN Ok
        ELSE errors[CHOOSE i \in raised : \A j \in raised : i <= j]

(* One check per element, as a for loop makes them.                         *)
ErrorsOf(Check(_), s) == [i \in 1..Len(s) |-> Check(s[i])]

BadRequest == Error("INVALID_REQUEST", 400)
BadVersion == Error("UNSUPPORTED_API_VERSION", 400)
TooManyImages == Error("TOO_MANY_HISTORY_IMAGES", 413)

-----------------------------------------------------------------------------
(* Requests.                                                                *)
Request == [version : Versions, session : Strings, step : Steps,
            instruction : Strings, image : Bytes \cup {Absent},
            path : Bytes \cup {Absent, Unreadable}, history : Seq(Bytes)]

WireImage == Base64 \cup {Mistyped, NotBase64}
RequestParts == {"body", "observation", "observation members", "metadata"}
RequestPayload == [broken : SUBSET RequestParts, version : Versions \cup {Mistyped},
                   session : Strings, step : Steps, instruction : Strings,
                   image : WireImage, history : Seq(WireImage)]

ValidateJpeg(bytes) ==
    FirstError(<<Unless(bytes.size <= MaxImageBytes, Error("IMAGE_TOO_LARGE", 413)),
                 Unless(bytes.jpeg, Error("INVALID_IMAGE", 422))>>)

ValidateCurrentImage(image) == IF image = Absent THEN BadRequest ELSE ValidateJpeg(image)

(* The checks of the Python types of observation, history and metadata are  *)
(* left out: both callers have just built these objects.                    *)
ValidateRequest(r) == FirstError(
    <<Unless(r.version = ApiVersion, BadVersion),
      Unless(r.session \in Texts, BadRequest),
      Unless(r.step \in Nat, BadRequest),
      Unless(r.instruction \in Texts, BadRequest),
      ValidateCurrentImage(r.image),
      Unless(Len(r.history) <= MaxHistoryImages, TooManyImages)>>
    \o ErrorsOf(ValidateJpeg, r.history))

(* request_to_dict: the bytes given, or else those of the file.             *)
WireRequest(r) ==
    [r EXCEPT !.image = IF r.image # Absent THEN r.image ELSE r.path, !.path = Absent]

RequestToDict(r) ==
    IF r.image = Absent /\ r.path = Unreadable THEN Error("INVALID_IMAGE", 422)
    ELSE ValidateRequest(WireRequest(r))

EncodeBytes(bytes) == [base64 |-> bytes]

RequestPayloadOf(r) ==
    [broken |-> {}, version |-> r.version, session |-> r.session, step |-> r.step,
     instruction |-> r.instruction, image |-> EncodeBytes(WireRequest(r).image),
     history |-> [i \in 1..Len(r.history) |-> EncodeBytes(r.history[i])]]

(* What the Content-Length header says, in units of MaxImageBytes; only the *)
(* images count, the rest of the body is small.                             *)
EncodedSize(image) == IF image \in {Mistyped, NotBase64} THEN 0
                      ELSE 4 * ((image.base64.size + 2) \div 3)
BodySize(p) ==
    LET size[i \in 0..Len(p.history)] ==
            IF i = 0 THEN EncodedSize(p.image) ELSE size[i - 1] + EncodedSize(p.history[i])
    IN  size[Len(p.history)]

(* The empty string is refused like something that is no string.            *)
DecodeJpeg(image) ==
    CASE image = Mistyped  -> BadRequest
      [] image = NotBase64 -> Error("INVALID_BASE64", 400)
      [] OTHER -> IF image.base64.size = 0 THEN BadRequest ELSE ValidateJpeg(image.base64)

(* Faulty: a keyword argument that has a default is forgotten.              *)
FaultyRequestFromPayload(p) ==
    [version |-> p.version, session |-> p.session, step |-> p.step,
     instruction |-> p.instruction, image |-> p.image.base64, path |-> Absent,
     history |-> <<>>]

RequestFromPayload(p) ==
    [version |-> p.version, session |-> p.session, step |-> p.step,
     instruction |-> p.instruction, image |-> p.image.base64, path |-> Absent,
     history |-> [i \in 1..Len(p.history) |-> p.history[i].base64]]

RequestFromDict(p) ==
    LET error == FirstError(
          <<Unless("body" \notin p.broken, BadRequest),
            Unless(p.version = ApiVersion, BadVersion),
            Unless("observation" \notin p.broken, BadRequest),
            Unless("observation members" \notin p.broken, BadRequest),
            Unless(Len(p.history) <= MaxHistoryImages, TooManyImages),
            Unless("metadata" \notin p.broken, BadRequest),
            DecodeJpeg(p.image)>>
          \o ErrorsOf(DecodeJpeg, p.history))
    IN  IF error # Ok THEN error ELSE ValidateRequest(RequestFromPayload(p))

(* The session and step an error is returned with: those of the payload if  *)
(* they have the right type, whatever their value.                          *)
Correlation(p) ==
    IF "body" \in p.broken THEN [session |-> Absent, step |-> Absent]
    ELSE [session |-> IF p.session = Mistyped THEN Absent ELSE p.session,
          step |-> IF p.step = Mistyped THEN Absent ELSE p.step]

(* What an error body holds.                                                *)
ErrorBody == [session : Strings \cup {Absent}, step : Steps \cup {Absent},
              error : [code : Codes]]

-----------------------------------------------------------------------------
(* Responses.  A chunk's score and a waypoint's coordinates are told apart  *)
(* by being finite numbers only.  An action or a command type that is an    *)
(* array or an object makes the membership test raise TypeError, an integer *)
(* score too long for a float OverflowError; every caller takes them as it  *)
(* takes ProtocolError, and they are not told apart from "other".           *)
Commands == {"action_chunks", "local_waypoints"}
Actions == {"forward", "turn_left", "turn_right", "stop"}
Chunk == [index : Int \cup {Mistyped}, action : Actions \cup {"other"},
          repeat : Int \cup {Mistyped}, score : {"null", "finite", "other"}]
Waypoint == {"finite", "other"}
ResponseParts == {"chunks", "waypoints", "metadata"}

ASSUME MarkerAssumption ==
    /\ {Blank, Mistyped, Absent} \cap
         (Texts \cup Int \cup BOOLEAN \cup Versions \cup Commands \cup Actions
            \cup Waypoint \cup {"valid"}) = {}
    /\ Mistyped \notin Chunk \cup ErrorBody
    /\ Absent \notin Codes /\ {Absent, Mistyped} \cap [code : Codes] = {}

(* broken: not a list, not a list, not a dict.                              *)
Response == [broken : SUBSET ResponseParts, version : Versions \cup {Mistyped},
             session : Strings, step : Steps, command : Commands \cup {"other"},
             chunks : Seq(Chunk \cup {Mistyped}), waypoints : Seq(Waypoint \cup {Mistyped}),
             stop : BOOLEAN \cup {Mistyped}, backend : Strings \cup {Absent},
             time : {"valid", "other", Absent}]

BadReply == Error("INVALID_REQUEST", 422)
BadAction == Error("INVALID_ACTION", 422)
BadWaypoint == Error("INVALID_WAYPOINT", 422)

ValidateActionChunk(chunk) ==
    Unless(/\ chunk # Mistyped
           /\ chunk.index \in Nat
           /\ chunk.action \in Actions
           /\ chunk.repeat \in Nat \ {0}
           /\ chunk.score # "other", BadAction)

ValidateWaypoint(waypoint) == Unless(waypoint = "finite", BadWaypoint)

(* Faulty: the two arrays may both be filled.                               *)
FaultyOneRepresentation(r) == TRUE

(* The checks that command_type and the arrays agree.                       *)
OneRepresentation(r) ==
    /\ r.command = "action_chunks" => r.waypoints = <<>>
    /\ r.command = "local_waypoints" => r.chunks = <<>>

ValidateResponse(r) == FirstError(
    <<Unless(r.version = ApiVersion, Error("UNSUPPORTED_API_VERSION", 422)),
      Unless(r.session \in Texts, BadReply),
      Unless(r.step \in Nat, BadReply),
      Unless(r.command \in Commands, BadReply),
      Unless("chunks" \notin r.broken, BadAction),
      Unless("waypoints" \notin r.broken, BadWaypoint),
      Unless(OneRepresentation(r), BadWaypoint),
      Unless(Len(r.waypoints) <= MaxWaypoints, BadWaypoint)>>
    \o ErrorsOf(ValidateActionChunk, r.chunks)
    \o ErrorsOf(ValidateWaypoint, r.waypoints)
    \o <<Unless(r.stop \in BOOLEAN, BadReply),
         Unless("metadata" \notin r.broken, BadReply),
         Unless(r.backend \in Texts, BadReply),
         Unless(r.time = "valid", BadReply)>>)

(* normalize_response up to its validation.  A metadata that is false (None *)
(* or empty) is replaced, any other that is not a dict makes dict() raise;  *)
(* here "metadata" in broken means the latter.  A backend name that is not  *)
(* a string becomes one, and an empty one is replaced like a missing one:   *)
(* in what a backend returns, Absent is either, and Blank is a name of      *)
(* spaces.  name is what the service calls its backend.                     *)
Normalized(r, name) ==
    [r EXCEPT !.version = ApiVersion,
              !.backend = IF @ \in {Absent, Mistyped} THEN name ELSE @,
              !.time = "valid"]

(* A response as a JSON object: a chunk's repeat and score and most members *)
(* may be missing, a missing array is an empty one.                         *)
WireChunk == [index : Int \cup {Mistyped, Absent}, action : Actions \cup {"other", Absent},
              repeat : Int \cup {Mistyped, Absent}, score : {"null", "finite", "other"}]
ResponsePayload ==
    [broken : SUBSET (ResponseParts \cup {"body"}), version : Versions \cup {Mistyped, Absent},
     session : Strings, step : Steps, command : Commands \cup {"other", Absent},
     chunks : Seq(WireChunk \cup {Mistyped}),
     waypoints : Seq(Waypoint \cup {Mistyped, Absent}),
     stop : BOOLEAN \cup {Mistyped, Absent}, backend : Strings \cup {Absent},
     time : {"valid", "other", Absent}]

(* Faulty: a member that has a default on the other side is forgotten.      *)
FaultyResponsePayloadOf(r) ==
    [broken |-> {}, version |-> r.version, session |-> r.session, step |-> r.step,
     command |-> r.command, chunks |-> r.chunks, waypoints |-> r.waypoints,
     stop |-> Absent, backend |-> r.backend, time |-> r.time]

(* response_to_dict writes every member of a valid response.                *)
ResponsePayloadOf(r) ==
    [broken |-> {}, version |-> r.version, session |-> r.session, step |-> r.step,
     command |-> r.command, chunks |-> r.chunks, waypoints |-> r.waypoints,
     stop |-> r.stop, backend |-> r.backend, time |-> r.time]

Default(value, default) == IF value = Absent THEN default ELSE value

ChunkFromPayload(chunk) == [chunk EXCEPT !.repeat = Default(@, 1)]

(* The metadata a response without api_version may lack.                    *)
IsLegacy(p) == p.version = Absent

ResponseFromPayload(p) ==
    [broken |-> {}, version |-> Default(p.version, ApiVersion),
     session |-> p.session, step |-> p.step,
     command |-> Default(p.command, "action_chunks"),
     chunks |-> [i \in 1..Len(p.chunks) |-> ChunkFromPayload(p.chunks[i])],
     waypoints |-> p.waypoints, stop |-> Default(p.stop, FALSE),
     backend |-> IF IsLegacy(p) THEN Default(p.backend, "legacy") ELSE p.backend,
     time |-> IF IsLegacy(p) THEN Default(p.time, "valid") ELSE p.time]

HasRequiredMembers(chunk) ==
    Unless(chunk # Mistyped /\ chunk.index # Absent /\ chunk.action # Absent, BadAction)
HasCoordinates(waypoint) == Unless(waypoint \in Waypoint, BadWaypoint)

ResponseFromDict(p) ==
    LET error == FirstError(
          <<Unless("body" \notin p.broken, BadReply),
            Unless("chunks" \notin p.broken, BadAction),
            Unless("waypoints" \notin p.broken, BadWaypoint)>>
          \o ErrorsOf(HasRequiredMembers, p.chunks)
          \o ErrorsOf(HasCoordinates, p.waypoints)
          \o <<Unless("metadata" \notin p.broken, BadReply)>>)
    IN  IF error # Ok THEN error ELSE ValidateResponse(ResponseFromPayload(p))

-----------------------------------------------------------------------------
(* post_inference: what comes of a reply.  A body is Mistyped when it is no *)
(* JSON or no object.  In an error body, error is Absent when it is missing *)
(* or false and Mistyped when it has no get(), and so on for its code.      *)
ErrorPayload(error, correlation) ==
    [session |-> correlation.session, step |-> correlation.step,
     error |-> [code |-> error.code]]

Outcome(kind, error) == [kind |-> kind, error |-> error]

(* Faulty: the code is looked for one level too high.                       *)
FaultyHttpError(status, body) == Outcome("InferenceHTTPError", Error("HTTP_ERROR", status))

(* The except branch.  An error that is no object makes get() raise what    *)
(* the branch does not catch.                                               *)
HttpError(status, body) ==
    IF body # Mistyped /\ body.error = Mistyped THEN Outcome("AttributeError", Ok)
    ELSE LET code == IF body = Mistyped \/ body.error = Absent THEN Absent ELSE body.error.code
         IN  Outcome("InferenceHTTPError",
                     Error(IF code = Absent THEN "HTTP_ERROR" ELSE code, status))

PostInference(session, step, status, body) ==
    IF status # 200 THEN HttpError(status, body)
    ELSE IF body = Mistyped THEN Outcome("RuntimeError", Ok)
    ELSE IF ResponseFromDict(body) # Ok THEN Outcome("ProtocolError", ResponseFromDict(body))
    ELSE IF body.session # session \/ body.step # step THEN Outcome("RuntimeError", Ok)
    ELSE Outcome("response", Ok)

-----------------------------------------------------------------------------
(* Properties.                                                              *)

(* What a client may send the service takes, and reads as the same request: *)
(* the two sides check with the same limits, though in different orders and *)
(* on different representations.                                            *)
RequestSurvives(r) ==
    RequestToDict(r) = Ok =>
        /\ RequestFromDict(RequestPayloadOf(r)) = Ok
        /\ RequestFromPayload(RequestPayloadOf(r)) = WireRequest(r)

(* What the service sends, the client takes, and reads as the same answer;  *)
(* whatever the backend returned, normalised.                               *)
ResponseSurvives(answer, name) ==
    LET r == Normalized(answer, name) IN
    ValidateResponse(r) = Ok =>
        /\ ResponseFromDict(ResponsePayloadOf(r)) = Ok
        /\ ResponseFromPayload(ResponsePayloadOf(r)) = r

(* What the client takes, from any server and with any member missing, the  *)
(* controller can execute: actions it knows, each at least once, and one    *)
(* representation of the command.                                           *)
Executable(r) ==
    /\ r.chunks = <<>> \/ r.waypoints = <<>>
    /\ Len(r.waypoints) <= MaxWaypoints
    /\ \A i \in 1..Len(r.chunks) :
            r.chunks[i].action \in Actions /\ r.chunks[i].repeat \in Nat \ {0}
AcceptedIsExecutable(p) == ResponseFromDict(p) = Ok => Executable(ResponseFromPayload(p))

(* What the service refuses a request for is what its sender is told: the   *)
(* code and the status pass through the error body and the exception, also  *)
(* when the request was too broken to be correlated with.                   *)
RefusalArrives(p) ==
    LET error == RequestFromDict(p) IN
    error # Ok =>
        PostInference("text", 0, error.status, ErrorPayload(error, Correlation(p)))
            = Outcome("InferenceHTTPError", error)

(* Of what any server sends with status 200, post_inference returns only    *)
(* an answer to the request that can be executed.                           *)
ReturnedCanBeUsed(session, step, p) ==
    PostInference(session, step, 200, p).kind = "response" =>
        /\ Executable(ResponseFromPayload(p))
        /\ p.session = session /\ p.step = step

(* A response that names its version has the metadata version 1 asks for;   *)
(* only one without a version may lack it.                                  *)
VersionedIsComplete(p) ==
    ResponseFromDict(p) = Ok /\ p.version # Absent => Absent \notin {p.backend, p.time}
=============================================================================
