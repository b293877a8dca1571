-------------------------- MODULE InferenceService --------------------------
(***************************************************************************)
(* The inference service: http_service.py on a ThreadingHTTPServer, with   *)
(* the Hugging Face backend, whose model, processor and target detector    *)
(* are loaded by the first request that needs them.                        *)
(*                                                                         *)
(* Each connection carries one call and has a handler thread of its own.   *)
(* The threads share the attributes of the one backend object and take no  *)
(* lock.  A thread can lose the interpreter between any two accesses to    *)
(* them, so each store and each load of an attribute is a step; what a     *)
(* thread does without touching them, or the socket, belongs to the step   *)
(* before.                                                                 *)
(*                                                                         *)
(* Outside of the service: the clients, who may give up at any time, and   *)
(* the model itself, which may answer anything or raise.  MockNaVIDABackend*)
(* behaves like this backend with everything loaded.                       *)
(***************************************************************************)
EXTENDS Protocol

CONSTANTS
    Connections,   \* one call each
    Calls,         \* what clients may send
    Answers,       \* what backend.infer may return; Mistyped: no InferenceResponse
    Fallback,      \* target_detector_fallback, with a detector configured
    ServiceName,   \* _backend_identifier(backend)
    NotJson,       \* a body json.loads refuses
    None

Call == [method : {"GET", "POST"}, path : {"/health", "/v1/infer", "other"},
         json : BOOLEAN,                       \* Content-Type is application/json
         length : Int \cup {Absent, Mistyped}, \* Content-Length
         body : RequestPayload \cup {NotJson}] \* what read(length) returns

(* A reply: the error, or Ok, what it is correlated by, and the response of *)
(* a successful inference.                                                  *)
Reply == [error : Errors, session : Texts \cup {Blank, Absent},
          step : Int \cup {Absent}, payload : ResponsePayload \cup {Absent}]

ASSUME ServiceAssumption ==
    /\ Calls \subseteq Call
    /\ Answers \subseteq Response \cup {Mistyped}
    /\ Fallback \in BOOLEAN
    /\ ServiceName \in Texts
    /\ None \notin Connections \cup Reply \cup Call

Phases == {"idle", "queued", "refusing", "reading", "checking", "loading", "storing",
           "taking", "taking processor", "inferring", "locating", "loading detector",
           "located", "hung", "replying", "done"}

VARIABLES
    up,          \* the process runs
    phase,       \* where each connection's thread is
    call,        \* what the client sent
    open,        \* the connection is whole and the client reads it
    reply,       \* the reply the thread is about to write, or None
    received,    \* the replies that reached the client
    model, processor, detector,   \* the backend's attributes: None, or
                                  \* the connection whose thread loaded it
    took,        \* the model and the processor infer works with
    warm         \* auxiliary: connections made after the model was in place

clientVars == <<call, open, warm>>
backendVars == <<model, processor, detector>>
vars == <<up, phase, clientVars, reply, received, backendVars, took>>

Init ==
    /\ up = TRUE
    /\ phase = [c \in Connections |-> "idle"]
    /\ call = [c \in Connections |-> None]
    /\ open = [c \in Connections |-> FALSE]
    /\ reply = [c \in Connections |-> None]
    /\ received = [c \in Connections |-> <<>>]
    /\ model = None /\ processor = None /\ detector = None
    /\ took = [c \in Connections |-> [model |-> None, processor |-> None]]
    /\ warm = {}

At(c, p) == up /\ phase[c] = p
Goto(c, p) == phase' = [phase EXCEPT ![c] = p]

-----------------------------------------------------------------------------
(* The clients.                                                             *)
Connect(c, what) ==
    /\ At(c, "idle")
    /\ Goto(c, "queued")
    /\ call' = [call EXCEPT ![c] = what]
    /\ open' = [open EXCEPT ![c] = TRUE]
    /\ warm' = IF model # None /\ processor # None THEN warm \cup {c} ELSE warm
    /\ UNCHANGED <<up, reply, received, backendVars, took>>

(* The client's timeout, or the end of the client: the thread is not told.  *)
Leave(c) ==
    /\ up /\ open[c] /\ phase[c] # "done"
    /\ open' = [open EXCEPT ![c] = FALSE]
    /\ UNCHANGED <<up, phase, call, warm, reply, received, backendVars, took>>

-----------------------------------------------------------------------------
(* Replies.                                                                 *)
ErrorReply(error, correlation) ==
    [error |-> error, session |-> correlation.session, step |-> correlation.step,
     payload |-> Absent]
Uncorrelated == [session |-> Absent, step |-> Absent]
HealthReply == ErrorReply(Ok, Uncorrelated)
NotFound == Error("INVALID_REQUEST", 404)
InternalError == Error("INTERNAL_ERROR", 500)
BackendError == Error("BACKEND_ERROR", 500)

ReplyWith(c, r) == reply' = [reply EXCEPT ![c] = r]
Fail(c) == Goto(c, "replying") /\ ReplyWith(c, ErrorReply(InternalError, Correlation(call[c].body)))

-----------------------------------------------------------------------------
(* do_GET, and do_POST as far as the body.                                  *)
HeaderError(what) == FirstError(
    <<Unless(what.path = "/v1/infer", NotFound),
      Unless(what.json, BadRequest),
      Unless(what.length \in Int, BadRequest),
      Unless(what.length \in Int => what.length >= 0, BadRequest),
      Unless(what.length \in Int => what.length <= MaxRequestBodyBytes,
             Error("IMAGE_TOO_LARGE", 413))>>)

DoGet(c) ==
    /\ call[c].method = "GET"
    /\ Goto(c, "replying")
    /\ ReplyWith(c, IF call[c].path = "/health" THEN HealthReply
                    ELSE ErrorReply(NotFound, Uncorrelated))

RefuseHeaders(c) ==
    /\ call[c].method = "POST" /\ HeaderError(call[c]) # Ok
    /\ Goto(c, "refusing")
    /\ ReplyWith(c, ErrorReply(HeaderError(call[c]), Uncorrelated))

BeginReading(c) ==
    /\ call[c].method = "POST" /\ HeaderError(call[c]) = Ok
    /\ Goto(c, "reading")
    /\ UNCHANGED reply

(* Faulty: HTTPServer instead of ThreadingHTTPServer.                       *)
FaultyAccept(c) ==
    /\ At(c, "queued")
    /\ \A d \in Connections : phase[d] \in {"idle", "queued", "done"}
    /\ DoGet(c) \/ RefuseHeaders(c) \/ BeginReading(c)
    /\ UNCHANGED <<up, clientVars, received, backendVars, took>>

(* serve_forever hands the connection to a thread.                          *)
Accept(c) ==
    /\ At(c, "queued")
    /\ DoGet(c) \/ RefuseHeaders(c) \/ BeginReading(c)
    /\ UNCHANGED <<up, clientVars, received, backendVars, took>>

(* The body has been read and is checked.                                   *)
ReadBody(c) ==
    /\ At(c, "reading") /\ open[c]
    /\ LET payload == call[c].body IN
       \/ /\ payload = NotJson
          /\ Goto(c, "replying")
          /\ ReplyWith(c, ErrorReply(Error("INVALID_JSON", 400), Uncorrelated))
       \/ /\ payload # NotJson /\ RequestFromDict(payload) # Ok
          /\ Goto(c, "replying")
          /\ ReplyWith(c, ErrorReply(RequestFromDict(payload), Correlation(payload)))
       \/ /\ payload # NotJson /\ RequestFromDict(payload) = Ok
          /\ Goto(c, "checking")
          /\ UNCHANGED reply
    /\ UNCHANGED <<up, clientVars, received, backendVars, took>>

(* The client left: read returns less than announced, or raises.            *)
ReadFails(c) ==
    /\ At(c, "reading") /\ ~open[c]
    /\ Goto(c, "replying")
    /\ \E error \in {Error("INVALID_JSON", 400), InternalError} :
            ReplyWith(c, ErrorReply(error, Uncorrelated))
    /\ UNCHANGED <<up, clientVars, received, backendVars, took>>

-----------------------------------------------------------------------------
(* _get_model_and_processor.                                                *)

(* Faulty: only the attribute stored first is looked at.                    *)
FaultyNotLoaded == model = None

NotLoaded == model = None \/ processor = None

CheckModel(c) ==
    /\ At(c, "checking")
    /\ Goto(c, IF NotLoaded THEN "loading" ELSE "taking")
    /\ UNCHANGED <<up, clientVars, reply, received, backendVars, took>>

LoadFails(c) ==
    /\ At(c, "loading")
    /\ Fail(c)
    /\ UNCHANGED <<up, clientVars, received, backendVars, took>>

StoreModel(c) ==
    /\ At(c, "loading")
    /\ model' = c
    /\ Goto(c, "storing")
    /\ UNCHANGED <<up, clientVars, reply, received, processor, detector, took>>

StoreProcessor(c) ==
    /\ At(c, "storing")
    /\ processor' = c
    /\ Goto(c, "taking")
    /\ UNCHANGED <<up, clientVars, reply, received, model, detector, took>>

TakeModel(c) ==
    /\ At(c, "taking")
    /\ took' = [took EXCEPT ![c].model = model]
    /\ Goto(c, "taking processor")
    /\ UNCHANGED <<up, clientVars, reply, received, backendVars>>

TakeProcessor(c) ==
    /\ At(c, "taking processor")
    /\ took' = [took EXCEPT ![c].processor = processor]
    /\ Goto(c, "inferring")
    /\ UNCHANGED <<up, clientVars, reply, received, backendVars>>

(* A download, a generation or a detection that does not come back.         *)
(* Nothing in do_POST bounds the time the backend takes.                    *)
Hang(c) ==
    /\ \E long \in {"loading", "inferring", "loading detector", "located"} : At(c, long)
    /\ Goto(c, "hung")
    /\ UNCHANGED <<up, clientVars, reply, received, backendVars, took>>

-----------------------------------------------------------------------------
(* infer: the model generates text, which may call for the detector.        *)
AskDetector(c) ==
    /\ At(c, "inferring") /\ Fallback
    /\ Goto(c, "locating")
    /\ UNCHANGED <<up, clientVars, reply, received, backendVars, took>>

CheckDetector(c) ==
    /\ At(c, "locating")
    /\ Goto(c, IF detector = None THEN "loading detector" ELSE "located")
    /\ UNCHANGED <<up, clientVars, reply, received, backendVars, took>>

StoreDetector(c) ==
    /\ At(c, "loading detector")
    /\ detector' = c
    /\ Goto(c, "located")
    /\ UNCHANGED <<up, clientVars, reply, received, model, processor, took>>

(* Faulty: the memory of the model is given back after a failure.           *)
FaultyInferRaises(c) ==
    /\ At(c, "inferring")
    /\ Fail(c)
    /\ model' = None /\ processor' = None
    /\ UNCHANGED <<up, clientVars, received, detector, took>>

(* Whatever raises in infer, except the loading of the model.               *)
InferRaises(c) ==
    /\ At(c, "inferring") \/ At(c, "loading detector") \/ At(c, "located")
    /\ Fail(c)
    /\ UNCHANGED <<up, clientVars, received, backendVars, took>>

(* Faulty: the step of the answer is not compared.                          *)
FaultyAnswerError(request, answer) ==
    LET r == Normalized(answer, ServiceName)
    IN  FirstError(<<ValidateResponse(r), Unless(r.session = request.session, BackendError)>>)

(* What do_POST finds wrong with an answer: normalize_response and the      *)
(* comparison with the request.                                             *)
AnswerError(request, answer) ==
    LET r == Normalized(answer, ServiceName)
    IN  FirstError(<<Unless("metadata" \notin answer.broken, InternalError),
                     ValidateResponse(r),
                     Unless(r.session = request.session, BackendError),
                     Unless(r.step = request.step, BackendError)>>)

AnswerReply(request, answer) ==
    LET r == Normalized(answer, ServiceName)
        error == IF answer = Mistyped THEN BackendError ELSE AnswerError(request, answer)
    IN  IF error # Ok THEN ErrorReply(error, Correlation(request))
        ELSE [error |-> Ok, session |-> r.session, step |-> r.step,
              payload |-> ResponsePayloadOf(r)]

Answer(c, answer) ==
    /\ At(c, "inferring") \/ At(c, "located")
    /\ Goto(c, "replying")
    /\ ReplyWith(c, AnswerReply(call[c].body, answer))
    /\ UNCHANGED <<up, clientVars, received, backendVars, took>>

-----------------------------------------------------------------------------
(* _send_json.  Serialising comes before the first byte is written; when it *)
(* raises, the reply is that of InferRaises.                                *)

(* Faulty: the handler fails after its reply is out.                        *)
FaultyWrite(c) ==
    /\ At(c, "replying") /\ open[c]
    /\ received' = [received EXCEPT ![c] = Append(@, reply[c])]
    /\ IF reply[c].payload = Absent THEN Goto(c, "done") /\ UNCHANGED reply ELSE Fail(c)
    /\ UNCHANGED <<up, clientVars, backendVars, took>>

Write(c) ==
    /\ At(c, "replying") /\ open[c]
    /\ received' = [received EXCEPT ![c] = Append(@, reply[c])]
    /\ Goto(c, "done")
    /\ UNCHANGED <<up, clientVars, reply, backendVars, took>>

(* The body was not read: closing the connection may reset it before the    *)
(* reply is read at the other end.                                          *)
WriteRefusal(c) ==
    /\ At(c, "refusing") /\ open[c]
    /\ \/ received' = [received EXCEPT ![c] = Append(@, reply[c])] /\ UNCHANGED open
       \/ open' = [open EXCEPT ![c] = FALSE] /\ UNCHANGED received
    /\ Goto(c, "done")
    /\ UNCHANGED <<up, call, warm, reply, backendVars, took>>

(* Faulty: an error reply is attempted until it gets through.               *)
FaultyWriteToNobody(c) ==
    /\ At(c, "replying") \/ At(c, "refusing")
    /\ ~open[c]
    /\ reply[c].payload # Absent /\ Fail(c)
    /\ UNCHANGED <<up, clientVars, received, backendVars, took>>

(* The client is gone: the write is lost without notice, or raises.  In     *)
(* do_POST the exception of a successful reply is answered with another     *)
(* reply; that of an error reply ends the thread.                           *)
WriteToNobody(c) ==
    /\ At(c, "replying") \/ At(c, "refusing")
    /\ ~open[c]
    /\ \/ Goto(c, "done") /\ UNCHANGED reply
       \/ reply[c].payload # Absent /\ Fail(c)
    /\ UNCHANGED <<up, clientVars, received, backendVars, took>>

(* Ctrl-C, or the end of the process: the threads are daemons.              *)
Stop ==
    /\ up /\ up' = FALSE
    /\ open' = [c \in Connections |-> FALSE]
    /\ UNCHANGED <<phase, call, warm, reply, received, backendVars, took>>

(* The process is started again.  Its predecessor's threads and everything  *)
(* they had loaded are gone.                                                *)
Start ==
    /\ ~up /\ up' = TRUE
    /\ phase' = [c \in Connections |-> IF phase[c] = "idle" THEN "idle" ELSE "done"]
    /\ model' = None /\ processor' = None /\ detector' = None
    /\ warm' = {}
    /\ UNCHANGED <<call, open, reply, received, took>>

-----------------------------------------------------------------------------
(* The thread of a connection, apart from the backend's long computations.  *)
Handle(c) ==
    \/ Accept(c) \/ ReadBody(c) \/ ReadFails(c)
    \/ CheckModel(c) \/ StoreProcessor(c) \/ TakeModel(c) \/ TakeProcessor(c)
    \/ CheckDetector(c)
    \/ Write(c) \/ WriteRefusal(c) \/ WriteToNobody(c)

Compute(c) ==
    \/ LoadFails(c) \/ StoreModel(c)
    \/ AskDetector(c) \/ StoreDetector(c) \/ InferRaises(c)
    \/ \E answer \in Answers : Answer(c, answer)

Client(c) == Leave(c) \/ \E what \in Calls : Connect(c, what)

Next ==
    \/ Stop \/ Start
    \/ \E c \in Connections : Client(c) \/ Handle(c) \/ Compute(c) \/ Hang(c)
Safety == Init /\ [][Next]_vars

(* The operating system runs every thread that can run, a client that stays *)
(* sends the body it announced, and a computation that does not hang ends.  *)
Fairness == \A c \in Connections : WF_vars(Handle(c)) /\ WF_vars(Compute(c))
Spec == Safety /\ Fairness

-----------------------------------------------------------------------------
(* Properties.                                                              *)

(* Every variable has its type.                                             *)
TypeOK ==
    /\ up \in BOOLEAN
    /\ phase \in [Connections -> Phases]
    /\ call \in [Connections -> Calls \cup {None}]
    /\ open \in [Connections -> BOOLEAN]
    /\ reply \in [Connections -> Reply \cup {None}]
    /\ received \in [Connections -> Seq(Reply)]
    /\ {model, processor, detector} \subseteq Connections \cup {None}
    /\ took \in [Connections -> [model : Connections \cup {None},
                                 processor : Connections \cup {None}]]
    /\ warm \subseteq Connections

(* infer never works with a model or a processor that is None, although     *)
(* threads look at the two attributes while others store them one by one.   *)
UsesLoadedModel ==
    \A c \in Connections :
        phase[c] \in {"inferring", "locating", "loading detector", "located"}
            => took[c].model # None /\ took[c].processor # None

(* Once a request has found the model in place, no later one loads it:      *)
(* however many threads race through a cold start, loading ends for good.   *)
WarmCallsNeverLoad == \A c \in warm : phase[c] \notin {"loading", "storing"}

(* A client that stays gets one reply: none is missing when its thread is   *)
(* done, and the second reply that follows an exception of the first never  *)
(* reaches somebody who has the first.                                      *)
ExactlyOneReply ==
    \A c \in Connections :
        /\ Len(received[c]) <= 1
        /\ phase[c] = "done" /\ open[c] => Len(received[c]) = 1

(* An answer that reaches a client is one the client's codec accepts, and   *)
(* it is the answer to the request of this connection, although the backend *)
(* and its model are shared by all threads.                                 *)
DeliveredAnswersMatch ==
    \A c \in Connections : \A i \in 1..Len(received[c]) :
        LET r == received[c][i] IN
        r.payload # Absent =>
            /\ ResponseFromDict(r.payload) = Ok
            /\ r.payload.session = call[c].body.session
            /\ r.payload.step = call[c].body.step

(* Every call comes to an end, unless its own computation hangs: also when  *)
(* the computations of others do, and when its client has left.             *)
EveryCallEnds ==
    \A c \in Connections :
        (phase[c] = "queued") ~> (phase[c] \in {"done", "hung"} \/ ~up)

(* Calls that do not need the backend come to an end while it hangs: the    *)
(* health check works, a bad request is refused.                            *)
NeedsBackend(what) ==
    /\ what.method = "POST" /\ HeaderError(what) = Ok /\ what.body # NotJson
    /\ RequestFromDict(what.body) = Ok
HealthWhileHanging ==
    \A c \in Connections :
        (phase[c] = "queued" /\ ~NeedsBackend(call[c])) ~> (phase[c] = "done" \/ ~up)

(* docs/interface_v1.md: "BACKEND_ERROR: The inference backend failed or is *)
(* unavailable."  An exception of the backend is an INTERNAL_ERROR.         *)
BackendFailureReported ==
    [][\A c \in Connections :
        (LoadFails(c) \/ InferRaises(c)) => reply'[c].error.code = "BACKEND_ERROR"]_vars
=============================================================================
