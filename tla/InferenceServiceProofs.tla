----------------------- MODULE InferenceServiceProofs -----------------------
(***************************************************************************)
(* The safety of InferenceService, for any number of connections and any   *)
(* calls and answers of the right type.                                    *)
(***************************************************************************)
EXTENDS InferenceService, ProtocolProofs

-----------------------------------------------------------------------------
(* Replies.                                                                 *)

(* What DeliveredAnswersMatch asks of one reply.                            *)
Matches(r, body) ==
    r.payload # Absent =>
        /\ ResponseFromDict(r.payload) = Ok
        /\ r.payload.session = body.session
        /\ r.payload.step = body.step

(* What a thread may be about to write to the sender of body.               *)
Fit(r, body) ==
    /\ r \in Reply /\ Matches(r, body)
    /\ r.payload # Absent => body \in RequestPayload

LEMMA ErrorReplyFits ==
    ASSUME NEW error \in Errors, NEW body
    PROVE  /\ Fit(ErrorReply(error, Uncorrelated), body)
           /\ body \in RequestPayload => Fit(ErrorReply(error, Correlation(body)), body)
<1>1. Uncorrelated.session = Absent /\ Uncorrelated.step = Absent
  BY DEF Uncorrelated
<1>2. ASSUME body \in RequestPayload
      PROVE  /\ Correlation(body).session \in Texts \cup {Blank, Absent}
             /\ Correlation(body).step \in Int \cup {Absent}
  BY <1>2 DEF Correlation, RequestPayload, Strings, Steps
<1> QED
  BY <1>1, <1>2 DEF ErrorReply, Fit, Matches, Reply

LEMMA ServiceErrors == {Ok, NotFound, InternalError, BackendError} \subseteq Errors
BY ErrorsAreErrors DEF NotFound, InternalError, BackendError, Codes

LEMMA HeaderErrorIsError ==
    ASSUME NEW what
    PROVE  HeaderError(what) \in Errors
<1> DEFINE
      path == Unless(what.path = "/v1/infer", NotFound)
      json == Unless(what.json, BadRequest)
      int == Unless(what.length \in Int, BadRequest)
      sign == Unless(what.length \in Int => what.length >= 0, BadRequest)
      large == Unless(what.length \in Int => what.length <= MaxRequestBodyBytes,
                      Error("IMAGE_TOO_LARGE", 413))
<1>1. {Ok, NotFound, BadRequest, Error("IMAGE_TOO_LARGE", 413)} \subseteq Errors
  BY ServiceErrors, ErrorsAreErrors DEF Codes
<1>2. {path, json, int, sign, large} \subseteq Errors
  BY <1>1 DEF Unless
<1> HIDE DEF path, json, int, sign, large
<1>3. <<path, json, int, sign, large>> \in Seq(Errors)
  BY <1>2
<1> QED
  BY <1>3, FirstErrorIsOne DEF HeaderError, path, json, int, sign, large

(* The headers of a request that is read.                                   *)
LEMMA HeaderAccepts ==
    ASSUME NEW what, what.path = "/v1/infer", what.json,
           what.length \in 0..MaxRequestBodyBytes
    PROVE  HeaderError(what) = Ok
<1>1. what.length \in Int /\ what.length >= 0 /\ what.length <= MaxRequestBodyBytes
  BY ProtocolAssumption
<1>2. HeaderError(what) = FirstError(<<Ok, Ok, Ok, Ok, Ok>>)
  BY <1>1 DEF HeaderError, Unless
<1>3. <<Ok, Ok, Ok, Ok, Ok>> \in Seq(Errors) /\ AllOk(<<Ok, Ok, Ok, Ok, Ok>>)
  BY ServiceErrors DEF AllOk
<1> QED
  BY <1>2, <1>3, FirstErrorIsOne

(* A request of the right form is refused here only for its length.         *)
LEMMA HeaderRefusesLength ==
    ASSUME NEW what, what.path = "/v1/infer", what.json, what.length \in Nat,
           ~(what.length <= MaxRequestBodyBytes)
    PROVE  HeaderError(what) = Error("IMAGE_TOO_LARGE", 413)
<1> DEFINE large == Error("IMAGE_TOO_LARGE", 413)
           list == <<Ok, Ok, Ok, Ok, large>>
           raised == {i \in 1..Len(list) : list[i] # Ok}
<1>1. HeaderError(what) = FirstError(list)
  BY DEF HeaderError, Unless
<1>2. large # Ok
  BY DEF Ok, Error
<1> HIDE DEF large
<1>3. raised = {5} /\ list[5] = large
  BY <1>2
<1>4. (CHOOSE i \in raised : \A j \in raised : i <= j) = 5
  BY <1>3
<1>5. FirstError(list) = list[CHOOSE i \in raised : \A j \in raised : i <= j]
  BY <1>3 DEF FirstError
<1> QED
  BY <1>1, <1>3, <1>4, <1>5 DEF large

(* An answer is passed on only when it is valid and belongs to the request. *)
LEMMA AnswerErrorAccepts ==
    ASSUME NEW request, NEW answer \in Response
    PROVE  LET r == Normalized(answer, ServiceName) IN
           /\ AnswerError(request, answer) \in Errors
           /\ AnswerError(request, answer) = Ok =>
                /\ Valid(r)
                /\ r.session = request.session /\ r.step = request.step
<1> DEFINE
      r == Normalized(answer, ServiceName)
      metadata == Unless("metadata" \notin answer.broken, InternalError)
      valid == ValidateResponse(r)
      session == Unless(r.session = request.session, BackendError)
      step == Unless(r.step = request.step, BackendError)
      list == <<metadata, valid, session, step>>
<1>1. /\ {Ok, InternalError, BackendError} \subseteq Errors
      /\ BackendError # Ok
  BY ServiceErrors DEF BackendError, Ok, Error
<1>2. r \in Response
  BY NormalizedIsResponse, ServiceAssumption
<1>3. /\ AnswerError(request, answer) = FirstError(list)
  BY DEF AnswerError
<1> HIDE DEF r
<1>4. Len(r.chunks) \in Nat /\ Len(r.waypoints) \in Nat /\ r.broken \subseteq ResponseParts
  BY <1>2, LenProperties DEF Response
<1>5. valid \in Errors /\ (valid = Ok => Valid(r))
  BY <1>4, ValidateResponseAccepts
<1>6. /\ {metadata, session, step} \subseteq Errors
      /\ session = Ok => r.session = request.session
      /\ step = Ok => r.step = request.step
  BY <1>1 DEF Unless
<1> HIDE DEF metadata, valid, session, step
<1>7. /\ list \in Seq(Errors)
      /\ AllOk(list) => valid = Ok /\ session = Ok /\ step = Ok
  BY <1>5, <1>6 DEF AllOk
<1> HIDE DEF list
<1> QED
  BY <1>3, <1>5, <1>6, <1>7, FirstErrorIsOne DEF r

LEMMA AnswerReplyFits ==
    ASSUME NEW body \in RequestPayload, NEW answer \in Answers
    PROVE  Fit(AnswerReply(body, answer), body)
<1> DEFINE r == Normalized(answer, ServiceName)
           error == IF answer = Mistyped THEN BackendError ELSE AnswerError(body, answer)
<1>1. CASE error # Ok
  <2>1. error \in Errors
    BY ServiceErrors, AnswerErrorAccepts, ServiceAssumption
  <2>2. AnswerReply(body, answer) = ErrorReply(error, Correlation(body))
    BY <1>1 DEF AnswerReply
  <2> QED
    BY <2>1, <2>2, ErrorReplyFits
<1>2. CASE error = Ok
  <2>1. answer # Mistyped /\ answer \in Response
    BY <1>2, ServiceAssumption DEF BackendError, Ok, Error
  <2>2. Valid(r) /\ r.session = body.session /\ r.step = body.step
    BY <1>2, <2>1, AnswerErrorAccepts
  <2>3. r \in Response
    BY <2>1, NormalizedIsResponse, ServiceAssumption
  <2>4. AnswerReply(body, answer) = [error |-> Ok, session |-> r.session, step |-> r.step,
                                    payload |-> ResponsePayloadOf(r)]
    BY <1>2 DEF AnswerReply
  <2> HIDE DEF r
  <2>5. /\ ResponsePayloadOf(r) \in ResponsePayload
        /\ ResponseFromDict(ResponsePayloadOf(r)) = Ok
    BY <2>2, <2>3, ValidReadsBack, ResponseFromDictAccepts
  <2>6. /\ ResponsePayloadOf(r).session = r.session
        /\ ResponsePayloadOf(r).step = r.step
    BY DEF ResponsePayloadOf
  <2>7. r.session \in Texts /\ r.step \in Int
    BY <2>2 DEF Valid
  <2> QED
    BY <2>2, <2>4, <2>5, <2>6, <2>7, ErrorsAreErrors DEF Fit, Matches, Reply
<1> QED
  BY <1>1, <1>2

-----------------------------------------------------------------------------
(* The inductive invariant.                                                 *)

Working == {"checking", "loading", "storing", "taking", "taking processor",
            "inferring", "locating", "loading detector", "located"}
Loaded == {"taking", "taking processor", "inferring", "locating", "loading detector", "located"}
ModelTaken == Loaded \ {"taking"}
BothTaken == ModelTaken \ {"taking processor"}

(* One connection: the request is a payload while it is worked on, the      *)
(* reply about to be written fits it, and nothing is received before the    *)
(* thread is done.                                                          *)
Exchange(c) ==
    /\ phase[c] # "idle" => call[c] \in Calls
    /\ phase[c] \in Working => call[c].body \in RequestPayload
    /\ phase[c] \in {"replying", "refusing"} => Fit(reply[c], call[c].body)
    /\ phase[c] # "done" => received[c] = <<>>
    /\ phase[c] = "done" =>
          \/ received[c] = <<>> /\ ~open[c]
          \/ \E r \in Reply : Fit(r, call[c].body) /\ received[c] = <<r>>

(* The attributes are never None again, and a thread that has passed the    *)
(* check has what it needs.                                                 *)
Loading(c) ==
    /\ phase[c] = "storing" => model # None
    /\ phase[c] \in Loaded => model # None /\ processor # None
    /\ phase[c] \in ModelTaken => took[c].model # None
    /\ phase[c] \in BothTaken => took[c].processor # None
    /\ c \in warm => /\ model # None /\ processor # None
                     /\ phase[c] \notin {"loading", "storing"}

(* A process that is gone has no connections.                               *)
Severed == ~up => \A c \in Connections : ~open[c]

ServiceInvariant ==
    /\ TypeOK /\ Severed
    /\ \A c \in Connections : Exchange(c) /\ Loading(c)

LEMMA InitInvariant == Init => ServiceInvariant
BY ServiceAssumption
   DEF Init, ServiceInvariant, TypeOK, Exchange, Loading, Phases, Working, Loaded, ModelTaken,
       BothTaken, Severed

(* A step that gives the thread a fitting reply to write.                   *)
LEMMA ReplyingKeeps ==
    ASSUME ServiceInvariant, NEW c \in Connections, phase[c] \notin {"idle", "done"},
           NEW p \in {"replying", "refusing"}, Goto(c, p),
           NEW r, Fit(r, call[c].body), ReplyWith(c, r),
           UNCHANGED <<up, clientVars, received, backendVars, took>>
    PROVE  ServiceInvariant'
<1>1. TypeOK /\ Severed /\ \A d \in Connections : Exchange(d) /\ Loading(d)
  BY DEF ServiceInvariant
<1>2. UNCHANGED <<up, call, open, warm, received, model, processor, detector, took>>
  BY DEF clientVars, backendVars
<1>3. /\ phase' \in [Connections -> Phases] /\ phase'[c] = p
      /\ \A d \in Connections \ {c} : phase'[d] = phase[d]
  BY <1>1 DEF Goto, TypeOK, Phases
<1>4. /\ reply' \in [Connections -> Reply \cup {None}] /\ reply'[c] = r
      /\ \A d \in Connections \ {c} : reply'[d] = reply[d]
  BY <1>1 DEF ReplyWith, TypeOK, Fit
<1>5. TypeOK'
  BY <1>1, <1>2, <1>3, <1>4 DEF TypeOK
<1>6. Exchange(c)'
  BY <1>1, <1>2, <1>3, <1>4 DEF Exchange, Working
<1>7. \A d \in Connections \ {c} : Exchange(d)'
  BY <1>1, <1>2, <1>3, <1>4 DEF Exchange
<1>8. \A d \in Connections : Loading(d)'
  BY <1>1, <1>2, <1>3 DEF Loading, Loaded, ModelTaken, BothTaken
<1>9. Severed'
  BY <1>1, <1>2 DEF Severed
<1> QED
  BY <1>5, <1>6, <1>7, <1>8, <1>9 DEF ServiceInvariant

(* A step that only takes the thread on with its work.                      *)
LEMMA WorkingKeepsExchange ==
    ASSUME ServiceInvariant, NEW c \in Connections, phase[c] \notin {"idle", "done"},
           NEW p \in Working \cup {"reading", "hung"}, Goto(c, p),
           p \in Working => call[c].body \in RequestPayload,
           UNCHANGED <<up, clientVars, reply, received>>
    PROVE  /\ Severed' /\ \A d \in Connections : Exchange(d)'
           /\ phase' \in [Connections -> Phases] /\ phase'[c] = p
           /\ \A d \in Connections \ {c} : phase'[d] = phase[d]
           /\ UNCHANGED <<up, call, open, warm, reply, received>>
<1>1. TypeOK /\ Severed /\ \A d \in Connections : Exchange(d)
  BY DEF ServiceInvariant
<1>2. UNCHANGED <<up, call, open, warm, reply, received>>
  BY DEF clientVars
<1>3. /\ phase' \in [Connections -> Phases] /\ phase'[c] = p
      /\ \A d \in Connections \ {c} : phase'[d] = phase[d]
  BY <1>1 DEF Goto, TypeOK, Phases, Working
<1>4. Exchange(c)'
  BY <1>1, <1>2, <1>3 DEF Exchange, Working
<1>5. \A d \in Connections \ {c} : Exchange(d)'
  BY <1>1, <1>2, <1>3 DEF Exchange
<1>6. Severed'
  BY <1>1, <1>2 DEF Severed
<1> QED
  BY <1>2, <1>3, <1>4, <1>5, <1>6

(* The thread fails while it works on a request.                            *)
LEMMA FailKeeps ==
    ASSUME ServiceInvariant, NEW c \in Connections, phase[c] \notin {"idle", "done"},
           call[c].body \in RequestPayload, Fail(c),
           UNCHANGED <<up, clientVars, received, backendVars, took>>
    PROVE  ServiceInvariant'
<1> DEFINE r == ErrorReply(InternalError, Correlation(call[c].body))
<1>1. Fit(r, call[c].body)
  BY ErrorReplyFits, ServiceErrors
<1>2. Goto(c, "replying") /\ ReplyWith(c, r)
  BY DEF Fail
<1> HIDE DEF r
<1> QED
  BY <1>1, <1>2, ReplyingKeeps

-----------------------------------------------------------------------------
(* The steps of a thread.                                                   *)

LEMMA AcceptKeeps ==
    ASSUME ServiceInvariant, NEW c \in Connections, Accept(c)
    PROVE  ServiceInvariant'
<1>1. /\ phase[c] = "queued"
      /\ UNCHANGED <<up, clientVars, received, backendVars, took>>
  BY DEF Accept, At
<1>2. CASE DoGet(c)
  <2> DEFINE r == IF call[c].path = "/health" THEN HealthReply
                  ELSE ErrorReply(NotFound, Uncorrelated)
  <2>1. Fit(r, call[c].body)
    BY ErrorReplyFits, ServiceErrors DEF HealthReply
  <2>2. Goto(c, "replying") /\ ReplyWith(c, r)
    BY <1>2 DEF DoGet
  <2> HIDE DEF r
  <2> QED
    BY <1>1, <2>1, <2>2, ReplyingKeeps
<1>3. CASE RefuseHeaders(c)
  <2> DEFINE r == ErrorReply(HeaderError(call[c]), Uncorrelated)
  <2>1. Fit(r, call[c].body)
    BY ErrorReplyFits, HeaderErrorIsError
  <2>2. Goto(c, "refusing") /\ ReplyWith(c, r)
    BY <1>3 DEF RefuseHeaders
  <2> HIDE DEF r
  <2> QED
    BY <1>1, <2>1, <2>2, ReplyingKeeps
<1>4. CASE BeginReading(c)
  <2>1. Goto(c, "reading") /\ UNCHANGED reply
    BY <1>4 DEF BeginReading
  <2>2. /\ Severed' /\ \A d \in Connections : Exchange(d)'
        /\ phase' \in [Connections -> Phases] /\ phase'[c] = "reading"
        /\ \A d \in Connections \ {c} : phase'[d] = phase[d]
        /\ UNCHANGED <<up, call, open, warm, reply, received>>
    BY <1>1, <2>1, WorkingKeepsExchange DEF Working
  <2> QED
    BY <1>1, <2>2 DEF ServiceInvariant, TypeOK, Loading, backendVars, Loaded, ModelTaken, BothTaken
<1> QED
  BY <1>2, <1>3, <1>4 DEF Accept

LEMMA ReadKeeps ==
    ASSUME ServiceInvariant, NEW c \in Connections, ReadBody(c) \/ ReadFails(c)
    PROVE  ServiceInvariant'
<1> DEFINE payload == call[c].body
<1>1. /\ phase[c] = "reading"
      /\ UNCHANGED <<up, clientVars, received, backendVars, took>>
  BY DEF ReadBody, ReadFails, At
<1>2. call[c] \in Calls /\ payload \in RequestPayload \cup {NotJson}
  BY <1>1, ServiceAssumption DEF ServiceInvariant, Exchange, Call
<1>3. Error("INVALID_JSON", 400) \in Errors /\ InternalError \in Errors
  BY ErrorsAreErrors, ServiceErrors DEF Codes
<1>4. CASE \E error \in Errors : /\ Goto(c, "replying")
                                 /\ ReplyWith(c, ErrorReply(error, Uncorrelated))
  <2>1. PICK error \in Errors : /\ Goto(c, "replying")
                               /\ ReplyWith(c, ErrorReply(error, Uncorrelated))
    BY <1>4
  <2>2. Fit(ErrorReply(error, Uncorrelated), payload)
    BY ErrorReplyFits
  <2> QED
    BY <1>1, <2>1, <2>2, ReplyingKeeps
<1>5. CASE /\ payload \in RequestPayload /\ Goto(c, "replying")
           /\ ReplyWith(c, ErrorReply(RequestFromDict(payload), Correlation(payload)))
  <2>1. Len(payload.history) \in Nat
    BY <1>5, LenProperties DEF RequestPayload
  <2>2. RequestFromDict(payload) \in Errors
    BY <2>1, RequestFromDictAccepts
  <2>3. Fit(ErrorReply(RequestFromDict(payload), Correlation(payload)), payload)
    BY <1>5, <2>2, ErrorReplyFits
  <2> QED
    BY <1>1, <1>5, <2>3, ReplyingKeeps
<1>6. CASE payload \in RequestPayload /\ Goto(c, "checking") /\ UNCHANGED reply
  <2>1. /\ Severed' /\ \A d \in Connections : Exchange(d)'
        /\ phase' \in [Connections -> Phases] /\ phase'[c] = "checking"
        /\ \A d \in Connections \ {c} : phase'[d] = phase[d]
        /\ UNCHANGED <<up, call, open, warm, reply, received>>
    BY <1>1, <1>6, WorkingKeepsExchange DEF Working
  <2> QED
    BY <1>1, <2>1 DEF ServiceInvariant, TypeOK, Loading, backendVars, Loaded, ModelTaken, BothTaken
<1> QED
  BY <1>2, <1>3, <1>4, <1>5, <1>6 DEF ReadBody, ReadFails

(* Two threads' work differs in what it does to the attributes and to took: *)
(* each case first says where the thread goes.                              *)
LEMMA LoadingKeeps ==
    ASSUME ServiceInvariant, NEW c \in Connections,
           \/ CheckModel(c) \/ StoreModel(c) \/ StoreProcessor(c)
           \/ TakeModel(c) \/ TakeProcessor(c)
           \/ AskDetector(c) \/ CheckDetector(c) \/ StoreDetector(c) \/ Hang(c)
    PROVE  ServiceInvariant'
<1>1. /\ TypeOK /\ \A d \in Connections : Exchange(d) /\ Loading(d)
      /\ c # None
  BY ServiceAssumption DEF ServiceInvariant
<1>2. PICK p \in Working \cup {"hung"} : Goto(c, p)
  BY DEF CheckModel, StoreModel, StoreProcessor, TakeModel, TakeProcessor, AskDetector,
         CheckDetector, StoreDetector, Hang, Working
<1>3. /\ phase[c] \in Working
      /\ UNCHANGED <<up, clientVars, reply, received>>
  BY DEF CheckModel, StoreModel, StoreProcessor, TakeModel, TakeProcessor, AskDetector,
         CheckDetector, StoreDetector, Hang, Working, At
<1>4. call[c].body \in RequestPayload
  BY <1>1, <1>3 DEF Exchange
<1>5. /\ Severed' /\ \A d \in Connections : Exchange(d)'
      /\ phase' \in [Connections -> Phases] /\ phase'[c] = p
      /\ \A d \in Connections \ {c} : phase'[d] = phase[d]
      /\ UNCHANGED <<up, call, open, warm, reply, received>>
  BY <1>2, <1>3, <1>4, WorkingKeepsExchange DEF Working
<1>6. CASE CheckModel(c)
  <2>1. TypeOK'
    BY <1>1, <1>5, <1>6 DEF CheckModel, TypeOK, backendVars
  <2>2. \A d \in Connections : Loading(d)'
    BY <1>1, <1>5, <1>6
       DEF CheckModel, NotLoaded, TypeOK, Loading, At, Goto, backendVars, Loaded, ModelTaken, BothTaken
  <2> QED
    BY <1>5, <2>1, <2>2 DEF ServiceInvariant
<1>7. CASE StoreModel(c)
  <2>1. TypeOK'
    BY <1>1, <1>5, <1>7 DEF StoreModel, TypeOK, backendVars
  <2>2. \A d \in Connections : Loading(d)'
    BY <1>1, <1>5, <1>7
       DEF StoreModel, TypeOK, Loading, At, Goto, backendVars, Loaded, ModelTaken, BothTaken
  <2> QED
    BY <1>5, <2>1, <2>2 DEF ServiceInvariant
<1>8. CASE StoreProcessor(c)
  <2>1. TypeOK'
    BY <1>1, <1>5, <1>8 DEF StoreProcessor, TypeOK, backendVars
  <2>2. \A d \in Connections : Loading(d)'
    BY <1>1, <1>5, <1>8
       DEF StoreProcessor, TypeOK, Loading, At, Goto, backendVars, Loaded, ModelTaken, BothTaken
  <2> QED
    BY <1>5, <2>1, <2>2 DEF ServiceInvariant
<1>9. CASE TakeModel(c)
  <2>1. TypeOK'
    BY <1>1, <1>5, <1>9 DEF TakeModel, TypeOK, backendVars
  <2>2. \A d \in Connections : Loading(d)'
    <3>1. /\ took'[c].model = model /\ took'[c].processor = took[c].processor
          /\ \A d \in Connections \ {c} : took'[d] = took[d]
      BY <1>1, <1>9 DEF TakeModel, TypeOK
    <3>2. /\ UNCHANGED <<model, processor>>
          /\ phase[c] = "taking"
          /\ phase'[c] = "taking processor"
      BY <1>1, <1>9 DEF TakeModel, At, Goto, TypeOK, backendVars
    <3> QED
      BY <1>1, <1>5, <3>1, <3>2 DEF Loading, Loaded, ModelTaken, BothTaken
  <2> QED
    BY <1>5, <2>1, <2>2 DEF ServiceInvariant
<1>10. CASE TakeProcessor(c)
  <2>1. TypeOK'
    BY <1>1, <1>5, <1>10 DEF TakeProcessor, TypeOK, backendVars
  <2>2. \A d \in Connections : Loading(d)'
    <3>1. /\ took'[c].processor = processor /\ took'[c].model = took[c].model
          /\ \A d \in Connections \ {c} : took'[d] = took[d]
      BY <1>1, <1>10 DEF TakeProcessor, TypeOK
    <3>2. /\ UNCHANGED <<model, processor>>
          /\ phase[c] = "taking processor"
          /\ phase'[c] = "inferring"
      BY <1>1, <1>10 DEF TakeProcessor, At, Goto, TypeOK, backendVars
    <3> QED
      BY <1>1, <1>5, <3>1, <3>2 DEF Loading, Loaded, ModelTaken, BothTaken
  <2> QED
    BY <1>5, <2>1, <2>2 DEF ServiceInvariant
<1>11. CASE AskDetector(c)
  <2>1. TypeOK'
    BY <1>1, <1>5, <1>11 DEF AskDetector, TypeOK, backendVars
  <2>2. \A d \in Connections : Loading(d)'
    BY <1>1, <1>5, <1>11
       DEF AskDetector, TypeOK, Loading, At, Goto, backendVars, Loaded, ModelTaken, BothTaken
  <2> QED
    BY <1>5, <2>1, <2>2 DEF ServiceInvariant
<1>12. CASE CheckDetector(c)
  <2>1. TypeOK'
    BY <1>1, <1>5, <1>12 DEF CheckDetector, TypeOK, backendVars
  <2>2. \A d \in Connections : Loading(d)'
    BY <1>1, <1>5, <1>12
       DEF CheckDetector, TypeOK, Loading, At, Goto, backendVars, Loaded, ModelTaken, BothTaken
  <2> QED
    BY <1>5, <2>1, <2>2 DEF ServiceInvariant
<1>13. CASE StoreDetector(c)
  <2>1. TypeOK'
    BY <1>1, <1>5, <1>13 DEF StoreDetector, TypeOK, backendVars
  <2>2. \A d \in Connections : Loading(d)'
    BY <1>1, <1>5, <1>13
       DEF StoreDetector, TypeOK, Loading, At, Goto, backendVars, Loaded, ModelTaken, BothTaken
  <2> QED
    BY <1>5, <2>1, <2>2 DEF ServiceInvariant
<1>14. CASE Hang(c)
  <2>1. TypeOK'
    BY <1>1, <1>5, <1>14 DEF Hang, TypeOK, backendVars
  <2>2. \A d \in Connections : Loading(d)'
    BY <1>1, <1>5, <1>14
       DEF Hang, TypeOK, Loading, At, Goto, backendVars, Loaded, ModelTaken, BothTaken
  <2> QED
    BY <1>5, <2>1, <2>2 DEF ServiceInvariant
<1> QED
  BY <1>6, <1>7, <1>8, <1>9, <1>10, <1>11, <1>12, <1>13, <1>14

LEMMA AnsweringKeeps ==
    ASSUME ServiceInvariant, NEW c \in Connections,
           LoadFails(c) \/ InferRaises(c) \/ \E answer \in Answers : Answer(c, answer)
    PROVE  ServiceInvariant'
<1>1. /\ phase[c] \in Working
      /\ UNCHANGED <<up, clientVars, received, backendVars, took>>
  BY DEF LoadFails, InferRaises, Answer, At, Working
<1>2. call[c].body \in RequestPayload /\ phase[c] \notin {"idle", "done"}
  BY <1>1 DEF ServiceInvariant, Exchange, Working
<1>3. CASE Fail(c)
  BY <1>1, <1>2, <1>3, FailKeeps
<1>4. CASE \E answer \in Answers : Answer(c, answer)
  <2>1. PICK answer \in Answers : Answer(c, answer)
    BY <1>4
  <2>2. Fit(AnswerReply(call[c].body, answer), call[c].body)
    BY <1>2, AnswerReplyFits
  <2>3. Goto(c, "replying") /\ ReplyWith(c, AnswerReply(call[c].body, answer))
    BY <2>1 DEF Answer
  <2> QED
    BY <1>1, <1>2, <2>2, <2>3, ReplyingKeeps
<1> QED
  BY <1>3, <1>4 DEF LoadFails, InferRaises

LEMMA WritingKeeps ==
    ASSUME ServiceInvariant, NEW c \in Connections,
           Write(c) \/ WriteRefusal(c) \/ WriteToNobody(c)
    PROVE  ServiceInvariant'
<1>1. /\ TypeOK /\ Severed /\ \A d \in Connections : Exchange(d) /\ Loading(d)
      /\ up /\ phase[c] \in {"replying", "refusing"}
      /\ UNCHANGED <<up, call, warm, backendVars, took>>
  BY DEF ServiceInvariant, Write, WriteRefusal, WriteToNobody, At, clientVars
<1>2. /\ received[c] = <<>> /\ Fit(reply[c], call[c].body) /\ reply[c] \in Reply
  BY <1>1 DEF Exchange, Fit
<1>3. CASE Goto(c, "done") /\ UNCHANGED reply
  <2>1. /\ phase' \in [Connections -> Phases] /\ phase'[c] = "done"
        /\ \A d \in Connections \ {c} : phase'[d] = phase[d]
    BY <1>1, <1>3 DEF Goto, TypeOK, Phases
  <2>2. /\ received' \in [Connections -> Seq(Reply)] /\ open' \in [Connections -> BOOLEAN]
        /\ \A d \in Connections \ {c} : received'[d] = received[d] /\ open'[d] = open[d]
        /\ \/ received'[c] = <<>> /\ ~open'[c]
           \/ received'[c] = <<reply[c]>>
    <3>1. CASE received' = [received EXCEPT ![c] = Append(@, reply[c])] /\ UNCHANGED open
      BY <1>1, <1>2, <3>1 DEF TypeOK
    <3>2. CASE open' = [open EXCEPT ![c] = FALSE] /\ UNCHANGED received
      BY <1>1, <1>2, <3>2 DEF TypeOK
    <3>3. CASE ~open[c] /\ UNCHANGED <<open, received>>
      BY <1>1, <1>2, <3>3 DEF TypeOK
    <3> QED
      BY <3>1, <3>2, <3>3 DEF Write, WriteRefusal, WriteToNobody, clientVars
  <2>3. TypeOK'
    BY <1>1, <1>3, <2>1, <2>2 DEF TypeOK, backendVars
  <2>4. Exchange(c)'
    BY <1>1, <1>2, <2>1, <2>2 DEF Exchange, Working
  <2>5. \A d \in Connections \ {c} : Exchange(d)'
    BY <1>1, <1>3, <2>1, <2>2 DEF Exchange
  <2>6. \A d \in Connections : Loading(d)'
    BY <1>1, <2>1 DEF Loading, backendVars, Loaded, ModelTaken, BothTaken
  <2>7. Severed'
    BY <1>1 DEF Severed
  <2> QED
    BY <2>3, <2>4, <2>5, <2>6, <2>7 DEF ServiceInvariant
<1>4. CASE reply[c].payload # Absent /\ Fail(c) /\ UNCHANGED <<open, received>>
  BY <1>1, <1>2, <1>4, FailKeeps DEF Fit, clientVars
<1> QED
  BY <1>3, <1>4 DEF Write, WriteRefusal, WriteToNobody, clientVars

-----------------------------------------------------------------------------
(* The clients, and the process.                                            *)

LEMMA ConnectKeeps ==
    ASSUME ServiceInvariant, NEW c \in Connections, NEW what \in Calls, Connect(c, what)
    PROVE  ServiceInvariant'
<1>1. /\ TypeOK /\ \A d \in Connections : Exchange(d) /\ Loading(d)
      /\ up /\ phase[c] = "idle"
      /\ UNCHANGED <<up, reply, received, model, processor, detector, took>>
  BY DEF ServiceInvariant, Connect, At, backendVars
<1>2. /\ phase' \in [Connections -> Phases] /\ phase'[c] = "queued"
      /\ \A d \in Connections \ {c} : phase'[d] = phase[d]
  BY <1>1 DEF Connect, Goto, TypeOK, Phases
<1>3. /\ call' \in [Connections -> Calls \cup {None}] /\ call'[c] = what
      /\ open' \in [Connections -> BOOLEAN]
      /\ \A d \in Connections \ {c} : call'[d] = call[d] /\ open'[d] = open[d]
  BY <1>1 DEF Connect, TypeOK
<1>4. warm' \subseteq Connections
      /\ \A d \in warm' : d \in warm \/ (d = c /\ model # None /\ processor # None)
  BY <1>1 DEF Connect, TypeOK
<1>5. TypeOK'
  BY <1>1, <1>2, <1>3, <1>4 DEF TypeOK
<1>6. Exchange(c)'
  BY <1>1, <1>2, <1>3 DEF Exchange, Working
<1>7. \A d \in Connections \ {c} : Exchange(d)'
  BY <1>1, <1>2, <1>3 DEF Exchange
<1>8. \A d \in Connections : Loading(d)'
  BY <1>1, <1>2, <1>4 DEF Loading, Loaded, ModelTaken, BothTaken
<1>9. Severed'
  BY <1>1 DEF Severed
<1> QED
  BY <1>5, <1>6, <1>7, <1>8, <1>9 DEF ServiceInvariant

(* A connection breaks: whoever is done is either served or without reply.  *)
LEMMA LeavingKeeps ==
    ASSUME ServiceInvariant, Stop \/ \E c \in Connections : Leave(c)
    PROVE  ServiceInvariant'
<1>1. TypeOK /\ Severed /\ \A d \in Connections : Exchange(d) /\ Loading(d)
  BY DEF ServiceInvariant
<1>2. /\ UNCHANGED <<phase, call, warm, reply, received, model, processor, detector, took>>
      /\ up' \in BOOLEAN
      /\ open' \in [Connections -> BOOLEAN]
      /\ \A d \in Connections : open'[d] => open[d]
      /\ Severed'
  BY <1>1 DEF Stop, Leave, TypeOK, Severed, backendVars
<1>3. TypeOK'
  BY <1>1, <1>2 DEF TypeOK
<1>4. \A d \in Connections : Exchange(d)'
  BY <1>1, <1>2 DEF Exchange
<1>5. \A d \in Connections : Loading(d)'
  BY <1>1, <1>2 DEF Loading
<1> QED
  BY <1>2, <1>3, <1>4, <1>5 DEF ServiceInvariant

(* A new process: who was waiting in the old one is without reply.          *)
LEMMA StartKeeps ==
    ASSUME ServiceInvariant, Start
    PROVE  ServiceInvariant'
<1>1. TypeOK /\ Severed /\ \A d \in Connections : Exchange(d)
  BY DEF ServiceInvariant
<1>2. /\ up' = TRUE /\ warm' = {} /\ \A d \in Connections : ~open'[d]
      /\ UNCHANGED <<call, open, reply, received, took>>
      /\ {model', processor', detector'} = {None}
  BY <1>1 DEF Start, Severed
<1>3. /\ phase' \in [Connections -> Phases]
      /\ \A d \in Connections : \/ phase'[d] = "idle" /\ phase[d] = "idle"
                                \/ phase'[d] = "done" /\ phase[d] # "idle"
  BY <1>1 DEF Start, Phases
<1>4. TypeOK' /\ Severed'
  <2>1. TypeOK'
    BY <1>1, <1>2, <1>3 DEF TypeOK
  <2> QED
    BY <1>2, <2>1 DEF Severed
<1>5. \A d \in Connections : Exchange(d)'
  BY <1>1, <1>2, <1>3 DEF Exchange, Working
<1>6. \A d \in Connections : Loading(d)'
  BY <1>2, <1>3 DEF Loading, Loaded, ModelTaken, BothTaken
<1> QED
  BY <1>4, <1>5, <1>6 DEF ServiceInvariant

-----------------------------------------------------------------------------
(* The invariant holds, and what follows from it.                           *)

LEMMA NextKeepsInvariant == ServiceInvariant /\ [Next]_vars => ServiceInvariant'
<1> SUFFICES ASSUME ServiceInvariant, [Next]_vars
             PROVE  ServiceInvariant'
  OBVIOUS
<1>1. CASE UNCHANGED vars
  BY <1>1 DEF vars, clientVars, backendVars, ServiceInvariant, TypeOK, Exchange, Loading, Severed
<1>2. CASE Stop \/ Start
  BY <1>2, LeavingKeeps, StartKeeps
<1>3. ASSUME NEW c \in Connections, Client(c)
      PROVE  ServiceInvariant'
  BY <1>3, ConnectKeeps, LeavingKeeps DEF Client
<1>4. ASSUME NEW c \in Connections, Handle(c)
      PROVE  ServiceInvariant'
  BY <1>4, AcceptKeeps, ReadKeeps, LoadingKeeps, WritingKeeps DEF Handle
<1>5. ASSUME NEW c \in Connections, Compute(c) \/ Hang(c)
      PROVE  ServiceInvariant'
  BY <1>5, LoadingKeeps, AnsweringKeeps DEF Compute
<1> QED
  BY <1>1, <1>2, <1>3, <1>4, <1>5 DEF Next

THEOREM ServiceInvariantHolds == Safety => []ServiceInvariant
BY InitInvariant, NextKeepsInvariant, PTL DEF Safety

(* Every variable has its type, for any set of connections.                 *)
THEOREM ServiceTypeCorrect == Safety => []TypeOK
<1>1. ServiceInvariant => TypeOK
  BY DEF ServiceInvariant
<1> QED
  BY <1>1, ServiceInvariantHolds, PTL

(* No thread works with a model or a processor that is None, however many   *)
(* threads race through the loading.                                        *)
THEOREM UsesLoadedModelHolds == Safety => []UsesLoadedModel
<1>1. ServiceInvariant => UsesLoadedModel
  BY DEF ServiceInvariant, Loading, UsesLoadedModel, Loaded, ModelTaken, BothTaken
<1> QED
  BY <1>1, ServiceInvariantHolds, PTL

(* A request that arrives when the model is in place never loads it.        *)
THEOREM WarmCallsNeverLoadHolds == Safety => []WarmCallsNeverLoad
<1>1. ServiceInvariant => WarmCallsNeverLoad
  BY DEF ServiceInvariant, TypeOK, Loading, WarmCallsNeverLoad
<1> QED
  BY <1>1, ServiceInvariantHolds, PTL

(* A client that stays gets one reply.                                      *)
THEOREM ExactlyOneReplyHolds == Safety => []ExactlyOneReply
<1>1. ServiceInvariant => ExactlyOneReply
  <2> SUFFICES ASSUME ServiceInvariant, NEW c \in Connections
               PROVE  /\ Len(received[c]) <= 1
                      /\ phase[c] = "done" /\ open[c] => Len(received[c]) = 1
    BY DEF ExactlyOneReply
  <2>1. \/ received[c] = <<>> /\ ~(phase[c] = "done" /\ open[c])
        \/ \E r \in Reply : received[c] = <<r>>
    BY DEF ServiceInvariant, Exchange
  <2>2. CASE received[c] = <<>> /\ ~(phase[c] = "done" /\ open[c])
    <3>1. Len(received[c]) = 0
      BY <2>2
    <3> QED
      BY <2>2, <3>1
  <2>3. CASE \E r \in Reply : received[c] = <<r>>
    <3>1. Len(received[c]) = 1
      BY <2>3
    <3> QED
      BY <3>1
  <2> QED
    BY <2>1, <2>2, <2>3
<1> QED
  BY <1>1, ServiceInvariantHolds, PTL

(* An answer that reaches a client is valid and answers the request of its  *)
(* own connection.                                                          *)
THEOREM DeliveredAnswersMatchHolds == Safety => []DeliveredAnswersMatch
<1>1. ServiceInvariant => DeliveredAnswersMatch
  BY DEF ServiceInvariant, Exchange, Fit, Matches, DeliveredAnswersMatch
<1> QED
  BY <1>1, ServiceInvariantHolds, PTL
=============================================================================
