--------------------------- MODULE ProtocolProofs ---------------------------
(***************************************************************************)
(* What the checks of Protocol accept, and that accepted messages survive  *)
(* their way to the other side, for messages of any length and every value *)
(* of the limits.                                                          *)
(***************************************************************************)
EXTENDS Protocol, SequenceTheorems, WellFoundedInduction, TLAPS

AllOk(errors) == \A i \in 1..Len(errors) : errors[i] = Ok

-----------------------------------------------------------------------------
(* A non-empty set of numbers has a least element.                          *)
LEMMA LeastElement ==
    ASSUME NEW S, S \subseteq Nat, S # {}
    PROVE  \E x \in S : \A y \in S : x <= y
<1> DEFINE R == OpToRel(<, Nat)
<1>1. IsWellFoundedOn(R, Nat)
  BY NatLessThanWellFounded
<1>2. R = {ss \in Nat \X Nat : ss[1] < ss[2]}
  BY DEF OpToRel
<1> HIDE DEF R
<1>3. PICK x \in S : \A y \in S : ~(<<y, x>> \in R)
  BY <1>1, WFMin
<1>4. \A y \in S : x \in Nat /\ y \in Nat /\ (~(y < x) <=> x <= y)
  OBVIOUS
<1> QED
  BY <1>2, <1>3, <1>4

-----------------------------------------------------------------------------
(* Recursive functions over numbers.  What induction would show of them     *)
(* follows from the least counterexample.                                   *)
LEMMA Descent ==
    ASSUME NEW bad, bad \subseteq Nat, \A m \in bad : m # 0 /\ m - 1 \in bad
    PROVE  bad = {}
<1>1. ASSUME bad # {} PROVE FALSE
  <2>1. PICK m \in bad : \A y \in bad : m <= y
    BY <1>1, LeastElement
  <2> QED
    BY <2>1
<1> QED
  BY <1>1

(* The running totals of n numbers.                                         *)
SumsUp(f, base, w, n) ==
    /\ f \in [0..n -> Int] /\ f[0] = base
    /\ \A i \in 1..n : f[i] = f[i - 1] + w[i]

(* Their recursive definition has a solution, and each solution is what it  *)
(* says.                                                                    *)
LEMMA SumsExist ==
    ASSUME NEW base \in Int, NEW n \in Nat, NEW w \in [1..n -> Int]
    PROVE  \E f : f = [i \in 0..n |-> IF i = 0 THEN base ELSE f[i - 1] + w[i]]
<1> DEFINE bad == {m \in 0..n : ~ \E f : SumsUp(f, base, w, m)}
<1>1. ASSUME NEW m \in bad PROVE m # 0 /\ m - 1 \in bad
  <2>1. m # 0
    <3>1. SumsUp([i \in 0..0 |-> base], base, w, 0)
      BY DEF SumsUp
    <3> QED
      BY <3>1
  <2>2. ASSUME NEW f, SumsUp(f, base, w, m - 1) PROVE FALSE
    <3> DEFINE g == [i \in 0..m |-> IF i < m THEN f[i] ELSE f[m - 1] + w[m]]
    <3>1. SumsUp(g, base, w, m)
      BY <2>1, <2>2 DEF SumsUp
    <3> HIDE DEF g
    <3> QED
      BY <3>1
  <2>3. m - 1 \in 0..n
    BY <2>1
  <2> QED
    BY <2>1, <2>2, <2>3
<1>2. bad = {}
  <2>1. bad \subseteq Nat
    OBVIOUS
  <2> HIDE DEF bad
  <2> QED
    BY <1>1, <2>1, Descent
<1>3. PICK f : SumsUp(f, base, w, n)
  <2>1. n \notin bad
    BY <1>2
  <2> QED
    BY <2>1
<1>4. \A i \in 0..n : f[i] = IF i = 0 THEN base ELSE f[i - 1] + w[i]
  BY <1>3 DEF SumsUp
<1>5. f = [i \in 0..n |-> f[i]]
  BY <1>3 DEF SumsUp
<1> QED
  BY <1>4, <1>5

LEMMA SumsAreSums ==
    ASSUME NEW base \in Int, NEW n \in Nat, NEW w \in [1..n -> Int],
           NEW f, f = [i \in 0..n |-> IF i = 0 THEN base ELSE f[i - 1] + w[i]]
    PROVE  SumsUp(f, base, w, n)
<1>1. \A i \in 0..n : f[i] = IF i = 0 THEN base ELSE f[i - 1] + w[i]
  OBVIOUS
<1> DEFINE bad == {m \in 0..n : f[m] \notin Int}
<1>2. ASSUME NEW m \in bad PROVE m # 0 /\ m - 1 \in bad
  <2>1. m # 0
    BY <1>1
  <2>2. m \in 1..n /\ m - 1 \in 0..n
    BY <2>1
  <2> QED
    BY <1>1, <2>1, <2>2
<1>3. bad = {}
  <2>1. bad \subseteq Nat
    OBVIOUS
  <2> HIDE DEF bad
  <2> QED
    BY <1>2, <2>1, Descent
<1>4. \A i \in 0..n : f[i] \in Int
  BY <1>3
<1>5. f \in [0..n -> Int]
  <2> DEFINE body(i) == IF i = 0 THEN base ELSE f[i - 1] + w[i]
  <2>1. f = [i \in 0..n |-> body(i)] /\ \A i \in 0..n : body(i) \in Int
    BY <1>1, <1>4
  <2> HIDE DEF body
  <2> QED
    BY <2>1
<1> QED
  BY <1>1, <1>5 DEF SumsUp

(* n + 1 numbers that are at most k.                                        *)
LEMMA SumBounded ==
    ASSUME NEW k \in Nat, NEW base \in 0..k, NEW n \in Nat, NEW w \in [1..n -> 0..k],
           NEW f, SumsUp(f, base, w, n)
    PROVE  f[n] \in 0..((n + 1) * k)
<1> DEFINE bad == {m \in 0..n : f[m] \notin 0..((m + 1) * k)}
<1>1. ASSUME NEW m \in bad PROVE m # 0 /\ m - 1 \in bad
  <2>1. m # 0
    BY DEF SumsUp
  <2>2. m \in 1..n /\ m - 1 \in 0..n /\ (m - 1) + 1 = m
    BY <2>1
  <2>3. f[m] = f[m - 1] + w[m] /\ w[m] \in 0..k
    BY <2>2 DEF SumsUp
  <2>4. (m + 1) * k = m * k + k /\ m * k \in Int
    OBVIOUS
  <2>5. f[m - 1] \notin 0..(m * k)
    BY <2>3, <2>4
  <2> QED
    BY <2>1, <2>2, <2>5
<1>2. bad = {}
  <2>1. bad \subseteq Nat
    OBVIOUS
  <2> HIDE DEF bad
  <2> QED
    BY <1>1, <2>1, Descent
<1> QED
  BY <1>2

-----------------------------------------------------------------------------
(* FirstError returns Ok exactly when every check does, and else an error   *)
(* of one of the checks.                                                    *)
LEMMA FirstErrorIsOne ==
    ASSUME NEW errors \in Seq(Errors)
    PROVE  /\ FirstError(errors) \in Errors
           /\ FirstError(errors) = Ok <=> AllOk(errors)
<1> DEFINE raised == {i \in 1..Len(errors) : errors[i] # Ok}
<1>1. Ok \in Errors
  BY DEF Ok, Error, Errors, Codes
<1>2. CASE raised = {}
  BY <1>1, <1>2 DEF FirstError, AllOk
<1>3. CASE raised # {}
  <2> DEFINE least == CHOOSE i \in raised : \A j \in raised : i <= j
  <2>1. raised \subseteq Nat
    OBVIOUS
  <2>2. \E i \in raised : \A j \in raised : i <= j
    BY <1>3, <2>1, LeastElement
  <2>3. least \in raised
    BY <2>2
  <2>4. FirstError(errors) = errors[least]
    BY <1>3 DEF FirstError
  <2> QED
    BY <2>3, <2>4 DEF AllOk
<1> QED
  BY <1>2, <1>3

(* A check list made of two is passed when both are.                        *)
LEMMA AllOkConcat ==
    ASSUME NEW s \in Seq(Errors), NEW t \in Seq(Errors)
    PROVE  /\ s \o t \in Seq(Errors)
           /\ AllOk(s \o t) <=> AllOk(s) /\ AllOk(t)
<1>1. /\ s \o t \in Seq(Errors)
      /\ Len(s \o t) = Len(s) + Len(t)
      /\ \A i \in 1..Len(s) + Len(t) :
            (s \o t)[i] = IF i <= Len(s) THEN s[i] ELSE t[i - Len(s)]
  BY ConcatProperties
<1>2. Len(s) \in Nat /\ Len(t) \in Nat
  BY LenProperties
<1>3. ASSUME AllOk(s \o t), NEW i \in 1..Len(t)
      PROVE  t[i] = Ok
  <2>1. Len(s) + i \in 1..Len(s) + Len(t)
    BY <1>2
  <2>2. (s \o t)[Len(s) + i] = t[i]
    BY <1>1, <1>2, <2>1
  <2> QED
    BY <1>1, <1>3, <2>1, <2>2 DEF AllOk
<1>4. AllOk(s \o t) => AllOk(s)
  BY <1>1, <1>2 DEF AllOk
<1>5. AllOk(s) /\ AllOk(t) => AllOk(s \o t)
  BY <1>1, <1>2 DEF AllOk
<1> QED
  BY <1>1, <1>3, <1>4, <1>5 DEF AllOk

(* The errors the checks raise.                                             *)
LEMMA ErrorsAreErrors ==
    /\ Ok \in Errors
    /\ {BadRequest, BadVersion, TooManyImages, BadReply, BadAction, BadWaypoint} \subseteq Errors
    /\ \A code \in Codes, status \in {200, 400, 404, 413, 422, 500} :
            Error(code, status) \in Errors
BY DEF Ok, Error, Errors, Codes, BadRequest, BadVersion, TooManyImages, BadReply, BadAction,
       BadWaypoint

(* The checks of a loop over n elements.                                    *)
LEMMA LoopIsCheckList ==
    ASSUME NEW n \in Nat, NEW f \in [1..n -> Errors]
    PROVE  /\ f \in Seq(Errors)
           /\ AllOk(f) <=> \A i \in 1..n : f[i] = Ok
<1>1. f \in Seq(Errors)
  BY SeqDef
<1>2. Len(f) = n
  BY <1>1, LenProperties
<1> QED
  BY <1>1, <1>2 DEF AllOk

-----------------------------------------------------------------------------
(* Responses.                                                               *)

(* What validate_response lets through.                                     *)
Valid(r) ==
    /\ r.broken = {}
    /\ r.version = ApiVersion /\ r.session \in Texts /\ r.step \in Nat
    /\ r.command \in Commands /\ OneRepresentation(r)
    /\ Len(r.waypoints) <= MaxWaypoints
    /\ \A i \in 1..Len(r.chunks) : ValidateActionChunk(r.chunks[i]) = Ok
    /\ \A i \in 1..Len(r.waypoints) : ValidateWaypoint(r.waypoints[i]) = Ok
    /\ r.stop \in BOOLEAN /\ r.backend \in Texts /\ r.time = "valid"

LEMMA ElementChecksAreErrors ==
    ASSUME NEW x
    PROVE  /\ ValidateActionChunk(x) \in Errors
           /\ ValidateWaypoint(x) \in Errors
           /\ HasRequiredMembers(x) \in Errors
           /\ HasCoordinates(x) \in Errors
<1>1. BadAction \in Errors /\ BadWaypoint \in Errors /\ Ok \in Errors
  BY ErrorsAreErrors
<1> QED
  BY <1>1
     DEF Unless, ValidateActionChunk, ValidateWaypoint, HasRequiredMembers, HasCoordinates

(* validate_response, on anything with the two arrays being sequences.      *)
LEMMA ValidateResponseAccepts ==
    ASSUME NEW r, Len(r.chunks) \in Nat, Len(r.waypoints) \in Nat,
           r.broken \subseteq ResponseParts
    PROVE  /\ ValidateResponse(r) \in Errors
           /\ ValidateResponse(r) = Ok <=> Valid(r)
<1> DEFINE
      version == Unless(r.version = ApiVersion, Error("UNSUPPORTED_API_VERSION", 422))
      session == Unless(r.session \in Texts, BadReply)
      step == Unless(r.step \in Nat, BadReply)
      command == Unless(r.command \in Commands, BadReply)
      chunksList == Unless("chunks" \notin r.broken, BadAction)
      waypointsList == Unless("waypoints" \notin r.broken, BadWaypoint)
      one == Unless(OneRepresentation(r), BadWaypoint)
      many == Unless(Len(r.waypoints) <= MaxWaypoints, BadWaypoint)
      stop == Unless(r.stop \in BOOLEAN, BadReply)
      metadata == Unless("metadata" \notin r.broken, BadReply)
      backend == Unless(r.backend \in Texts, BadReply)
      time == Unless(r.time = "valid", BadReply)
      head == <<version, session, step, command, chunksList, waypointsList, one, many>>
      chunks == [i \in 1..Len(r.chunks) |-> ValidateActionChunk(r.chunks[i])]
      waypoints == [i \in 1..Len(r.waypoints) |-> ValidateWaypoint(r.waypoints[i])]
      tail == <<stop, metadata, backend, time>>
<1>1. ValidateResponse(r) = FirstError(head \o chunks \o waypoints \o tail)
  BY DEF ValidateResponse, ErrorsOf
<1>2. /\ {Ok, BadReply, BadAction, BadWaypoint} \subseteq Errors
      /\ Error("UNSUPPORTED_API_VERSION", 422) \in Errors
      /\ Ok \notin {BadReply, BadAction, BadWaypoint, Error("UNSUPPORTED_API_VERSION", 422)}
  BY ErrorsAreErrors DEF Error, Ok, BadReply, BadAction, BadWaypoint, Codes
<1>3. /\ {version, session, step, command, chunksList, waypointsList, one, many} \subseteq Errors
      /\ {stop, metadata, backend, time} \subseteq Errors
  BY <1>2 DEF Unless
<1>4. /\ version = Ok <=> r.version = ApiVersion
      /\ session = Ok <=> r.session \in Texts
      /\ step = Ok <=> r.step \in Nat
      /\ command = Ok <=> r.command \in Commands
      /\ chunksList = Ok <=> "chunks" \notin r.broken
      /\ waypointsList = Ok <=> "waypoints" \notin r.broken
      /\ one = Ok <=> OneRepresentation(r)
      /\ many = Ok <=> Len(r.waypoints) <= MaxWaypoints
      /\ stop = Ok <=> r.stop \in BOOLEAN
      /\ metadata = Ok <=> "metadata" \notin r.broken
      /\ backend = Ok <=> r.backend \in Texts
      /\ time = Ok <=> r.time = "valid"
  BY <1>2 DEF Unless
<1>5. /\ chunks \in Seq(Errors)
      /\ AllOk(chunks) <=> \A i \in 1..Len(r.chunks) : ValidateActionChunk(r.chunks[i]) = Ok
  BY ElementChecksAreErrors, LoopIsCheckList
<1>6. /\ waypoints \in Seq(Errors)
      /\ AllOk(waypoints)
            <=> \A i \in 1..Len(r.waypoints) : ValidateWaypoint(r.waypoints[i]) = Ok
  BY ElementChecksAreErrors, LoopIsCheckList
<1> HIDE DEF version, session, step, command, chunksList, waypointsList, one, many,
             stop, metadata, backend, time
<1>7. /\ head \in Seq(Errors) /\ tail \in Seq(Errors)
      /\ AllOk(head) <=> /\ version = Ok /\ session = Ok /\ step = Ok /\ command = Ok
                         /\ chunksList = Ok /\ waypointsList = Ok /\ one = Ok /\ many = Ok
      /\ AllOk(tail) <=> stop = Ok /\ metadata = Ok /\ backend = Ok /\ time = Ok
  BY <1>3 DEF AllOk
<1> HIDE DEF head, chunks, waypoints, tail
<1>8. /\ head \o chunks \o waypoints \o tail \in Seq(Errors)
      /\ AllOk(head \o chunks \o waypoints \o tail)
            <=> AllOk(head) /\ AllOk(chunks) /\ AllOk(waypoints) /\ AllOk(tail)
  BY <1>5, <1>6, <1>7, AllOkConcat
<1>9. /\ ValidateResponse(r) \in Errors
      /\ ValidateResponse(r) = Ok
            <=> AllOk(head) /\ AllOk(chunks) /\ AllOk(waypoints) /\ AllOk(tail)
  BY <1>1, <1>8, FirstErrorIsOne
<1>10. r.broken = {} <=> /\ "chunks" \notin r.broken /\ "waypoints" \notin r.broken
                        /\ "metadata" \notin r.broken
  BY DEF ResponseParts
<1> QED
  BY <1>4, <1>5, <1>6, <1>7, <1>9, <1>10 DEF Valid

(* What response_from_dict lets through.                                    *)
Readable(p) ==
    /\ p.broken = {}
    /\ \A i \in 1..Len(p.chunks) : HasRequiredMembers(p.chunks[i]) = Ok
    /\ \A i \in 1..Len(p.waypoints) : HasCoordinates(p.waypoints[i]) = Ok

LEMMA ResponseFromDictAccepts ==
    ASSUME NEW p \in ResponsePayload
    PROVE  /\ ResponseFromDict(p) \in Errors
           /\ ResponseFromDict(p) = Ok <=> Readable(p) /\ Valid(ResponseFromPayload(p))
<1> DEFINE
      body == Unless("body" \notin p.broken, BadReply)
      chunksList == Unless("chunks" \notin p.broken, BadAction)
      waypointsList == Unless("waypoints" \notin p.broken, BadWaypoint)
      metadata == Unless("metadata" \notin p.broken, BadReply)
      head == <<body, chunksList, waypointsList>>
      chunks == [i \in 1..Len(p.chunks) |-> HasRequiredMembers(p.chunks[i])]
      waypoints == [i \in 1..Len(p.waypoints) |-> HasCoordinates(p.waypoints[i])]
      tail == <<metadata>>
      list == head \o chunks \o waypoints \o tail
      r == ResponseFromPayload(p)
<1>1. ResponseFromDict(p) = IF FirstError(list) # Ok THEN FirstError(list)
                           ELSE ValidateResponse(r)
  BY DEF ResponseFromDict, ErrorsOf
<1>2. /\ {Ok, BadReply, BadAction, BadWaypoint} \subseteq Errors
      /\ Ok \notin {BadReply, BadAction, BadWaypoint}
  BY ErrorsAreErrors DEF Error, Ok, BadReply, BadAction, BadWaypoint, Codes
<1>3. /\ {body, chunksList, waypointsList, metadata} \subseteq Errors
      /\ body = Ok <=> "body" \notin p.broken
      /\ chunksList = Ok <=> "chunks" \notin p.broken
      /\ waypointsList = Ok <=> "waypoints" \notin p.broken
      /\ metadata = Ok <=> "metadata" \notin p.broken
  BY <1>2 DEF Unless
<1>4. /\ Len(p.chunks) \in Nat /\ Len(p.waypoints) \in Nat
      /\ p.broken \subseteq ResponseParts \cup {"body"}
  BY LenProperties DEF ResponsePayload
<1>5. /\ chunks \in Seq(Errors)
      /\ AllOk(chunks) <=> \A i \in 1..Len(p.chunks) : HasRequiredMembers(p.chunks[i]) = Ok
  BY <1>4, ElementChecksAreErrors, LoopIsCheckList
<1>6. /\ waypoints \in Seq(Errors)
      /\ AllOk(waypoints) <=> \A i \in 1..Len(p.waypoints) : HasCoordinates(p.waypoints[i]) = Ok
  BY <1>4, ElementChecksAreErrors, LoopIsCheckList
<1>7. p.broken = {} <=> /\ "body" \notin p.broken /\ "chunks" \notin p.broken
                       /\ "waypoints" \notin p.broken /\ "metadata" \notin p.broken
  BY <1>4 DEF ResponseParts
<1> HIDE DEF body, chunksList, waypointsList, metadata
<1>8. /\ head \in Seq(Errors) /\ tail \in Seq(Errors)
      /\ AllOk(head) <=> body = Ok /\ chunksList = Ok /\ waypointsList = Ok
      /\ AllOk(tail) <=> metadata = Ok
  BY <1>3 DEF AllOk
<1> HIDE DEF head, chunks, waypoints, tail
<1>9. /\ list \in Seq(Errors)
      /\ AllOk(list) <=> AllOk(head) /\ AllOk(chunks) /\ AllOk(waypoints) /\ AllOk(tail)
  BY <1>5, <1>6, <1>8, AllOkConcat
<1> HIDE DEF list
<1>10. FirstError(list) \in Errors /\ (FirstError(list) = Ok <=> AllOk(list))
  BY <1>9, FirstErrorIsOne
<1>11. AllOk(list) <=> Readable(p)
  BY <1>3, <1>5, <1>6, <1>7, <1>8, <1>9 DEF Readable
<1>12. /\ Len(r.chunks) \in Nat /\ Len(r.waypoints) \in Nat
       /\ r.broken \subseteq ResponseParts
  BY <1>4 DEF ResponseFromPayload
<1>13. ValidateResponse(r) \in Errors /\ (ValidateResponse(r) = Ok <=> Valid(r))
  BY <1>12, ValidateResponseAccepts
<1> HIDE DEF r
<1> QED
  BY <1>1, <1>10, <1>11, <1>13 DEF r

(* normalize_response yields a response that every check can be applied to. *)
LEMMA NormalizedIsResponse ==
    ASSUME NEW answer \in Response, NEW name \in Texts
    PROVE  Normalized(answer, name) \in Response
BY DEF Normalized, Response, Versions, Strings

(* What response_to_dict writes has the members response_from_dict asks     *)
(* for, and reads back as it was.                                           *)
LEMMA ValidReadsBack ==
    ASSUME NEW r \in Response, Valid(r)
    PROVE  /\ ResponsePayloadOf(r) \in ResponsePayload
           /\ Readable(ResponsePayloadOf(r))
           /\ ResponseFromPayload(ResponsePayloadOf(r)) = r
<1> DEFINE p == ResponsePayloadOf(r)
<1>1. /\ p = [r EXCEPT !.broken = {}] /\ p = r
  BY DEF ResponsePayloadOf, Valid, Response
<1>2. /\ r.chunks \in Seq(Chunk \cup {Mistyped})
      /\ r.waypoints \in Seq(Waypoint \cup {Mistyped})
  BY DEF Response
<1>3. BadAction # Ok /\ BadWaypoint # Ok
  BY DEF BadAction, BadWaypoint, Ok, Error
<1>4. ASSUME NEW i \in 1..Len(r.chunks)
      PROVE  /\ r.chunks[i] \in Chunk
             /\ HasRequiredMembers(r.chunks[i]) = Ok
             /\ ChunkFromPayload(r.chunks[i]) = r.chunks[i]
  <2> DEFINE chunk == r.chunks[i]
  <2>1. ValidateActionChunk(chunk) = Ok
    BY DEF Valid
  <2>2. chunk # Mistyped /\ chunk.index \in Nat /\ chunk.action \in Actions
        /\ chunk.repeat \in Nat
    BY <1>3, <2>1 DEF ValidateActionChunk, Unless
  <2>3. chunk \in Chunk
    BY <1>2, <2>2, ElementOfSeq
  <2>4. chunk.index # Absent /\ chunk.action # Absent /\ chunk.repeat # Absent
    BY <2>2, MarkerAssumption
  <2> HIDE DEF chunk
  <2>5. HasRequiredMembers(chunk) = Ok
    BY <2>2, <2>4 DEF HasRequiredMembers, Unless
  <2>6. ChunkFromPayload(chunk) = chunk
    BY <2>3, <2>4 DEF ChunkFromPayload, Default, Chunk
  <2> QED
    BY <2>3, <2>5, <2>6 DEF chunk
<1>5. ASSUME NEW i \in 1..Len(r.waypoints)
      PROVE  r.waypoints[i] \in Waypoint /\ HasCoordinates(r.waypoints[i]) = Ok
  BY <1>3 DEF Valid, ValidateWaypoint, HasCoordinates, Unless, Waypoint
<1>6. Readable(p)
  BY <1>1, <1>4, <1>5 DEF Readable, Valid
<1>7. r.chunks \in Seq(WireChunk \cup {Mistyped})
  <2>1. Chunk \cup {Mistyped} \subseteq WireChunk \cup {Mistyped}
    BY DEF Chunk, WireChunk
  <2> QED
    BY <1>2, <2>1, SeqMonotonic
<1>8. r.waypoints \in Seq(Waypoint \cup {Mistyped, Absent})
  BY <1>2, SeqMonotonic
<1>9. p \in ResponsePayload
  BY <1>1, <1>7, <1>8 DEF Response, ResponsePayload
<1>10. [i \in 1..Len(r.chunks) |-> ChunkFromPayload(r.chunks[i])] = r.chunks
  BY <1>2, <1>4
<1>11. /\ r.version # Absent /\ r.command # Absent /\ r.stop # Absent
  BY MarkerAssumption DEF Valid, Versions
<1>12. ResponseFromPayload(r) = r
  BY <1>10, <1>11 DEF ResponseFromPayload, Default, IsLegacy, Response, Valid
<1> QED
  BY <1>1, <1>6, <1>9, <1>12

(* What the service sends, the client takes and reads as the same answer,   *)
(* whatever the backend returned.                                           *)
THEOREM ResponseSurvivesHolds ==
    ASSUME NEW answer \in Response, NEW name \in Texts
    PROVE  ResponseSurvives(answer, name)
<1> DEFINE r == Normalized(answer, name)
<1>1. r \in Response
  BY NormalizedIsResponse
<1> HIDE DEF r
<1>2. Len(r.chunks) \in Nat /\ Len(r.waypoints) \in Nat /\ r.broken \subseteq ResponseParts
  BY <1>1, LenProperties DEF Response
<1>3. ValidateResponse(r) = Ok <=> Valid(r)
  BY <1>2, ValidateResponseAccepts
<1>4. ASSUME Valid(r)
      PROVE  /\ ResponseFromDict(ResponsePayloadOf(r)) = Ok
             /\ ResponseFromPayload(ResponsePayloadOf(r)) = r
  BY <1>1, <1>4, ValidReadsBack, ResponseFromDictAccepts
<1> QED
  BY <1>3, <1>4 DEF ResponseSurvives, r

(* What the client takes from any server the controller can execute.        *)
THEOREM AcceptedIsExecutableHolds ==
    ASSUME NEW p \in ResponsePayload
    PROVE  AcceptedIsExecutable(p)
<1> DEFINE r == ResponseFromPayload(p)
<1>1. SUFFICES ASSUME ResponseFromDict(p) = Ok
               PROVE  Executable(r)
  BY DEF AcceptedIsExecutable
<1>2. Valid(r)
  BY <1>1, ResponseFromDictAccepts
<1>3. Len(r.chunks) \in Nat
  BY LenProperties DEF ResponsePayload, ResponseFromPayload
<1> HIDE DEF r
<1>4. r.chunks = <<>> \/ r.waypoints = <<>>
  BY <1>2 DEF Valid, OneRepresentation, Commands
<1>5. ASSUME NEW i \in 1..Len(r.chunks)
      PROVE  r.chunks[i].action \in Actions /\ r.chunks[i].repeat \in Nat \ {0}
  <2>1. ValidateActionChunk(r.chunks[i]) = Ok
    BY <1>2, <1>5 DEF Valid
  <2>2. BadAction # Ok
    BY DEF BadAction, Ok, Error
  <2> QED
    BY <2>1, <2>2 DEF ValidateActionChunk, Unless
<1> QED
  BY <1>2, <1>4, <1>5 DEF Executable, Valid

(* A response that names its version has the metadata version 1 asks for.   *)
THEOREM VersionedIsCompleteHolds ==
    ASSUME NEW p \in ResponsePayload
    PROVE  VersionedIsComplete(p)
<1> DEFINE r == ResponseFromPayload(p)
<1>1. SUFFICES ASSUME ResponseFromDict(p) = Ok, p.version # Absent
               PROVE  Absent \notin {p.backend, p.time}
  BY DEF VersionedIsComplete
<1>2. Valid(r)
  BY <1>1, ResponseFromDictAccepts
<1>3. r.backend = p.backend /\ r.time = p.time
  BY <1>1 DEF ResponseFromPayload, IsLegacy
<1> QED
  BY <1>2, <1>3, MarkerAssumption DEF Valid

-----------------------------------------------------------------------------
(* Requests.                                                                *)

(* What validate_request lets through.                                      *)
ValidRequest(r) ==
    /\ r.version = ApiVersion /\ r.session \in Texts /\ r.step \in Nat
    /\ r.instruction \in Texts
    /\ ValidateCurrentImage(r.image) = Ok
    /\ Len(r.history) <= MaxHistoryImages
    /\ \A i \in 1..Len(r.history) : ValidateJpeg(r.history[i]) = Ok

LEMMA ValidateJpegIsError ==
    ASSUME NEW image
    PROVE  ValidateJpeg(image) \in Errors
<1> DEFINE large == Unless(image.size <= MaxImageBytes, Error("IMAGE_TOO_LARGE", 413))
           bad == Unless(image.jpeg, Error("INVALID_IMAGE", 422))
<1>1. {Ok, Error("IMAGE_TOO_LARGE", 413), Error("INVALID_IMAGE", 422)} \subseteq Errors
  BY ErrorsAreErrors DEF Codes
<1>2. large \in Errors /\ bad \in Errors
  BY <1>1 DEF Unless
<1> HIDE DEF large, bad
<1>3. <<large, bad>> \in Seq(Errors)
  BY <1>2
<1> QED
  BY <1>3, FirstErrorIsOne DEF ValidateJpeg, large, bad

LEMMA ValidateJpegAccepts ==
    ASSUME NEW image, image.size <= MaxImageBytes, image.jpeg
    PROVE  ValidateJpeg(image) = Ok
<1>1. ValidateJpeg(image) = FirstError(<<Ok, Ok>>)
  BY DEF ValidateJpeg, Unless
<1>2. <<Ok, Ok>> \in Seq(Errors) /\ AllOk(<<Ok, Ok>>)
  BY ErrorsAreErrors DEF AllOk
<1> QED
  BY <1>1, <1>2, FirstErrorIsOne

LEMMA ValidateJpegRefuses ==
    ASSUME NEW image, ValidateJpeg(image) = Ok
    PROVE  image.jpeg
<1> DEFINE large == Unless(image.size <= MaxImageBytes, Error("IMAGE_TOO_LARGE", 413))
           bad == Unless(image.jpeg, Error("INVALID_IMAGE", 422))
<1>1. {Ok, Error("IMAGE_TOO_LARGE", 413), Error("INVALID_IMAGE", 422)} \subseteq Errors
  BY ErrorsAreErrors DEF Codes
<1>2. large \in Errors /\ bad \in Errors
  BY <1>1 DEF Unless
<1>3. bad = Ok => image.jpeg
  BY DEF Unless, Ok, Error
<1> HIDE DEF large, bad
<1>4. <<large, bad>> \in Seq(Errors)
  BY <1>2
<1>5. AllOk(<<large, bad>>)
  BY <1>4, FirstErrorIsOne DEF ValidateJpeg, large, bad
<1> QED
  BY <1>3, <1>5 DEF AllOk

LEMMA ValidateRequestAccepts ==
    ASSUME NEW r, Len(r.history) \in Nat
    PROVE  /\ ValidateRequest(r) \in Errors
           /\ ValidateRequest(r) = Ok <=> ValidRequest(r)
<1> DEFINE
      version == Unless(r.version = ApiVersion, BadVersion)
      session == Unless(r.session \in Texts, BadRequest)
      step == Unless(r.step \in Nat, BadRequest)
      instruction == Unless(r.instruction \in Texts, BadRequest)
      image == ValidateCurrentImage(r.image)
      many == Unless(Len(r.history) <= MaxHistoryImages, TooManyImages)
      head == <<version, session, step, instruction, image, many>>
      history == [i \in 1..Len(r.history) |-> ValidateJpeg(r.history[i])]
<1>1. ValidateRequest(r) = FirstError(head \o history)
  BY DEF ValidateRequest, ErrorsOf
<1>2. /\ {Ok, BadVersion, BadRequest, TooManyImages} \subseteq Errors
      /\ Ok \notin {BadVersion, BadRequest, TooManyImages}
  BY ErrorsAreErrors DEF Error, Ok, BadVersion, BadRequest, TooManyImages, Codes
<1>3. /\ {version, session, step, instruction, many} \subseteq Errors
      /\ version = Ok <=> r.version = ApiVersion
      /\ session = Ok <=> r.session \in Texts
      /\ step = Ok <=> r.step \in Nat
      /\ instruction = Ok <=> r.instruction \in Texts
      /\ many = Ok <=> Len(r.history) <= MaxHistoryImages
  BY <1>2 DEF Unless
<1>4. image \in Errors
  BY <1>2, ValidateJpegIsError DEF ValidateCurrentImage
<1>5. /\ history \in Seq(Errors)
      /\ AllOk(history) <=> \A i \in 1..Len(r.history) : ValidateJpeg(r.history[i]) = Ok
  BY ValidateJpegIsError, LoopIsCheckList
<1> HIDE DEF version, session, step, instruction, image, many
<1>6. /\ head \in Seq(Errors)
      /\ AllOk(head) <=> /\ version = Ok /\ session = Ok /\ step = Ok /\ instruction = Ok
                         /\ image = Ok /\ many = Ok
  BY <1>3, <1>4 DEF AllOk
<1> HIDE DEF head, history
<1>7. /\ head \o history \in Seq(Errors)
      /\ AllOk(head \o history) <=> AllOk(head) /\ AllOk(history)
  BY <1>5, <1>6, AllOkConcat
<1>8. /\ ValidateRequest(r) \in Errors
      /\ ValidateRequest(r) = Ok <=> AllOk(head) /\ AllOk(history)
  BY <1>1, <1>7, FirstErrorIsOne
<1> QED
  BY <1>3, <1>5, <1>6, <1>8 DEF ValidRequest, image

LEMMA DecodeJpegIsError ==
    ASSUME NEW image
    PROVE  DecodeJpeg(image) \in Errors
<1>1. BadRequest \in Errors /\ Error("INVALID_BASE64", 400) \in Errors
  BY ErrorsAreErrors DEF Codes
<1>2. DecodeJpeg(image) \in
        {BadRequest, Error("INVALID_BASE64", 400), ValidateJpeg(image.base64)}
  BY Zenon DEF DecodeJpeg
<1> QED
  BY <1>1, <1>2, ValidateJpegIsError

LEMMA RequestFromDictAccepts ==
    ASSUME NEW p, Len(p.history) \in Nat
    PROVE  /\ RequestFromDict(p) \in Errors
           /\ /\ p.broken = {} /\ p.version = ApiVersion
              /\ Len(p.history) <= MaxHistoryImages
              /\ DecodeJpeg(p.image) = Ok
              /\ \A i \in 1..Len(p.history) : DecodeJpeg(p.history[i]) = Ok
              /\ ValidRequest(RequestFromPayload(p))
              => RequestFromDict(p) = Ok
           /\ RequestFromDict(p) = Ok =>
                /\ DecodeJpeg(p.image) = Ok
                /\ \A i \in 1..Len(p.history) : DecodeJpeg(p.history[i]) = Ok
                /\ ValidRequest(RequestFromPayload(p))
<1> DEFINE
      body == Unless("body" \notin p.broken, BadRequest)
      version == Unless(p.version = ApiVersion, BadVersion)
      observation == Unless("observation" \notin p.broken, BadRequest)
      members == Unless("observation members" \notin p.broken, BadRequest)
      many == Unless(Len(p.history) <= MaxHistoryImages, TooManyImages)
      metadata == Unless("metadata" \notin p.broken, BadRequest)
      image == DecodeJpeg(p.image)
      head == <<body, version, observation, members, many, metadata, image>>
      history == [i \in 1..Len(p.history) |-> DecodeJpeg(p.history[i])]
      list == head \o history
      r == RequestFromPayload(p)
<1>1. RequestFromDict(p) = IF FirstError(list) # Ok THEN FirstError(list)
                          ELSE ValidateRequest(r)
  BY DEF RequestFromDict, ErrorsOf
<1>2. {Ok, BadVersion, BadRequest, TooManyImages} \subseteq Errors
  BY ErrorsAreErrors
<1>3. /\ {body, version, observation, members, many, metadata} \subseteq Errors
      /\ p.broken = {} => body = Ok /\ observation = Ok /\ members = Ok /\ metadata = Ok
      /\ p.version = ApiVersion => version = Ok
      /\ Len(p.history) <= MaxHistoryImages => many = Ok
  BY <1>2 DEF Unless
<1>4. image \in Errors
  BY DecodeJpegIsError
<1>5. /\ history \in Seq(Errors)
      /\ AllOk(history) <=> \A i \in 1..Len(p.history) : DecodeJpeg(p.history[i]) = Ok
  BY DecodeJpegIsError, LoopIsCheckList
<1>6. Len(r.history) \in Nat
  BY DEF RequestFromPayload
<1>7. ValidateRequest(r) \in Errors /\ (ValidateRequest(r) = Ok <=> ValidRequest(r))
  BY <1>6, ValidateRequestAccepts
<1> HIDE DEF body, version, observation, members, many, metadata, image, r
<1>8. /\ head \in Seq(Errors)
      /\ AllOk(head) <=> /\ body = Ok /\ version = Ok /\ observation = Ok /\ members = Ok
                         /\ many = Ok /\ metadata = Ok /\ image = Ok
  BY <1>3, <1>4 DEF AllOk
<1> HIDE DEF head, history
<1>9. /\ list \in Seq(Errors)
      /\ AllOk(list) <=> AllOk(head) /\ AllOk(history)
  BY <1>5, <1>8, AllOkConcat
<1> HIDE DEF list
<1>10. FirstError(list) \in Errors /\ (FirstError(list) = Ok <=> AllOk(list))
  BY <1>9, FirstErrorIsOne
<1> QED
  BY <1>1, <1>3, <1>5, <1>7, <1>8, <1>9, <1>10 DEF image, r

(* What a client may send the service takes, and reads as the same request. *)
THEOREM RequestSurvivesHolds ==
    ASSUME NEW r \in Request
    PROVE  RequestSurvives(r)
<1> DEFINE wire == WireRequest(r)
           p == RequestPayloadOf(r)
<1>1. SUFFICES ASSUME RequestToDict(r) = Ok
               PROVE  RequestFromDict(p) = Ok /\ RequestFromPayload(p) = wire
  BY DEF RequestSurvives
<1>2. Error("INVALID_IMAGE", 422) # Ok /\ BadRequest # Ok
  BY DEF Error, Ok, BadRequest
<1>3. r.history \in Seq(Bytes) /\ Len(r.history) \in Nat
  BY LenProperties DEF Request
<1>4. wire.history = r.history
  BY DEF WireRequest, Request
<1>5. ValidRequest(wire) /\ ~(r.image = Absent /\ r.path = Unreadable)
  BY <1>1, <1>2, <1>3, <1>4, ValidateRequestAccepts DEF RequestToDict
<1>6. wire.image \in Bytes /\ ValidateJpeg(wire.image) = Ok
  <2>1. wire.image # Absent /\ ValidateJpeg(wire.image) = Ok
    BY <1>2, <1>5 DEF ValidRequest, ValidateCurrentImage
  <2> QED
    BY <1>5, <2>1 DEF WireRequest, Request
<1>7. ASSUME NEW image \in Bytes
      PROVE  /\ EncodeBytes(image).base64 = image
             /\ ValidateJpeg(image) = Ok => DecodeJpeg(EncodeBytes(image)) = Ok
  <2>1. EncodeBytes(image) \in Base64 /\ EncodeBytes(image).base64 = image
    BY DEF EncodeBytes, Base64
  <2>2. ASSUME ValidateJpeg(image) = Ok PROVE image.size # 0
    BY <2>2, ValidateJpegRefuses DEF Bytes
  <2> QED
    BY <2>1, <2>2, ImageAssumption DEF DecodeJpeg
<1>8. /\ p.broken = {} /\ p.version = ApiVersion
      /\ Len(p.history) = Len(r.history) /\ Len(r.history) <= MaxHistoryImages
      /\ p.image = EncodeBytes(wire.image)
      /\ \A i \in 1..Len(r.history) : p.history[i] = EncodeBytes(r.history[i])
  BY <1>3, <1>4, <1>5 DEF RequestPayloadOf, ValidRequest, WireRequest, Request
<1>9. \A i \in 1..Len(r.history) :
        r.history[i] \in Bytes /\ ValidateJpeg(r.history[i]) = Ok
  BY <1>3, <1>4, <1>5 DEF ValidRequest
<1>10. [i \in 1..Len(p.history) |-> p.history[i].base64] = r.history
  BY <1>3, <1>7, <1>8, <1>9
<1>11. RequestFromPayload(p) = wire
  <2>1. p.image.base64 = wire.image
    BY <1>6, <1>7, <1>8
  <2>2. /\ p.version = r.version /\ p.session = r.session /\ p.step = r.step
        /\ p.instruction = r.instruction
    BY DEF RequestPayloadOf
  <2>3. wire = [version |-> r.version, session |-> r.session, step |-> r.step,
                instruction |-> r.instruction, image |-> wire.image, path |-> Absent,
                history |-> r.history]
    <3> DEFINE image == IF r.image # Absent THEN r.image ELSE r.path
    <3>1. wire = [r EXCEPT !.image = image, !.path = Absent]
      BY DEF WireRequest
    <3> HIDE DEF image, wire
    <3> QED
      BY <3>1 DEF Request
  <2> HIDE DEF p, wire
  <2> QED
    BY <1>10, <2>1, <2>2, <2>3 DEF RequestFromPayload
<1>12. DecodeJpeg(p.image) = Ok
  BY <1>6, <1>7, <1>8
<1>13. \A i \in 1..Len(p.history) : DecodeJpeg(p.history[i]) = Ok
  BY <1>7, <1>8, <1>9
<1> HIDE DEF p
<1> QED
  BY <1>3, <1>5, <1>8, <1>11, <1>12, <1>13, RequestFromDictAccepts DEF ValidRequest

(* The body of a request whose images all encode to at most k.              *)
THEOREM BodySizeBounded ==
    ASSUME NEW p, Len(p.history) \in Nat, NEW k \in Nat, EncodedSize(p.image) \in 0..k,
           \A i \in 1..Len(p.history) : EncodedSize(p.history[i]) \in 0..k
    PROVE  BodySize(p) \in 0..((Len(p.history) + 1) * k)
<1> DEFINE n == Len(p.history)
           first == EncodedSize(p.image)
           w == [i \in 1..n |-> EncodedSize(p.history[i])]
           Sizes(f) == [i \in 0..n |->
                            IF i = 0 THEN EncodedSize(p.image)
                            ELSE f[i - 1] + EncodedSize(p.history[i])]
           size == CHOOSE f : f = Sizes(f)
<1>1. BodySize(p) = size[n]
  BY DEF BodySize
<1>2. n \in Nat /\ first \in 0..k /\ first \in Int /\ w \in [1..n -> 0..k] /\ w \in [1..n -> Int]
  OBVIOUS
<1>3. ASSUME NEW f
      PROVE  Sizes(f) = [i \in 0..n |-> IF i = 0 THEN first ELSE f[i - 1] + w[i]]
  <2>1. \A i \in 0..n : i = 0 \/ w[i] = EncodedSize(p.history[i])
    BY <1>2
  <2> QED
    BY <2>1
<1> HIDE DEF n, first, w, Sizes
<1>4. \E f : f = Sizes(f)
  <2>1. \E f : f = [i \in 0..n |-> IF i = 0 THEN first ELSE f[i - 1] + w[i]]
    BY <1>2, SumsExist
  <2> QED
    BY <1>3, <2>1
<1>5. size = Sizes(size)
  BY <1>4
<1> HIDE DEF size
<1>6. SumsUp(size, first, w, n)
  BY <1>2, <1>3, <1>5, SumsAreSums
<1>7. size[n] \in 0..((n + 1) * k)
  BY <1>2, <1>6, SumBounded
<1> QED
  BY <1>1, <1>7 DEF n

-----------------------------------------------------------------------------
(* What is refused, and what the sender is told.                            *)

(* The errors a request may be refused with.                                *)
Refusals == [code : Codes \ {"OK"}, status : {400, 404, 413, 422, 500}]
Verdicts == Refusals \cup {Ok}

LEMMA FirstErrorIsVerdict ==
    ASSUME NEW errors \in Seq(Verdicts) PROVE FirstError(errors) \in Verdicts
<1> DEFINE raised == {i \in 1..Len(errors) : errors[i] # Ok}
<1>1. CASE raised = {}
  BY <1>1 DEF FirstError, Verdicts
<1>2. CASE raised # {}
  <2> DEFINE least == CHOOSE i \in raised : \A j \in raised : i <= j
  <2>1. \E i \in raised : \A j \in raised : i <= j
    <3>1. raised \subseteq Nat
      OBVIOUS
    <3> HIDE DEF raised
    <3> QED
      BY <1>2, <3>1, LeastElement
  <2>2. least \in raised
    BY <2>1
  <2> QED
    BY <1>2, <2>2 DEF FirstError
<1> QED
  BY <1>1, <1>2

LEMMA ChecksAreVerdicts ==
    /\ {Ok, BadRequest, BadVersion, TooManyImages} \subseteq Verdicts
    /\ \A image : ValidateJpeg(image) \in Verdicts
    /\ \A image : ValidateCurrentImage(image) \in Verdicts
    /\ \A image : DecodeJpeg(image) \in Verdicts
<1>1. /\ {Ok, BadRequest, BadVersion, TooManyImages} \subseteq Verdicts
      /\ {Error("IMAGE_TOO_LARGE", 413), Error("INVALID_IMAGE", 422),
          Error("INVALID_BASE64", 400)} \subseteq Verdicts
  BY DEF Verdicts, Refusals, Codes, Error, BadRequest, BadVersion, TooManyImages
<1>2. ASSUME NEW image PROVE ValidateJpeg(image) \in Verdicts
  <2> DEFINE large == Unless(image.size <= MaxImageBytes, Error("IMAGE_TOO_LARGE", 413))
             bad == Unless(image.jpeg, Error("INVALID_IMAGE", 422))
  <2>1. large \in Verdicts /\ bad \in Verdicts
    BY <1>1 DEF Unless
  <2> HIDE DEF large, bad
  <2>2. <<large, bad>> \in Seq(Verdicts)
    BY <2>1
  <2> QED
    BY <2>2, FirstErrorIsVerdict DEF ValidateJpeg, large, bad
<1>3. ASSUME NEW image PROVE DecodeJpeg(image) \in Verdicts
  <2>1. DecodeJpeg(image) \in
            {BadRequest, Error("INVALID_BASE64", 400), ValidateJpeg(image.base64)}
    BY Zenon DEF DecodeJpeg
  <2> QED
    BY <1>1, <1>2, <2>1
<1> QED
  BY <1>1, <1>2, <1>3 DEF ValidateCurrentImage

LEMMA ValidateRequestVerdict ==
    ASSUME NEW r, Len(r.history) \in Nat PROVE ValidateRequest(r) \in Verdicts
<1> DEFINE
      version == Unless(r.version = ApiVersion, BadVersion)
      session == Unless(r.session \in Texts, BadRequest)
      step == Unless(r.step \in Nat, BadRequest)
      instruction == Unless(r.instruction \in Texts, BadRequest)
      image == ValidateCurrentImage(r.image)
      many == Unless(Len(r.history) <= MaxHistoryImages, TooManyImages)
      head == <<version, session, step, instruction, image, many>>
      history == [i \in 1..Len(r.history) |-> ValidateJpeg(r.history[i])]
<1>1. ValidateRequest(r) = FirstError(head \o history)
  BY DEF ValidateRequest, ErrorsOf
<1>2. {version, session, step, instruction, image, many} \subseteq Verdicts
  BY ChecksAreVerdicts DEF Unless
<1>3. history \in Seq(Verdicts)
  <2>1. history \in [1..Len(r.history) -> Verdicts]
    BY ChecksAreVerdicts
  <2> HIDE DEF history
  <2> QED
    BY <2>1, SeqDef
<1> HIDE DEF version, session, step, instruction, image, many
<1>4. head \in Seq(Verdicts)
  BY <1>2
<1> HIDE DEF head, history
<1>5. head \o history \in Seq(Verdicts)
  BY <1>3, <1>4, ConcatProperties
<1> QED
  BY <1>1, <1>5, FirstErrorIsVerdict

LEMMA RequestFromDictVerdict ==
    ASSUME NEW p \in RequestPayload PROVE RequestFromDict(p) \in Verdicts
<1> DEFINE
      body == Unless("body" \notin p.broken, BadRequest)
      version == Unless(p.version = ApiVersion, BadVersion)
      observation == Unless("observation" \notin p.broken, BadRequest)
      members == Unless("observation members" \notin p.broken, BadRequest)
      many == Unless(Len(p.history) <= MaxHistoryImages, TooManyImages)
      metadata == Unless("metadata" \notin p.broken, BadRequest)
      image == DecodeJpeg(p.image)
      head == <<body, version, observation, members, many, metadata, image>>
      history == [i \in 1..Len(p.history) |-> DecodeJpeg(p.history[i])]
<1>1. RequestFromDict(p) = IF FirstError(head \o history) # Ok THEN FirstError(head \o history)
                          ELSE ValidateRequest(RequestFromPayload(p))
  BY DEF RequestFromDict, ErrorsOf
<1>2. {body, version, observation, members, many, metadata, image} \subseteq Verdicts
  BY ChecksAreVerdicts DEF Unless
<1>3. Len(p.history) \in Nat
  BY LenProperties DEF RequestPayload
<1>4. history \in Seq(Verdicts)
  <2>1. history \in [1..Len(p.history) -> Verdicts]
    BY ChecksAreVerdicts
  <2> HIDE DEF history
  <2> QED
    BY <1>3, <2>1, SeqDef
<1>5. ValidateRequest(RequestFromPayload(p)) \in Verdicts
  <2>1. Len(RequestFromPayload(p).history) \in Nat
    BY <1>3 DEF RequestFromPayload
  <2> QED
    BY <2>1, ValidateRequestVerdict
<1> HIDE DEF body, version, observation, members, many, metadata, image
<1>6. head \in Seq(Verdicts)
  BY <1>2
<1> HIDE DEF head, history
<1>7. head \o history \in Seq(Verdicts)
  BY <1>4, <1>6, ConcatProperties
<1> QED
  BY <1>1, <1>5, <1>7, FirstErrorIsVerdict

(* The code and the status of a refusal pass through the error body and the *)
(* exception, however broken the request was.                               *)
THEOREM RefusalArrivesHolds ==
    ASSUME NEW p \in RequestPayload PROVE RefusalArrives(p)
<1> DEFINE error == RequestFromDict(p)
           body == ErrorPayload(error, Correlation(p))
<1> SUFFICES ASSUME error # Ok
             PROVE  PostInference("text", 0, error.status, body)
                        = Outcome("InferenceHTTPError", error)
  BY DEF RefusalArrives
<1>1. error \in Refusals
  BY RequestFromDictVerdict DEF Verdicts
<1> HIDE DEF error
<1>2. /\ error.code \in Codes /\ error.status # 200
      /\ error = [code |-> error.code, status |-> error.status]
  BY <1>1 DEF Refusals
<1>3. /\ Correlation(p).session \in Strings \cup {Absent}
      /\ Correlation(p).step \in Steps \cup {Absent}
  BY DEF Correlation, RequestPayload
<1>4. /\ body \in ErrorBody /\ body.error = [code |-> error.code]
      /\ body.error \in [code : Codes] /\ body.error.code = error.code
  BY <1>2, <1>3 DEF ErrorPayload, ErrorBody
<1> HIDE DEF body
<1>5. /\ body # Mistyped /\ body.error # Mistyped /\ body.error # Absent
      /\ body.error.code # Absent
  BY <1>2, <1>4, MarkerAssumption
<1> QED
  BY <1>2, <1>4, <1>5 DEF PostInference, HttpError, Outcome, Error

(* What post_inference returns is an answer to the request, and can be      *)
(* executed.                                                                *)
THEOREM ReturnedCanBeUsedHolds ==
    ASSUME NEW session, NEW step, NEW p \in ResponsePayload
    PROVE  ReturnedCanBeUsed(session, step, p)
<1>1. ASSUME PostInference(session, step, 200, p).kind = "response"
      PROVE  ResponseFromDict(p) = Ok /\ p.session = session /\ p.step = step
  BY <1>1 DEF PostInference, Outcome
<1> QED
  BY <1>1, AcceptedIsExecutableHolds DEF ReturnedCanBeUsed, AcceptedIsExecutable
=============================================================================
