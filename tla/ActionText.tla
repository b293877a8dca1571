----------------------------- MODULE ActionText -----------------------------
(***************************************************************************)
(* What hf_backend.py and chunking.py make of the pictures of a request, of *)
(* the text the model generates, and of the boxes the target detector      *)
(* returns.  Nothing here has state.                                       *)
(*                                                                         *)
(* A text is told apart by what the parsers look for: what its braces      *)
(* hold, and its phrases, which commas and the word "then" separate, both  *)
(* before and inside the first <answer> element.  A phrase is the action   *)
(* words in it, in their order, and its first number, in tenths of a       *)
(* centimetre or degree.                                                   *)
(***************************************************************************)
EXTENDS Protocol, Lists

CONSTANTS Infinity,    \* float("inf"): JSON may carry it
          NaN          \* float("nan"): this too

(* The spellings _normalize_action knows, and those looked for in phrases.  *)
Alias == [left |-> "turn_left", right |-> "turn_right", go |-> "forward",
          move_forward |-> "forward", go_forward |-> "forward", straight |-> "forward",
          halt |-> "stop", forward |-> "forward", turn_left |-> "turn_left",
          turn_right |-> "turn_right", stop |-> "stop"]
Words == {"left", "right", "forward", "straight", "stop", "halt"}

Phrase == [words : Seq(Words), number : Int \cup {Absent}]
Raw == [action : DOMAIN Alias \cup {"other"}, repeat : Int \cup {Mistyped, Infinity},
        score : {"null", "finite", "other"}]

(* A number is in thousandths, Mistyped when float() refuses it.  An        *)
(* infinity acts here like a number beyond every limit, so Int has it too.  *)
Reading == Int \cup {Absent, Mistyped, NaN}
TargetRecord == [visible : BOOLEAN, center : Reading, area : Reading, confidence : Reading]

(* actions: empty when there is no such member, Mistyped when it cannot be  *)
(* iterated; a single action stands for the list of it.  target: Absent     *)
(* when there is none or it is no object.                                   *)
JsonObject == [actions : Seq(Raw) \cup {Mistyped}, target : TargetRecord \cup {Absent}]

(* What the braces hold that open before the answer element, and those that *)
(* open later: nothing, one JSON object, or something else (Mistyped).      *)
Text == [early : JsonObject \cup {Absent, Mistyped}, late : JsonObject \cup {Absent, Mistyped},
         before : Seq(Phrase), answer : Seq(Phrase) \cup {Absent}]

(* What the detector returns.  Sizes and scores are in thousandths of the   *)
(* image and of one; box is FALSE when a coordinate is missing.             *)
Detection == [box : BOOLEAN, score : Nat, center : Int, area : Nat]

ASSUME TextAssumption ==
    /\ Infinity \notin Int \cup {Mistyped}
    /\ NaN \notin Int \cup {Absent, Mistyped}
    /\ Absent \notin TargetRecord \cup Seq(Detection) \cup JsonObject
    /\ Mistyped \notin JsonObject

ChunkOf(index, action, repeat, score) ==
    [index |-> index, action |-> action, repeat |-> repeat, score |-> score]

-----------------------------------------------------------------------------
(* The pictures of a request.  One that Pillow cannot open is shown black.  *)

(* Faulty: the history after the current picture.                           *)
FaultyObservationToImages(request) == <<request.image>> \o request.history

(* _observation_to_images                                                   *)
ObservationToImages(request) ==
    LET pictures == Append(request.history, request.image)
        seen == Filtered(pictures, {i \in 1..Len(pictures) :
                                        pictures[i] # Absent /\ pictures[i].size > 0})
    IN  CASE seen # <<>>                           -> seen
          [] seen = <<>> /\ request.path # Absent -> <<request.path>>
          [] OTHER                                 -> <<"black">>

(* build_navida_messages: the pictures in the prompt, as the history and as *)
(* the current one, which is also the history when there is no other.       *)
BuildNavidaMessages(images) ==
    LET last == Len(images)
    IN  [history |-> IF last = 1 THEN images ELSE SubSeq(images, 1, last - 1),
         current |-> images[last]]

-----------------------------------------------------------------------------
(* chunk_atomic_actions.                                                    *)

(* Faulty: the action is not compared.                                      *)
FaultyShouldMerge(action, current, repeat, merge) == repeat < 3 /\ merge

ShouldMerge(action, current, repeat, merge) == action = current /\ repeat < 3 /\ merge

(* merges[i]: rng() <= merge_probability, if asked at position i.           *)
ChunkAtomicActions(actions, merges) ==
    LET repeat[i \in 1..Len(actions)] ==
            IF i > 1 /\ ShouldMerge(actions[i], actions[i - 1], repeat[i - 1], merges[i])
            THEN repeat[i - 1] + 1 ELSE 1
        last == {i \in 1..Len(actions) : i = Len(actions) \/ repeat[i + 1] = 1}
        ends == Filtered([i \in 1..Len(actions) |-> i], last)
    IN  [k \in 1..Len(ends) |-> ChunkOf(k - 1, actions[ends[k]], repeat[ends[k]], "null")]

-----------------------------------------------------------------------------
(* _extract_action_chunks_from_json.                                        *)

(* Faulty: zero and negative numbers pass.                                  *)
FaultyPositiveInt(value) == IF value = Mistyped THEN 1 ELSE value

(* _positive_int; int() of an infinity raises what it does not catch.       *)
PositiveInt(value) == IF value = Mistyped \/ value < 1 THEN 1 ELSE value

(* _slice_json_object, and json.loads of the slice: from the first brace to *)
(* the last, wherever they are; what lies between two objects is no JSON.   *)
SliceJsonObject(text) ==
    IF text.late = Absent /\ text.early # Mistyped THEN text.early
    ELSE IF text.early = Absent /\ text.late # Mistyped THEN text.late ELSE Absent

JsonRaises(text) ==
    LET object == SliceJsonObject(text)
    IN  object # Absent /\ \/ object.actions = Mistyped
                           \/ \E i \in 1..Len(object.actions) : object.actions[i].repeat = Infinity

JsonChunks(text) ==
    LET object == SliceJsonObject(text)
        actions == IF object = Absent THEN <<>> ELSE object.actions
        known == Filtered(actions, {i \in 1..Len(actions) : actions[i].action \in DOMAIN Alias})
    IN  [i \in 1..Len(known) |->
            ChunkOf(i - 1, Alias[known[i].action], PositiveInt(known[i].repeat), known[i].score)]

-----------------------------------------------------------------------------
(* _extract_official_action_chunks_from_text.                               *)
Says(phrase, word) == \E i \in 1..Len(phrase.words) : phrase.words[i] = word

(* Of several words in a phrase, stop counts before any motion.             *)
OfficialActionName(phrase) ==
    CASE Says(phrase, "stop")    -> "stop"
      [] ~Says(phrase, "stop") /\ Says(phrase, "forward") -> "forward"
      [] OTHER -> IF Says(phrase, "left") THEN "turn_left"
                  ELSE IF Says(phrase, "right") THEN "turn_right" ELSE ""

(* Faulty: the quotient is cut off.                                         *)
FaultyRoundedQuotient(number, unit) == number \div unit

(* Python's round: halves go to the even neighbour.                         *)
RoundedQuotient(number, unit) ==
    LET q == number \div unit
        rest == 2 * (number % unit)
    IN  IF rest > unit \/ (rest = unit /\ q % 2 = 1) THEN q + 1 ELSE q

(* A step is 25 cm or 15 degrees; one to three of them.                     *)
RepeatFromOfficialAction(phrase, action) ==
    IF phrase.number = Absent \/ action = "stop" THEN 1
    ELSE LET steps == RoundedQuotient(phrase.number, IF action = "forward" THEN 250 ELSE 150)
         IN  IF steps < 1 THEN 1 ELSE IF steps > 3 THEN 3 ELSE steps

(* Faulty: the whole text, whether it has an answer or not.                 *)
FaultyOfficialPhrases(text) ==
    text.before \o (IF text.answer = Absent THEN <<>> ELSE text.answer)

OfficialPhrases(text) == IF text.answer = Absent THEN text.before ELSE text.answer

OfficialChunks(text) ==
    LET phrases == OfficialPhrases(text)
        known == Filtered(phrases, {i \in 1..Len(phrases) : OfficialActionName(phrases[i]) # ""})
        name(i) == OfficialActionName(known[i])
    IN  [i \in 1..Len(known) |->
            ChunkOf(i - 1, name(i), RepeatFromOfficialAction(known[i], name(i)), "null")]

-----------------------------------------------------------------------------
(* _extract_actions_from_text: each action once, in the order in which      *)
(* their first words appear anywhere in the text.                           *)
PlainActions(text) ==
    LET phrases == text.before \o (IF text.answer = Absent THEN <<>> ELSE text.answer)
        words == Concatenated([i \in 1..Len(phrases) |-> phrases[i].words])
        actions == [i \in 1..Len(words) |-> Alias[words[i]]]
    IN  Filtered(actions, {i \in 1..Len(words) : \A j \in 1..(i - 1) : actions[j] # actions[i]})

(* parse_action_text, unless JsonRaises.                                    *)
ParseActionText(text) ==
    LET plain == PlainActions(text)
        actions == IF plain = <<>> THEN <<"stop">> ELSE plain
    IN  IF JsonChunks(text) # <<>> THEN JsonChunks(text)
        ELSE IF OfficialChunks(text) # <<>> THEN OfficialChunks(text)
        ELSE ChunkAtomicActions(actions, [i \in 1..Len(actions) |-> TRUE])

(* The response infer returns for a text.                                   *)
Infer(request, text, modelId) ==
    [broken |-> {}, version |-> ApiVersion, session |-> request.session, step |-> request.step,
     command |-> "action_chunks", chunks |-> ParseActionText(text), waypoints |-> <<>>,
     stop |-> FALSE, backend |-> modelId, time |-> "valid"]

(* MockNaVIDABackend.infer: the actions it was made with, merged wherever    *)
(* they can be.                                                             *)
MockInfer(request, actions) ==
    [broken |-> {}, version |-> ApiVersion, session |-> request.session, step |-> request.step,
     command |-> "action_chunks",
     chunks |-> ChunkAtomicActions(actions, [i \in 1..Len(actions) |-> TRUE]),
     waypoints |-> <<>>, stop |-> FALSE, backend |-> "text", time |-> "valid"]

-----------------------------------------------------------------------------
(* detection_to_target_metadata.                                            *)
Clamped(value) == IF value < 0 THEN 0 ELSE IF value > 1000 THEN 1000 ELSE value

(* Faulty: a detection without a box has its score.                         *)
FaultySelectionScore(d) == IF d.box THEN 20 * (d.score + d.area) ELSE 20 * d.score

(* _detection_selection_score, in units of 1/20000.                         *)
SelectionScore(d) ==
    IF ~d.box THEN -20000
    ELSE 20 * (d.score + d.area) + 3 * (1000 - Clamped(2 * (IF d.center < 500 THEN 500 - d.center
                                                           ELSE d.center - 500)))

(* max returns the first of the best.                                       *)
Best(detections) ==
    LET score(i) == SelectionScore(detections[i])
    IN  detections[CHOOSE i \in 1..Len(detections) :
            \A j \in 1..Len(detections) : score(j) < score(i) \/ (score(j) = score(i) /\ i <= j)]

Unseen == [visible |-> FALSE, center |-> Absent, area |-> Absent, confidence |-> 0]
DetectionToTargetMetadata(detections) ==
    IF detections = <<>> THEN Unseen
    ELSE LET best == Best(detections)
         IN  IF ~best.box THEN Unseen
             ELSE [visible |-> TRUE, center |-> Clamped(best.center),
                   area |-> Clamped(best.area), confidence |-> best.score]

(* Faulty: what cannot be read counts as zero.                              *)
FaultyNumberOrNone(value) == IF value \in {Mistyped, Absent} THEN 0 ELSE value

(* _number_or_none                                                          *)
NumberOrNone(value) == IF value = Mistyped THEN Absent ELSE value

(* parse_target_metadata                                                    *)
ParseTargetMetadata(text) ==
    LET object == SliceJsonObject(text)
        target == IF object = Absent THEN Absent ELSE object.target
    IN  IF target = Absent THEN Absent
        ELSE [visible |-> target.visible, center |-> NumberOrNone(target.center),
              area |-> NumberOrNone(target.area), confidence |-> NumberOrNone(target.confidence)]

(* The target infer puts into the response.  detections is Absent when the  *)
(* detector is not asked.                                                   *)
TargetMetadata(text, detections) ==
    IF ParseTargetMetadata(text) # Absent THEN ParseTargetMetadata(text)
    ELSE IF detections # Absent THEN DetectionToTargetMetadata(detections) ELSE Absent

-----------------------------------------------------------------------------
(* Properties.                                                              *)

(* The model is told which picture is the current one, and it is the one of *)
(* the request; the history is the request's, in its order.                 *)
ModelSeesTheRequest(request) ==
    LET prompt == BuildNavidaMessages(ObservationToImages(request)) IN
    /\ prompt.current = request.image
    /\ prompt.history = IF request.history = <<>> THEN <<request.image>> ELSE request.history

(* Whatever the model writes, if parsing does not raise and no score is an  *)
(* infinity or NaN, the answer has something to execute and passes the      *)
(* service's checks: no text makes an answer the service refuses.           *)
EveryTextIsAnswer(request, text, modelId) ==
    ~JsonRaises(text) =>
        LET r == Infer(request, text, modelId) IN
        /\ r.chunks # <<>>
        /\ \A i \in 1..Len(r.chunks) : r.chunks[i].index = i - 1
        /\ (\A i \in 1..Len(r.chunks) : r.chunks[i].score # "other")
              => ValidateResponse(Normalized(r, modelId)) = Ok

(* When the answer element names an action, what the model wrote before it  *)
(* (its reasoning, which may well mention other directions) drives the      *)
(* robot only as the one JSON object of the text.  Without a brace in it,   *)
(* the reasoning changes nothing; with braces there and later, no JSON      *)
(* counts, not even the answer's own, and the answer's phrases do.          *)
ReasoningDrivesOnlyAsJson(text) ==
    LET bare == [text EXCEPT !.before = <<>>, !.early = Absent] IN
    /\ ~JsonRaises(text)
    /\ text.answer # Absent
    /\ \E i \in 1..Len(text.answer) : OfficialActionName(text.answer[i]) # ""
    => /\ text.early = Absent => ParseActionText(text) = ParseActionText(bare)
       /\ text.early # Absent /\ text.late # Absent => ParseActionText(text) = OfficialChunks(bare)
       /\ ParseActionText(text) \in {JsonChunks(text), OfficialChunks(bare)}

(* A distance or an angle becomes the number of steps that comes closest to *)
(* it among those a chunk may hold.                                         *)
Distance(a, b) == IF a > b THEN a - b ELSE b - a
ClosestRepeat(phrase) ==
    LET action == OfficialActionName(phrase)
        unit == IF action = "forward" THEN 250 ELSE 150
        repeat == RepeatFromOfficialAction(phrase, action)
    IN  action \in {"forward", "turn_left", "turn_right"} /\ phrase.number # Absent =>
            /\ repeat \in 1..3
            /\ \A k \in 1..3 : Distance(repeat * unit, phrase.number)
                                <= Distance(k * unit, phrase.number)

(* When the text tells no target, a detection without a readable box never  *)
(* hides one that has it.                                                   *)
ReadableBoxSeen(text, detections) ==
    LET target == TargetMetadata(text, detections) IN
    ParseTargetMetadata(text) = Absent =>
        /\ target.visible <=> \E i \in 1..Len(detections) : detections[i].box
        /\ (target.visible => target.center \in 0..1000)
=============================================================================
