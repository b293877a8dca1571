----------------------------- MODULE MCMessages -----------------------------
(***************************************************************************)
(* Evaluates the operators of Messages on bounded inputs: a message of     *)
(* each kind starts good and has up to MaxChanges members changed, one at  *)
(* a time, to the values the code tells apart.                             *)
(***************************************************************************)
EXTENDS Messages, FiniteSets, SequencesExt

CONSTANT MaxChanges
VARIABLE changes

MCTexts == {"text", "legacy"}
Jpeg(size) == [jpeg |-> TRUE, size |-> size]
Images == {Jpeg(4), Jpeg(MaxImageBytes + 1), [jpeg |-> FALSE, size |-> 0]}
WireImages == {[base64 |-> image] : image \in Images} \cup {Mistyped, NotBase64}
Lists(S) == {<<>>} \cup {<<a>> : a \in S} \cup {<<a, b>> : a, b \in S}
SomeList(a) == {<<>>, <<a>>, <<a, a>>, <<a, a, a>>}

GoodChunk == [index |-> 0, action |-> "forward", repeat |-> 2, score |-> "finite"]
ChunkValues == [index |-> {-1, Mistyped}, action |-> {"other", "stop"},
                repeat |-> {0, Mistyped}, score |-> {"other", "null"}]
ChunkVariants ==
    {GoodChunk, Mistyped} \cup
    UNION {{[GoodChunk EXCEPT ![f] = v] : v \in ChunkValues[f]} : f \in DOMAIN ChunkValues}
WireChunkVariants ==
    ChunkVariants \cup {[GoodChunk EXCEPT ![f] = Absent] : f \in {"index", "action", "repeat"}}

Said(words) == [words |-> words, number |-> Absent]
Phrases == {Said(<<>>), Said(<<"straight">>), Said(<<"left", "stop">>), Said(<<"halt">>),
            [words |-> <<"right">>, number |-> 450], [words |-> <<"forward">>, number |-> 0]}
RawActions == {[action |-> "halt", repeat |-> 2, score |-> "null"],
               [action |-> "other", repeat |-> 1, score |-> "null"],
               [action |-> "left", repeat |-> -1, score |-> "finite"],
               [action |-> "go", repeat |-> Mistyped, score |-> "other"],
               [action |-> "go", repeat |-> Infinity, score |-> "null"]}
OneAction == {[actions |-> <<a>>, target |-> Absent] : a \in RawActions}
Braces == [actions : Lists(RawActions) \cup {Mistyped}, target : {Absent}] \cup {Absent, Mistyped}
Detections == {[box |-> FALSE, score |-> n, center |-> 0, area |-> 0] : n \in {0, 950}} \cup
              [box : {TRUE}, score : {0, 400, 900}, center : {-100, 200, 500, 1100}, area : {0, 300}]

Point(x, y, z) == [x |-> x, y |-> y, z |-> z, reflectivity |-> 1]
Rows == {Point(0, 0, 0), Point(0, 0, Speck), Point(Speck, 0, 0), Point(0, 7, 0), Point(3, 0, NaN),
         Point(Infinity, 1, 1), Point(1, 1, Unreadable), Point(2, 5, -500)}

Good == [
    response |-> [broken |-> {}, version |-> ApiVersion, session |-> "text", step |-> 0,
                  command |-> "action_chunks", chunks |-> <<GoodChunk>>, waypoints |-> <<>>,
                  stop |-> FALSE, backend |-> "text", time |-> "valid"],
    image |-> Published(2, 3),
    target |-> [visible |-> TRUE, center |-> 500, confidence |-> 900, area |-> 50]]
Start(k) ==
    CASE k = "request"           -> Asked
      [] k = "request_payload"   -> RequestPayloadOf(Asked)
      [] k \in {"response", "response_payload"} -> Good.response
      [] k = "target"            -> Good.target
      [] k = "list"              -> [list |-> <<>>]
      [] k = "text"              -> [early |-> Absent, late |-> Absent, before |-> <<>>,
                                     answer |-> Absent]
      [] k = "target_text"       -> [visible |-> TRUE, center |-> 500, area |-> 50,
                                     confidence |-> 900]
      [] k = "phrase"            -> Said(<<"forward">>)
      [] k = "atomic"            -> [list |-> <<>>, merges |-> [i \in 1..5 |-> TRUE]]
      [] k = "image"             -> Good.image
      [] k = "size"              -> [height |-> 1, width |-> 1]
      [] k = "detections"        -> [list |-> <<>>]
      [] k = "cloud"             -> [list |-> <<>>, limit |-> 2, drop |-> TRUE, offset |-> 0]

Wire(k) == k \in {"request_payload", "response_payload"}
Missing(k) == IF k = "response_payload" THEN {Absent} ELSE {}
Parts(k) == CASE k = "request_payload"  -> RequestParts
              [] k = "response"         -> ResponseParts
              [] k = "response_payload" -> ResponseParts \cup {"body"}

Values(k, f) ==
    CASE k = "image" /\ f = "step" -> {NotGiven} \cup -3..12
      [] k = "target_text" /\ f \in {"center", "area", "confidence"} ->
            {Absent, Mistyped, NaN, -50, 150, 450, 950}
      [] f \in {"session", "instruction"} -> {"text", Blank, Mistyped}
      [] k # "image" /\ f = "step" -> {0, -1, Mistyped}
      [] f = "version"   -> Versions \cup Missing(k) \cup (IF Wire(k) THEN {Mistyped} ELSE {})
      [] f = "image"     -> IF Wire(k) THEN WireImages ELSE Images \cup {Absent}
      [] f = "path"      -> Images \cup {Absent, Unreadable}
      [] f = "history"   -> IF Wire(k) THEN Lists(WireImages) \cup SomeList(EncodeBytes(Jpeg(6)))
                            ELSE Lists(Images) \cup SomeList(Jpeg(6))
      [] f = "broken"    -> SUBSET Parts(k)
      [] f = "command"   -> Commands \cup {"other"} \cup Missing(k)
      [] f = "chunks"    -> Lists(IF Wire(k) THEN WireChunkVariants ELSE ChunkVariants)
      [] f = "waypoints" -> SomeList("finite") \cup Lists({"other", Mistyped} \cup Missing(k))
      [] f = "stop"      -> BOOLEAN \cup {Mistyped} \cup Missing(k)
      [] f = "backend"   -> Strings \cup {Absent}
      [] f = "time"      -> {"valid", "other", Absent}
      [] f = "visible"   -> BOOLEAN
      [] k = "target" /\ f = "center" -> {None, NaN, -50, 0, 399, 400, 500, 600, 601, 1000, 1050}
      [] k = "target" /\ f = "confidence" -> {None, NaN, 199, 200}
      [] k = "target" /\ f = "area" -> {None, NaN, 299, 300}
      [] f = "early"     -> Braces
      [] f = "late"      -> OneAction \cup {Absent, Mistyped}
      [] f = "before"    -> Lists(Phrases)
      [] f = "answer"    -> Lists(Phrases) \cup {Absent}
      [] f = "words"     -> {<<"left">>, <<"right", "forward">>, <<"halt">>}
      [] f = "number"    -> {Absent} \cup {25 * i : i \in -10..50}
      [] f = "merges"    -> [1..5 -> BOOLEAN]
      [] k = "size"      -> 1..6
      [] f \in {"height", "width"} -> {NotGiven} \cup -1..4
      [] f = "data"      -> {NotGiven} \cup 0..24
      [] f = "encoding"  -> Encodings
      [] f = "limit"     -> {-1, 0, 1}
      [] f = "drop"      -> BOOLEAN
      [] f = "offset"    -> {500}
      [] f = "list"      -> CASE k = "list"   -> BoundedSeq([action : Actions, repeat : {-1, 1, 3}], 3)
                              [] k = "atomic" -> BoundedSeq({"forward", "turn_left", "stop"}, 5)
                              [] k = "cloud"  -> BoundedSeq(Rows, 3)
                              [] k = "detections" -> BoundedSeq(Detections, 2)

(* All of them are messages the theorems are about.                         *)
ASSUME ValuesAreMessages ==
    \A k \in DOMAIN Messages :
        /\ Start(k) \in Messages[k]
        /\ \A f \in DOMAIN Start(k) : \A v \in Values(k, f) :
                [Start(k) EXCEPT ![f] = v] \in Messages[k]

Init ==
    /\ kind \in DOMAIN Messages
    /\ message = Start(kind)
    /\ changes = {}

Change(f, v) ==
    /\ f \notin changes /\ Cardinality(changes) < MaxChanges
    /\ message' = [message EXCEPT ![f] = v]
    /\ changes' = changes \cup {f}
    /\ UNCHANGED kind

Next == \E f \in DOMAIN message : \E v \in Values(kind, f) : Change(f, v)
Spec == Init /\ [][Next]_<<kind, message, changes>>
=============================================================================
