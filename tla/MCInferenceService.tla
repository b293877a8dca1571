------------------------- MODULE MCInferenceService -------------------------
(* Values for model checking InferenceService.                              *)
EXTENDS InferenceService

CONSTANTS c1, c2

MCConnections == {c1, c2}
MCTexts == {"s1", "s2", "legacy"}

Jpeg(size) == [jpeg |-> TRUE, size |-> size]
Payload(step, image, history) ==
    [broken |-> {}, version |-> ApiVersion, session |-> "s1", step |-> step,
     instruction |-> "s2", image |-> EncodeBytes(image), history |-> history]
Infer(payload, length) ==
    [method |-> "POST", path |-> "/v1/infer", json |-> TRUE, length |-> length, body |-> payload]

FirstStep == Payload(0, Jpeg(4), <<>>)
Health == [Infer(NotJson, 0) EXCEPT !.method = "GET", !.path = "/health"]
Valid == Infer(FirstStep, BodySize(FirstStep))

(* Every way out of do_GET and do_POST before the backend is asked.         *)
MCCalls == {
    Health, [Health EXCEPT !.path = "other"],
    Valid, [Valid EXCEPT !.path = "other"], [Valid EXCEPT !.json = FALSE],
    [Valid EXCEPT !.length = Absent], [Valid EXCEPT !.length = Mistyped],
    [Valid EXCEPT !.length = -1], [Valid EXCEPT !.length = MaxRequestBodyBytes + 1],
    Infer(NotJson, 1), Infer([FirstStep EXCEPT !.broken = {"body"}], 4),
    Infer([FirstStep EXCEPT !.session = Mistyped], 4), Infer([FirstStep EXCEPT !.step = 1], 4)}

MCValidCalls == {Valid}

GoodAnswer ==
    [broken |-> {}, version |-> ApiVersion, session |-> "s1", step |-> 0,
     command |-> "action_chunks",
     chunks |-> <<[index |-> 0, action |-> "forward", repeat |-> 3, score |-> "null"]>>,
     waypoints |-> <<>>, stop |-> FALSE, backend |-> "s2", time |-> "other"]

(* Right, for another step or session, with both arrays, without a backend  *)
(* name, with metadata that is no dict, and no response at all.             *)
MCAnswers == {
    GoodAnswer, [GoodAnswer EXCEPT !.step = 1], [GoodAnswer EXCEPT !.session = "s2"],
    [GoodAnswer EXCEPT !.waypoints = <<"finite">>],
    [GoodAnswer EXCEPT !.version = Mistyped, !.backend = Absent],
    [GoodAnswer EXCEPT !.broken = {"metadata"}], Mistyped}
MCGoodAnswers == {GoodAnswer}
=============================================================================
