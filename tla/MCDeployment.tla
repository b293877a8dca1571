---------------------------- MODULE MCDeployment ----------------------------
(* Values for model checking Deployment.                                    *)
EXTENDS Deployment

MCTexts == {"mine", "other", "legacy"}

Chunk(action) == [index |-> 0, action |-> action, repeat |-> 1, score |-> "null"]
AnswerTo(step) ==
    [broken |-> {}, version |-> Wire!ApiVersion, session |-> "mine", step |-> step,
     command |-> "action_chunks", chunks |-> <<Chunk("forward")>>,
     waypoints |-> <<>>, stop |-> FALSE, backend |-> "other", time |-> "other"]

(* The first two frames go together into a body, the last two do not.       *)
MCJpegBytes == <<4, 4, 12>>

(* Answers to both steps, and one of the wrong kind.                        *)
MCAnswers == {AnswerTo(0), AnswerTo(1), Mistyped}

MCBodies == {
    [chunks |-> <<[action |-> "forward", repeat |-> 1]>>, stop |-> FALSE, target |-> None]}
=============================================================================
