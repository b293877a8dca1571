------------------------- MODULE MCTimedController -------------------------
(* Values for model checking TimedController.                               *)
EXTENDS TimedController

Chunk(action, repeat) == [action |-> action, repeat |-> repeat]
Lost == [visible |-> FALSE, center |-> None, confidence |-> None, area |-> None]

MCBodies == {
    [chunks |-> <<Chunk("forward", 3)>>, stop |-> FALSE, target |-> None],
    [chunks |-> <<Chunk("forward", 1)>>, stop |-> FALSE, target |-> Lost]}
=============================================================================
