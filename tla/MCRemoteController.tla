------------------------- MODULE MCRemoteController -------------------------
(* Values for model checking RemoteController.                              *)
EXTENDS RemoteController

Chunk(action, repeat) == [action |-> action, repeat |-> repeat]
Seen(center) == [visible |-> TRUE, center |-> center, confidence |-> 900, area |-> 50]
Lost == [visible |-> FALSE, center |-> None, confidence |-> None, area |-> None]
Body(chunks, stop, target) == [chunks |-> chunks, stop |-> stop, target |-> target]

(* A motion, a turn, a stop chunk, no chunk (a waypoint response), a motion *)
(* under stop = true, a target to the right of the image, one at no place   *)
(* (center_x is NaN), no target seen.                                       *)
MCBodies == {
    Body(<<Chunk("forward", 2), Chunk("stop", 1)>>, FALSE, None),
    Body(<<Chunk("turn_right", 1)>>, FALSE, None),
    Body(<<Chunk("stop", 1), Chunk("forward", 1)>>, FALSE, None),
    Body(<<>>, FALSE, None),
    Body(<<Chunk("forward", 1)>>, TRUE, None),
    Body(<<Chunk("forward", 1)>>, FALSE, Seen(900)),
    Body(<<>>, FALSE, Seen(NaN)),
    Body(<<Chunk("forward", 1)>>, FALSE, Lost)}

(* Two answers are enough where only the order of events matters.           *)
MCFewBodies == {
    Body(<<Chunk("forward", 1)>>, FALSE, None),
    Body(<<Chunk("forward", 1)>>, FALSE, Lost)}

(* A target straight ahead.                                                 *)
MCServoBodies == {Body(<<>>, FALSE, Seen(500))}
=============================================================================
