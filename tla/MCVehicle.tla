----------------------------- MODULE MCVehicle -----------------------------
(* Values for model checking Vehicle.                                       *)
EXTENDS Vehicle

Chunk(action, repeat) == [action |-> action, repeat |-> repeat]

Lost == [visible |-> FALSE, center |-> None, confidence |-> None, area |-> None]

MCBodies == {
    [chunks |-> <<Chunk("forward", 1)>>, stop |-> FALSE, target |-> None],
    [chunks |-> <<Chunk("turn_left", 1)>>, stop |-> FALSE, target |-> None],
    [chunks |-> <<Chunk("forward", 1)>>, stop |-> FALSE, target |-> Lost]}

MCScale == -1        \* a chassis that turns the other way
=============================================================================
