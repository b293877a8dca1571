------------------------------- MODULE CmdVel -------------------------------
(* The topic between the controller and the serial node: the messages that  *)
(* wait in the queue of its subscriber, oldest first.                       *)
EXTENDS Motion

VARIABLE cmdVel
=============================================================================
