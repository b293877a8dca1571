----------------------------- MODULE SafeMotion -----------------------------
(***************************************************************************)
(* What the vehicle controller promises to whoever listens to its velocity *)
(* topic, with no word about images, requests or timers: the robot stands  *)
(* still unless a model answer has just been accepted, each accepted       *)
(* answer is worth one bounded motion, a motion is never replaced by       *)
(* another without a halt in between, and every motion comes to an end.    *)
(***************************************************************************)
EXTENDS Naturals

CONSTANTS Twist, Zero      \* the velocities there are, and standing still

VARIABLES
    twist,      \* the velocity commanded last
    accepted,   \* how many answers were accepted
    up          \* whether the controller process runs

vars == <<twist, accepted, up>>

Init == twist = Zero /\ accepted = 0 /\ up = TRUE

(* An answer arrives while the robot stands still; it may order a motion or *)
(* order none.                                                              *)
Answer ==
    /\ up /\ twist = Zero
    /\ accepted' = accepted + 1
    /\ twist' \in Twist
    /\ UNCHANGED up

Halt ==
    /\ up
    /\ twist' = Zero
    /\ UNCHANGED <<accepted, up>>

(* The process goes away.  Nobody halts the robot then: what was commanded  *)
(* last stays commanded.                                                    *)
Die ==
    /\ up /\ ~up'
    /\ UNCHANGED <<twist, accepted>>

Next == Answer \/ Halt \/ Die

(* Said as a formula and not as fairness of Halt, so that a refinement may  *)
(* substitute an expression for up.                                         *)
EveryMotionEnds == (twist # Zero) ~> (twist = Zero \/ ~up)

Safety == Init /\ [][Next]_vars
Spec == Safety /\ EveryMotionEnds
=============================================================================
