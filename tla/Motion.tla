------------------------------- MODULE Motion -------------------------------
(***************************************************************************)
(* What the components that pass velocities to each other share: numbers   *)
(* compared the way the programs compare them, the Twist message, and      *)
(* bounded queues.  Speeds are integers in millionths of m/s or rad/s.     *)
(***************************************************************************)
EXTENDS Integers, Sequences

(* Floating-point comparison, and Python's min and max: they keep their     *)
(* first argument when the comparison with the second is false, as it       *)
(* always is for a NaN, which is not in Int here.                           *)
Less(a, b) == a \in Int /\ b \in Int /\ a < b
Smaller(a, b) == IF Less(b, a) THEN b ELSE a
Larger(a, b)  == IF Less(a, b) THEN b ELSE a
Abs(a) == Larger(a, -a)
Within(value, limit) == -limit <= value /\ value <= limit

(* A geometry_msgs/Twist with the two components a ground robot uses.       *)
Twist == [linear : Int, angular : Int]
Zero == [linear |-> 0, angular |-> 0]

(* Definitions called Faulty... are variants with a plausible bug, one per  *)
(* property that is to notice it; nothing else uses them.  Here: a queue    *)
(* that refuses new elements when it is full.                               *)
FaultyKeepLast(s, n) == IF Len(s) <= n THEN s ELSE SubSeq(s, 1, n)

(* collections.deque(maxlen = n) and a KEEP_LAST(n) topic queue: a full     *)
(* queue loses its oldest element.                                          *)
KeepLast(s, n) == IF Len(s) <= n THEN s ELSE SubSeq(s, Len(s) - n + 1, Len(s))
=============================================================================
