------------------------------- MODULE Lists -------------------------------
(***************************************************************************)
(* Lists as Python's loops and comprehensions build them, element by       *)
(* element from the left.                                                  *)
(***************************************************************************)
EXTENDS Integers, Sequences

(* [x for x in list if ...]: the elements at the positions that are kept.   *)
Filtered(list, kept) ==
    LET upTo[n \in 0..Len(list)] ==
            IF n = 0 THEN <<>>
            ELSE IF n \in kept THEN Append(upTo[n - 1], list[n]) ELSE upTo[n - 1]
    IN  upTo[Len(list)]

(* One extend for each of the lists.                                        *)
Concatenated(lists) ==
    LET upTo[n \in 0..Len(lists)] ==
            IF n = 0 THEN <<>> ELSE upTo[n - 1] \o lists[n]
    IN  upTo[Len(lists)]
=============================================================================
