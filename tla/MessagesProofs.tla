--------------------------- MODULE MessagesProofs ---------------------------
(***************************************************************************)
(* The properties of Messages for every message of its kind, of any size   *)
(* and with any numbers in it, and every value of the limits.              *)
(***************************************************************************)
EXTENDS Messages, ProtocolProofs

-----------------------------------------------------------------------------
(* Lists that are built from the left.                                      *)

(* Two functions with the same beginning that go on in the same way.        *)
LEMMA SameUpTo ==
    ASSUME NEW n \in Nat, NEW f, NEW h, f[0] = h[0],
           \A i \in 1..n : f[i - 1] = h[i - 1] => f[i] = h[i]
    PROVE  \A i \in 0..n : f[i] = h[i]
<1> DEFINE bad == {m \in 0..n : f[m] # h[m]}
<1>1. ASSUME NEW m \in bad PROVE m # 0 /\ m - 1 \in bad
  OBVIOUS
<1>2. bad \subseteq Nat
  OBVIOUS
<1>3. bad = {}
  <2> HIDE DEF bad
  <2> QED
    BY <1>1, <1>2, Descent
<1> QED
  BY <1>3

(* Steps can be taken one after the other.                                  *)
Stepping(h, V, base, n, step) ==
    /\ h \in [0..n -> V] /\ h[0] = base
    /\ \A i \in 1..n : h[i] = step[i][h[i - 1]]

LEMMA StepsExist ==
    ASSUME NEW V, NEW base \in V, NEW n \in Nat, NEW step \in [1..n -> [V -> V]]
    PROVE  \E h : Stepping(h, V, base, n, step)
<1> DEFINE bad == {m \in 0..n : ~ \E h : Stepping(h, V, base, m, step)}
<1>1. ASSUME NEW m \in bad PROVE m # 0 /\ m - 1 \in bad
  <2>1. m # 0
    <3>1. Stepping([i \in 0..0 |-> base], V, base, 0, step)
      BY DEF Stepping
    <3> QED
      BY <3>1
  <2>2. ASSUME NEW f, Stepping(f, V, base, m - 1, step) PROVE FALSE
    <3> DEFINE g == [i \in 0..m |-> IF i < m THEN f[i] ELSE step[m][f[m - 1]]]
    <3>1. f[m - 1] \in V /\ step[m] \in [V -> V]
      BY <2>1, <2>2 DEF Stepping
    <3>2. g \in [0..m -> V] /\ g[0] = base
      BY <2>1, <2>2, <3>1 DEF Stepping
    <3>3. \A i \in 1..m : g[i] = step[i][g[i - 1]]
      BY <2>1, <2>2, <3>1 DEF Stepping
    <3> HIDE DEF g
    <3>4. Stepping(g, V, base, m, step)
      BY <3>2, <3>3 DEF Stepping
    <3> QED
      BY <3>4
  <2>3. m - 1 \in 0..n
    BY <2>1
  <2> QED
    BY <2>1, <2>2, <2>3
<1>2. bad \subseteq Nat
  OBVIOUS
<1> HIDE DEF bad
<1>3. bad = {}
  BY <1>1, <1>2, Descent
<1> QED
  BY <1>3 DEF bad

(* The lists a comprehension with a condition passes through.               *)
FilterSteps(h, S, list, kept) ==
    /\ h \in [0..Len(list) -> Seq(S)] /\ h[0] = <<>>
    /\ \A i \in 1..Len(list) : h[i] = IF i \in kept THEN Append(h[i - 1], list[i]) ELSE h[i - 1]

LEMMA FilteredBySteps ==
    ASSUME NEW S, NEW list \in Seq(S), NEW kept
    PROVE  \E h : FilterSteps(h, S, list, kept) /\ Filtered(list, kept) = h[Len(list)]
<1> DEFINE n == Len(list)
           V == Seq(S)
           step == [i \in 1..n |-> [v \in V |-> IF i \in kept THEN Append(v, list[i]) ELSE v]]
           Body(f) == [m \in 0..Len(list) |->
                          IF m = 0 THEN <<>>
                          ELSE IF m \in kept THEN Append(f[m - 1], list[m]) ELSE f[m - 1]]
           upTo == CHOOSE f : f = Body(f)
<1>1. Filtered(list, kept) = upTo[n]
  BY DEF Filtered
<1>2. n \in Nat /\ <<>> \in V /\ \A i \in 1..n : list[i] \in S
  OBVIOUS
<1>3. step \in [1..n -> [V -> V]]
  BY <1>2
<1>4. PICK h : Stepping(h, V, <<>>, n, step)
  <2> HIDE DEF n, V, step
  <2> QED
    BY <1>2, <1>3, StepsExist
<1>5. FilterSteps(h, S, list, kept)
  <2>1. h \in [0..n -> V] /\ h[0] = <<>>
    BY <1>4 DEF Stepping
  <2>2. ASSUME NEW i \in 1..n
        PROVE  h[i] = IF i \in kept THEN Append(h[i - 1], list[i]) ELSE h[i - 1]
    <3>1. h[i - 1] \in V
      BY <1>2, <2>1
    <3>2. h[i] = step[i][h[i - 1]]
      BY <1>4 DEF Stepping
    <3>3. step[i] = [v \in V |-> IF i \in kept THEN Append(v, list[i]) ELSE v]
      OBVIOUS
    <3> HIDE DEF step
    <3> QED
      BY <3>1, <3>2, <3>3
  <2> QED
    BY <2>1, <2>2 DEF FilterSteps
<1>6. h = Body(h)
  <2>1. h = [m \in 0..n |-> h[m]]
    BY <1>5 DEF FilterSteps
  <2>2. \A m \in 0..n : m # 0 => m \in 1..n
    BY <1>2
  <2>3. \A m \in 0..n :
            h[m] = IF m = 0 THEN <<>>
                   ELSE IF m \in kept THEN Append(h[m - 1], list[m]) ELSE h[m - 1]
    BY <1>5, <2>2 DEF FilterSteps
  <2> QED
    BY <2>1, <2>3
<1>7. upTo = Body(upTo)
  <2> HIDE DEF Body
  <2> QED
    BY <1>6
<1> HIDE DEF upTo
<1>8. \A m \in 0..n :
          upTo[m] = IF m = 0 THEN <<>>
                    ELSE IF m \in kept THEN Append(upTo[m - 1], list[m]) ELSE upTo[m - 1]
  BY <1>7
<1>9. upTo[0] = h[0] /\ \A i \in 1..n : upTo[i - 1] = h[i - 1] => upTo[i] = h[i]
  <2>1. upTo[0] = h[0]
    BY <1>2, <1>5, <1>8 DEF FilterSteps
  <2>2. ASSUME NEW i \in 1..n, upTo[i - 1] = h[i - 1] PROVE upTo[i] = h[i]
    <3>1. i \in 0..n /\ i # 0
      BY <1>2
    <3> QED
      BY <1>5, <1>8, <2>2, <3>1 DEF FilterSteps
  <2> QED
    BY <2>1, <2>2
<1> HIDE DEF n
<1>10. \A i \in 0..n : upTo[i] = h[i]
  BY <1>2, <1>9, SameUpTo
<1>11. upTo[n] = h[n]
  BY <1>2, <1>10
<1> QED
  BY <1>1, <1>5, <1>11 DEF n

(* What is left are the elements at the positions that are kept, in order.  *)
Enumerates(e, left, list, kept, n) ==
    /\ e \in [1..Len(left) -> 1..n]
    /\ \A k \in 1..Len(left) : e[k] \in kept /\ left[k] = list[e[k]]
    /\ \A k, l \in 1..Len(left) : k < l => e[k] < e[l]
    /\ \A i \in 1..n : i \in kept => \E k \in 1..Len(left) : e[k] = i

LEMMA StepsEnumerate ==
    ASSUME NEW S, NEW list \in Seq(S), NEW kept, NEW h, FilterSteps(h, S, list, kept),
           NEW n \in 0..Len(list)
    PROVE  \E e : Enumerates(e, h[n], list, kept, n)
<1> DEFINE bad == {m \in 0..Len(list) : ~ \E e : Enumerates(e, h[m], list, kept, m)}
<1>1. ASSUME NEW m \in bad PROVE m # 0 /\ m - 1 \in bad
  <2>1. m # 0
    <3>1. Enumerates([i \in 1..0 |-> 0], h[0], list, kept, 0)
      BY DEF Enumerates, FilterSteps
    <3> QED
      BY <3>1
  <2>2. m \in 1..Len(list) /\ m - 1 \in 0..Len(list)
    BY <2>1
  <2>3. h[m - 1] \in Seq(S) /\ list[m] \in S
    BY <2>2 DEF FilterSteps
  <2>4. ASSUME NEW e, Enumerates(e, h[m - 1], list, kept, m - 1) PROVE FALSE
    <3>1. CASE m \notin kept
      <4>1. h[m] = h[m - 1]
        BY <2>2, <3>1 DEF FilterSteps
      <4>2. Enumerates(e, h[m], list, kept, m)
        BY <2>2, <2>3, <2>4, <3>1, <4>1 DEF Enumerates
      <4> QED
        BY <4>2
    <3>2. CASE m \in kept
      <4> DEFINE left == h[m - 1]
                 len == Len(left)
                 g == [k \in 1..(len + 1) |-> IF k = len + 1 THEN m ELSE e[k]]
      <4>1. h[m] = Append(left, list[m])
        BY <2>2, <3>2 DEF FilterSteps
      <4>2. /\ len \in Nat /\ Len(h[m]) = len + 1
            /\ \A k \in 1..len : h[m][k] = left[k]
            /\ h[m][len + 1] = list[m]
        BY <2>3, <4>1
      <4>3. /\ \A k \in 1..len : e[k] \in 1..(m - 1) /\ e[k] \in kept /\ left[k] = list[e[k]]
            /\ \A k, l \in 1..len : k < l => e[k] < e[l]
            /\ \A i \in 1..(m - 1) : i \in kept => \E k \in 1..len : e[k] = i
        BY <2>4 DEF Enumerates
      <4> HIDE DEF left, len
      <4>4. g \in [1..(len + 1) -> 1..m]
        BY <2>2, <4>2, <4>3
      <4>5. \A k \in 1..(len + 1) : g[k] \in kept /\ h[m][k] = list[g[k]]
        BY <3>2, <4>2, <4>3
      <4>6. \A k, l \in 1..(len + 1) : k < l => g[k] < g[l]
        BY <2>2, <4>2, <4>3
      <4>7. \A i \in 1..m : i \in kept => \E k \in 1..(len + 1) : g[k] = i
        <5>1. g[len + 1] = m /\ \A k \in 1..len : g[k] = e[k] /\ k \in 1..(len + 1)
          BY <4>2
        <5>2. \A i \in 1..m : i = m \/ i \in 1..(m - 1)
          BY <2>2
        <5>3. len + 1 \in 1..(len + 1)
          BY <4>2
        <5> HIDE DEF g
        <5> QED
          BY <4>3, <5>1, <5>2, <5>3
      <4> HIDE DEF g
      <4>8. Enumerates(g, h[m], list, kept, m)
        BY <4>2, <4>4, <4>5, <4>6, <4>7 DEF Enumerates
      <4> QED
        BY <4>8
    <3> QED
      BY <3>1, <3>2
  <2> QED
    BY <2>1, <2>2, <2>4
<1>2. bad \subseteq Nat
  OBVIOUS
<1> HIDE DEF bad
<1>3. bad = {}
  BY <1>1, <1>2, Descent
<1> QED
  BY <1>3 DEF bad

LEMMA FilteredEnumerates ==
    ASSUME NEW S, NEW list \in Seq(S), NEW kept
    PROVE  /\ Filtered(list, kept) \in Seq(S)
           /\ \E e : Enumerates(e, Filtered(list, kept), list, kept, Len(list))
<1>1. PICK h : FilterSteps(h, S, list, kept) /\ Filtered(list, kept) = h[Len(list)]
  BY FilteredBySteps
<1>2. Len(list) \in 0..Len(list)
  OBVIOUS
<1>3. h[Len(list)] \in Seq(S)
  BY <1>1, <1>2 DEF FilterSteps
<1>4. \E e : Enumerates(e, h[Len(list)], list, kept, Len(list))
  BY <1>1, <1>2, StepsEnumerate
<1> QED
  BY <1>1, <1>3, <1>4

(* Without a condition, the list is what it was.                            *)
LEMMA FilteredAll ==
    ASSUME NEW S, NEW list \in Seq(S), NEW kept, 1..Len(list) \subseteq kept
    PROVE  Filtered(list, kept) = list
<1>1. PICK h : FilterSteps(h, S, list, kept) /\ Filtered(list, kept) = h[Len(list)]
  BY FilteredBySteps
<1> DEFINE n == Len(list)
           f == [m \in 0..n |-> [i \in 1..m |-> list[i]]]
<1>2. n \in Nat /\ h[0] = f[0]
  BY <1>1 DEF FilterSteps
<1>3. ASSUME NEW i \in 1..n, h[i - 1] = f[i - 1] PROVE h[i] = f[i]
  <2>1. i - 1 \in 0..n /\ i \in 0..n
    OBVIOUS
  <2>2. h[i] = Append([j \in 1..(i - 1) |-> list[j]], list[i])
    BY <1>1, <1>3, <2>1 DEF FilterSteps
  <2>3. Append([j \in 1..(i - 1) |-> list[j]], list[i]) = [j \in 1..i |-> list[j]]
    BY <2>1
  <2> QED
    BY <2>1, <2>2, <2>3
<1> HIDE DEF f, n
<1>4. \A i \in 0..n : h[i] = f[i]
  BY <1>2, <1>3, SameUpTo
<1>5. h[n] = f[n]
  BY <1>2, <1>4
<1>6. f[n] = list
  BY <1>2 DEF f, n
<1> QED
  BY <1>1, <1>5, <1>6 DEF n

(* The lists a loop of extends passes through.                              *)
ConcatSteps(h, S, lists, n) ==
    /\ h \in [0..n -> Seq(S)] /\ h[0] = <<>>
    /\ \A i \in 1..n : h[i] = h[i - 1] \o lists[i]

LEMMA ConcatenatedBySteps ==
    ASSUME NEW S, NEW lists, NEW n \in Nat, Len(lists) = n, \A i \in 1..n : lists[i] \in Seq(S)
    PROVE  \E h : ConcatSteps(h, S, lists, n) /\ Concatenated(lists) = h[n]
<1> DEFINE V == Seq(S)
           step == [i \in 1..n |-> [v \in V |-> v \o lists[i]]]
           Body(f) == [m \in 0..Len(lists) |-> IF m = 0 THEN <<>> ELSE f[m - 1] \o lists[m]]
           upTo == CHOOSE f : f = Body(f)
<1>1. Concatenated(lists) = upTo[n]
  BY DEF Concatenated
<1>2. <<>> \in V
  OBVIOUS
<1>3. step \in [1..n -> [V -> V]]
  <2>1. \A i \in 1..n : \A v \in V : v \o lists[i] \in V
    BY ConcatProperties
  <2> QED
    BY <2>1
<1>4. PICK h : Stepping(h, V, <<>>, n, step)
  <2> HIDE DEF V, step
  <2> QED
    BY <1>2, <1>3, StepsExist
<1>5. ConcatSteps(h, S, lists, n)
  <2>1. h \in [0..n -> V] /\ h[0] = <<>>
    BY <1>4 DEF Stepping
  <2>2. ASSUME NEW i \in 1..n
        PROVE  h[i] = h[i - 1] \o lists[i]
    <3>1. h[i - 1] \in V
      BY <2>1
    <3>2. h[i] = step[i][h[i - 1]]
      BY <1>4 DEF Stepping
    <3>3. step[i] = [v \in V |-> v \o lists[i]]
      OBVIOUS
    <3> HIDE DEF step
    <3> QED
      BY <3>1, <3>2, <3>3
  <2> QED
    BY <2>1, <2>2 DEF ConcatSteps
<1>6. h = Body(h)
  <2>1. h = [m \in 0..n |-> h[m]]
    BY <1>5 DEF ConcatSteps
  <2>2. \A m \in 0..n : m # 0 => m \in 1..n
    OBVIOUS
  <2>3. \A m \in 0..n : h[m] = IF m = 0 THEN <<>> ELSE h[m - 1] \o lists[m]
    BY <1>5, <2>2 DEF ConcatSteps
  <2> QED
    BY <2>1, <2>3
<1>7. upTo = Body(upTo)
  <2> HIDE DEF Body
  <2> QED
    BY <1>6
<1> HIDE DEF upTo
<1>8. \A m \in 0..n : upTo[m] = IF m = 0 THEN <<>> ELSE upTo[m - 1] \o lists[m]
  BY <1>7
<1>9. upTo[0] = h[0] /\ \A i \in 1..n : upTo[i - 1] = h[i - 1] => upTo[i] = h[i]
  <2>1. upTo[0] = h[0]
    BY <1>5, <1>8 DEF ConcatSteps
  <2>2. ASSUME NEW i \in 1..n, upTo[i - 1] = h[i - 1] PROVE upTo[i] = h[i]
    <3>1. i \in 0..n /\ i # 0
      OBVIOUS
    <3> QED
      BY <1>5, <1>8, <2>2, <3>1 DEF ConcatSteps
  <2> QED
    BY <2>1, <2>2
<1> HIDE DEF V, step, Body
<1>10. \A i \in 0..n : upTo[i] = h[i]
  BY ONLY n \in Nat, <1>9, SameUpTo
<1>11. upTo[n] = h[n]
  BY <1>10
<1> QED
  BY <1>1, <1>5, <1>11

LEMMA ConcatenatedIsList ==
    ASSUME NEW S, NEW lists, NEW n \in Nat, Len(lists) = n, \A i \in 1..n : lists[i] \in Seq(S)
    PROVE  Concatenated(lists) \in Seq(S)
<1>1. PICK h : ConcatSteps(h, S, lists, n) /\ Concatenated(lists) = h[n]
  BY ConcatenatedBySteps
<1> QED
  BY <1>1 DEF ConcatSteps

-----------------------------------------------------------------------------
(* The numbers of a phrase.                                                 *)

(* round() of a quotient is a nearest integer, for the two step lengths.    *)
LEMMA RoundedQuotientIsNearest ==
    ASSUME NEW number \in Int, NEW unit \in {150, 250}
    PROVE  /\ RoundedQuotient(number, unit) \in Int
           /\ 2 * (number - RoundedQuotient(number, unit) * unit) <= unit
           /\ 2 * (RoundedQuotient(number, unit) * unit - number) <= unit
<1> DEFINE d == number \div unit
           m == number % unit
<1>1. CASE unit = 150
  <2>1. d \in Int /\ m \in 0..149 /\ number = 150 * d + m
    BY <1>1
  <2> HIDE DEF d, m
  <2>2. RoundedQuotient(number, unit) =
            IF 2 * m > 150 \/ (2 * m = 150 /\ d % 2 = 1) THEN d + 1 ELSE d
    BY <1>1 DEF RoundedQuotient, d, m
  <2>3. CASE RoundedQuotient(number, unit) = d + 1 /\ 2 * m >= 150
    BY <1>1, <2>1, <2>3
  <2>4. CASE RoundedQuotient(number, unit) = d /\ 2 * m <= 150
    BY <1>1, <2>1, <2>4
  <2> QED
    BY <2>1, <2>2, <2>3, <2>4
<1>2. CASE unit = 250
  <2>1. d \in Int /\ m \in 0..249 /\ number = 250 * d + m
    BY <1>2
  <2> HIDE DEF d, m
  <2>2. RoundedQuotient(number, unit) =
            IF 2 * m > 250 \/ (2 * m = 250 /\ d % 2 = 1) THEN d + 1 ELSE d
    BY <1>2 DEF RoundedQuotient, d, m
  <2>3. CASE RoundedQuotient(number, unit) = d + 1 /\ 2 * m >= 250
    BY <1>2, <2>1, <2>3
  <2>4. CASE RoundedQuotient(number, unit) = d /\ 2 * m <= 250
    BY <1>2, <2>1, <2>4
  <2> QED
    BY <2>1, <2>2, <2>3, <2>4
<1> QED
  BY <1>1, <1>2

(* Cut to one of 1..3, it is a nearest one of these.                        *)
LEMMA ClosestOfThree ==
    ASSUME NEW number \in Int, NEW unit \in {150, 250}, NEW repeat,
           repeat = IF RoundedQuotient(number, unit) < 1 THEN 1
                    ELSE IF RoundedQuotient(number, unit) > 3 THEN 3
                    ELSE RoundedQuotient(number, unit)
    PROVE  /\ repeat \in 1..3
           /\ \A k \in 1..3 : Distance(repeat * unit, number) <= Distance(k * unit, number)
<1> DEFINE steps == RoundedQuotient(number, unit)
<1>1. /\ steps \in Int
      /\ 2 * (number - steps * unit) <= unit
      /\ 2 * (steps * unit - number) <= unit
  <2>1. CASE unit = 150
    BY <2>1, RoundedQuotientIsNearest
  <2>2. CASE unit = 250
    BY <2>2, RoundedQuotientIsNearest, SMTT(60)
  <2> QED
    BY <2>1, <2>2
<1> HIDE DEF steps
<1>2. repeat = IF steps < 1 THEN 1 ELSE IF steps > 3 THEN 3 ELSE steps
  BY DEF steps
<1>3. repeat \in 1..3
  BY <1>1, <1>2
<1>4. ASSUME NEW k \in 1..3
      PROVE  Distance(repeat * unit, number) <= Distance(k * unit, number)
  <2>1. CASE unit = 150
    BY <1>1, <1>2, <1>3, <2>1 DEF Distance
  <2>2. CASE unit = 250
    BY <1>1, <1>2, <1>3, <2>2 DEF Distance
  <2> QED
    BY <2>1, <2>2
<1> QED
  BY <1>3, <1>4

(* Whatever number a phrase holds, the repeat of its chunk is between one   *)
(* and three and no other such repeat comes closer to the distance or the   *)
(* angle (_repeat_from_official_action).                                    *)
THEOREM ClosestRepeatHolds ==
    ASSUME NEW phrase \in Phrase PROVE ClosestRepeat(phrase)
<1> DEFINE action == OfficialActionName(phrase)
           unit == IF action = "forward" THEN 250 ELSE 150
           repeat == RepeatFromOfficialAction(phrase, action)
<1> SUFFICES ASSUME action \in {"forward", "turn_left", "turn_right"}, phrase.number # Absent
             PROVE  /\ repeat \in 1..3
                    /\ \A k \in 1..3 : Distance(repeat * unit, phrase.number)
                                        <= Distance(k * unit, phrase.number)
  BY Zenon DEF ClosestRepeat
<1>1. phrase.number \in Int /\ unit \in {150, 250}
  BY DEF Phrase
<1>2. repeat = IF RoundedQuotient(phrase.number, unit) < 1 THEN 1
               ELSE IF RoundedQuotient(phrase.number, unit) > 3 THEN 3
               ELSE RoundedQuotient(phrase.number, unit)
  BY DEF RepeatFromOfficialAction
<1> HIDE DEF action, unit, repeat
<1> QED
  BY <1>1, <1>2, ClosestOfThree

-----------------------------------------------------------------------------
(* Pictures.                                                                *)

(* Every frame of the camera reaches the model with every pixel in its      *)
(* place (_publish_frame, _encode_compressed_image).                        *)
THEOREM PictureKeptHolds ==
    ASSUME NEW height \in Nat \ {0}, NEW width \in Nat \ {0}
    PROVE  PictureKept(height, width)
<1> DEFINE image == Published(height, width)
<1>1. image.height = height /\ image.width = width /\ image.step = width * 3
      /\ image.encoding = "bgr8" /\ image.data = height * width * 3
  BY DEF Published
<1>2. height * width * 3 \in Int /\ width * 3 \in Int /\ height * width * 3 = height * (width * 3)
  OBVIOUS
<1> HIDE DEF image
<1>3. Channels(image) = 3 /\ ExpectedStep(image) = width * 3
  BY <1>1 DEF Channels, ExpectedStep
<1>4. Stride(image) = width * 3
  BY <1>1, <1>2, <1>3, NotGivenAssumption DEF Stride
<1>5. Encodable(image)
  BY <1>1, <1>2, <1>4, NotGivenAssumption DEF Encodable
<1>6. RosImageToObservation(image, TRUE) = "jpeg"
  BY <1>5 DEF RosImageToObservation
<1>7. ASSUME NEW row \in 0..(height - 1), NEW column \in 0..(width - 1)
      PROVE  PixelAt(image, row, column) = 3 * (row * width + column)
  BY <1>3, <1>4 DEF PixelAt
<1> QED
  BY <1>1, <1>6, <1>7 DEF PictureKept, image

(* Products grow with their first factor.                                   *)
LEMMA ProductMonotone ==
    ASSUME NEW a \in Int, NEW b \in Int, a <= b, NEW c \in Nat
    PROVE  a * c <= b * c
<1>1. b - a \in Nat
  OBVIOUS
<1>2. (b - a) * c >= 0
  BY <1>1
<1>3. (b - a) * c = b * c - a * c
  OBVIOUS
<1> QED
  BY <1>2, <1>3

(* No pixel of an encoded picture lies outside of the message's data, and   *)
(* its rows do not overlap, whatever the message says of itself.            *)
THEOREM PixelsWithinDataHolds ==
    ASSUME NEW image \in Image PROVE PixelsWithinData(image)
<1> DEFINE h == image.height
           w == image.width
           ch == Channels(image)
           s == Stride(image)
<1> SUFFICES ASSUME Encodable(image)
             PROVE  /\ \A row \in 0..(h - 1), column \in 0..(w - 1) :
                            /\ row * s + column * ch >= 0
                            /\ row * s + column * ch + ch <= image.data
                    /\ \A row \in 1..(h - 1) :
                            (row - 1) * s + (w - 1) * ch + ch <= row * s + 0 * ch
  BY DEF PixelsWithinData, PixelAt
<1>1. h \in Nat \ {0} /\ w \in Nat \ {0} /\ ch \in Nat \ {0} /\ image.data \in Nat
  BY DEF Encodable, Image, Channels
<1>2. w * ch \in Int /\ image.step \in Int \cup {NotGiven}
  BY <1>1 DEF Image
<1>3. s \in Int /\ s >= w * ch
  BY <1>2 DEF Stride, ExpectedStep
<1>4. w * ch >= 0
  BY <1>1
<1>5. image.data >= h * s
  BY DEF Encodable
<1> HIDE DEF h, w, ch, s
<1>6. s \in Nat
  BY <1>3, <1>4, <1>2
<1>7. ASSUME NEW row \in 0..(h - 1), NEW column \in 0..(w - 1)
      PROVE  row * s + column * ch >= 0 /\ row * s + column * ch + ch <= image.data
  <2>1. row \in Nat /\ column \in Nat /\ row + 1 <= h /\ column + 1 <= w
    BY <1>1
  <2>2. row * s >= 0 /\ column * ch >= 0 /\ row * s \in Int /\ column * ch \in Int
    BY <2>1, <1>1, <1>6
  <2>3. (row + 1) * s <= h * s /\ (row + 1) * s = row * s + s /\ h * s \in Int
    BY <2>1, <1>1, <1>6, ProductMonotone
  <2>4. (column + 1) * ch <= w * ch /\ (column + 1) * ch = column * ch + ch
    BY <2>1, <1>1, ProductMonotone
  <2> QED
    BY <2>2, <2>3, <2>4, <1>1, <1>2, <1>3, <1>5
<1>8. ASSUME NEW row \in 1..(h - 1)
      PROVE  (row - 1) * s + (w - 1) * ch + ch <= row * s + 0 * ch
  <2>1. (row - 1) * s = row * s - s /\ (w - 1) * ch = w * ch - ch /\ row * s \in Int
    BY <1>1, <1>6
  <2> QED
    BY <2>1, <1>1, <1>2, <1>3
<1> QED
  BY <1>7, <1>8

-----------------------------------------------------------------------------
(* Requests and responses.                                                  *)

(* What may be sent arrives as it is, and so does the reason a request is   *)
(* refused for (codec.py, validation.py, post_inference).                   *)
THEOREM MessagesSurviveHolds == WellTyped => MessagesSurvive
<1> SUFFICES ASSUME WellTyped PROVE MessagesSurvive
  OBVIOUS
<1>1. ASSUME kind = "request" PROVE RequestSurvives(message)
  BY <1>1, RequestSurvivesHolds DEF WellTyped, Messages
<1>2. ASSUME kind = "response" PROVE ResponseSurvives(message, "text")
  BY <1>2, ResponseSurvivesHolds, NameAssumption DEF WellTyped, Messages
<1>3. ASSUME kind = "request_payload" PROVE RefusalArrives(message)
  BY <1>3, RefusalArrivesHolds DEF WellTyped, Messages
<1> QED
  BY <1>1, <1>2, <1>3 DEF MessagesSurvive

(* Whatever a server sends, what the client returns can be executed and     *)
(* answers its request (response_from_dict, post_inference).                *)
THEOREM AcceptedAreExecutableHolds == WellTyped => AcceptedAreExecutable
<1> SUFFICES ASSUME WellTyped, kind = "response_payload" PROVE AcceptedAreExecutable
  BY DEF AcceptedAreExecutable
<1>1. message \in ResponsePayload
  BY DEF WellTyped, Messages
<1> QED
  BY <1>1, AcceptedIsExecutableHolds, ReturnedCanBeUsedHolds, VersionedIsCompleteHolds
     DEF AcceptedAreExecutable

(* A picture the service has accepted is there, for a JPEG is never empty.  *)
LEMMA DecodedHasData ==
    ASSUME NEW image \in WireImage, DecodeJpeg(image) = Ok
    PROVE  image.base64 \in Bytes /\ image.base64.size > 0
<1>1. BadRequest # Ok /\ Error("INVALID_BASE64", 400) # Ok
  BY DEF BadRequest, Ok, Error
<1>2. image \notin {Mistyped, NotBase64}
  BY <1>1 DEF DecodeJpeg
<1>3. image \in Base64 /\ image.base64 \in Bytes
  BY <1>2 DEF WireImage, Base64
<1>4. ValidateJpeg(image.base64) = Ok
  BY <1>1, <1>2 DEF DecodeJpeg
<1>5. image.base64.jpeg
  BY <1>4, ValidateJpegRefuses
<1> QED
  BY <1>3, <1>5 DEF Bytes

(* The pictures of an accepted request reach the model, all of them, in     *)
(* their order and with the current one last (request_from_dict,            *)
(* _observation_to_images, build_navida_messages).                          *)
THEOREM AcceptedAreShownHolds == WellTyped => AcceptedAreShown
<1> DEFINE p == message
           r == RequestFromPayload(p)
           pictures == Append(r.history, r.image)
           kept == {i \in 1..Len(pictures) : pictures[i] # Absent /\ pictures[i].size > 0}
<1> SUFFICES ASSUME WellTyped, kind = "request_payload", RequestFromDict(p) = Ok
             PROVE  ModelSeesTheRequest(r)
  BY DEF AcceptedAreShown
<1>1. p.image \in WireImage /\ p.history \in Seq(WireImage) /\ Len(p.history) \in Nat
  BY DEF WellTyped, Messages, RequestPayload
<1>2. /\ DecodeJpeg(p.image) = Ok
      /\ \A i \in 1..Len(p.history) : DecodeJpeg(p.history[i]) = Ok
  BY <1>1, RequestFromDictAccepts
<1>3. /\ r.image = p.image.base64
      /\ r.history = [i \in 1..Len(p.history) |-> p.history[i].base64]
  BY DEF RequestFromPayload
<1>4. r.image \in Bytes /\ r.image.size > 0
  BY <1>1, <1>2, <1>3, DecodedHasData
<1>5. \A i \in 1..Len(p.history) :
        p.history[i].base64 \in Bytes /\ p.history[i].base64.size > 0
  BY <1>1, <1>2, DecodedHasData
<1> HIDE DEF r
<1>6. /\ r.history \in Seq(Bytes) /\ Len(r.history) = Len(p.history)
      /\ \A i \in 1..Len(r.history) : r.history[i].size > 0
  BY <1>1, <1>3, <1>5
<1>7. /\ pictures \in Seq(Bytes) /\ Len(pictures) = Len(r.history) + 1
      /\ \A i \in 1..Len(r.history) : pictures[i] = r.history[i]
      /\ pictures[Len(r.history) + 1] = r.image
  BY <1>4, <1>6
<1>8. 1..Len(pictures) \subseteq kept
  BY <1>1, <1>4, <1>6, <1>7, ImageAssumption
<1>9. Filtered(pictures, kept) = pictures
  BY <1>7, <1>8, FilteredAll
<1>10. ObservationToImages(r) = pictures
  <2>1. pictures # <<>>
    BY <1>1, <1>6, <1>7
  <2> QED
    BY <1>9, <2>1 DEF ObservationToImages
<1> HIDE DEF pictures, kept
<1>11. BuildNavidaMessages(pictures).current = r.image
  BY <1>7 DEF BuildNavidaMessages
<1>12. BuildNavidaMessages(pictures).history =
          IF r.history = <<>> THEN <<r.image>> ELSE r.history
  <2>1. CASE r.history = <<>>
    <3>1. pictures = <<r.image>>
      BY <1>7, <2>1
    <3> QED
      BY <2>1, <3>1 DEF BuildNavidaMessages
  <2>2. CASE r.history # <<>>
    <3>1. Len(pictures) # 1 /\ Len(pictures) - 1 = Len(r.history)
      BY <1>1, <1>6, <1>7, <2>2
    <3>2. SubSeq(pictures, 1, Len(r.history)) = r.history
      BY <1>1, <1>6, <1>7
    <3> QED
      BY <2>2, <3>1, <3>2 DEF BuildNavidaMessages
  <2> QED
    BY <2>1, <2>2
<1> QED
  BY <1>10, <1>11, <1>12 DEF ModelSeesTheRequest

-----------------------------------------------------------------------------
(* What the model and the detector say.                                     *)

(* Distances and angles become the closest number of steps                  *)
(* (_repeat_from_official_action).                                          *)
THEOREM ClosestStepsHolds == WellTyped => ClosestSteps
<1> SUFFICES ASSUME WellTyped, kind = "phrase" PROVE ClosestRepeat(message)
  BY DEF ClosestSteps
<1>1. message \in Phrase
  BY DEF WellTyped, Messages
<1> QED
  BY <1>1, ClosestRepeatHolds

-----------------------------------------------------------------------------
(* Chunks.                                                                  *)

(* A list of chunks the service accepts, as far as the scores are finite.   *)
IsNumbered(chunk, i) ==
    /\ chunk \in Chunk /\ chunk.index = i - 1
    /\ chunk.action \in Actions /\ chunk.repeat \in Nat \ {0}
Numbered(chunks) ==
    /\ chunks \in Seq(Chunk)
    /\ \A i \in 1..Len(chunks) : IsNumbered(chunks[i], i)

LEMMA NumberedByParts ==
    ASSUME NEW n \in Nat, NEW chunk, \A i \in 1..n : IsNumbered(chunk[i], i),
           NEW chunks, chunks = [i \in 1..n |-> chunk[i]]
    PROVE  Numbered(chunks) /\ Len(chunks) = n
<1>1. chunks \in [1..n -> Chunk]
  BY DEF IsNumbered
<1>2. chunks \in Seq(Chunk)
  BY <1>1, SeqDef
<1>3. Len(chunks) = n
  BY <1>1, <1>2, LenProperties
<1> QED
  BY <1>2, <1>3 DEF Numbered

LEMMA ChunkIsNumbered ==
    ASSUME NEW i \in Nat \ {0}, NEW action \in Actions, NEW repeat \in Nat \ {0},
           NEW score \in {"null", "finite", "other"}
    PROVE  IsNumbered(ChunkOf(i - 1, action, repeat, score), i)
<1>1. ChunkOf(i - 1, action, repeat, score) \in Chunk
  BY DEF ChunkOf, Chunk
<1> QED
  BY <1>1 DEF ChunkOf, IsNumbered

LEMMA AliasIsAction == \A word \in DOMAIN Alias : Alias[word] \in Actions
BY DEF Alias, Actions

(* The chunks of the JSON object.                                           *)
LEMMA SlicedIsObject ==
    ASSUME NEW text \in Text
    PROVE  SliceJsonObject(text) \in JsonObject \cup {Absent}
BY DEF SliceJsonObject, Text

LEMMA JsonChunksNumbered ==
    ASSUME NEW text \in Text, ~JsonRaises(text)
    PROVE  Numbered(JsonChunks(text))
<1> DEFINE object == SliceJsonObject(text)
           actions == IF object = Absent THEN <<>> ELSE object.actions
           named == {i \in 1..Len(actions) : actions[i].action \in DOMAIN Alias}
           known == Filtered(actions, named)
           chunk == [i \in 1..Len(known) |->
                        ChunkOf(i - 1, Alias[known[i].action], PositiveInt(known[i].repeat),
                                known[i].score)]
<1>1. actions \in Seq(Raw) /\ \A i \in 1..Len(actions) : actions[i].repeat # Infinity
  <2>1. object \in JsonObject \cup {Absent}
    BY SlicedIsObject
  <2>2. object = Absent \/ (/\ object.actions # Mistyped
                            /\ \A i \in 1..Len(object.actions) : object.actions[i].repeat # Infinity)
    BY DEF JsonRaises
  <2> HIDE DEF object
  <2> QED
    BY <2>1, <2>2 DEF JsonObject
<1>2. JsonChunks(text) = [i \in 1..Len(known) |-> chunk[i]]
  BY DEF JsonChunks
<1> HIDE DEF object
<1> HIDE DEF actions
<1>3. known \in Seq(Raw) /\ \E e : Enumerates(e, known, actions, named, Len(actions))
  BY <1>1, FilteredEnumerates
<1>4. PICK e : Enumerates(e, known, actions, named, Len(actions))
  BY <1>3
<1> HIDE DEF known
<1>5. ASSUME NEW i \in 1..Len(known)
      PROVE  IsNumbered(chunk[i], i)
  <2>1. known[i] \in Raw /\ known[i].action \in DOMAIN Alias /\ known[i].repeat # Infinity
    BY <1>1, <1>3, <1>4 DEF Enumerates
  <2>2. PositiveInt(known[i].repeat) \in Nat \ {0}
    BY <2>1 DEF PositiveInt, Raw
  <2>3. Alias[known[i].action] \in Actions
    BY <2>1, AliasIsAction
  <2>4. known[i].score \in {"null", "finite", "other"} /\ i \in Nat \ {0}
    BY <2>1 DEF Raw
  <2> QED
    BY <2>2, <2>3, <2>4, ChunkIsNumbered
<1>6. Len(known) \in Nat
  BY <1>3
<1> HIDE DEF chunk
<1> QED
  BY <1>2, <1>5, <1>6, NumberedByParts

LEMMA NoObjectNoChunks ==
    ASSUME NEW text, SliceJsonObject(text) = Absent
    PROVE  JsonChunks(text) = <<>>
<1> DEFINE object == SliceJsonObject(text)
           actions == IF object = Absent THEN <<>> ELSE object.actions
           named == {i \in 1..Len(actions) : actions[i].action \in DOMAIN Alias}
           known == Filtered(actions, named)
           chunk == [i \in 1..Len(known) |->
                        ChunkOf(i - 1, Alias[known[i].action], PositiveInt(known[i].repeat),
                                known[i].score)]
<1>1. JsonChunks(text) = [i \in 1..Len(known) |-> chunk[i]]
  BY DEF JsonChunks
<1>2. actions = <<>>
  OBVIOUS
<1> HIDE DEF actions
<1>3. actions \in Seq(Raw) /\ Len(actions) = 0
  BY <1>2, EmptySeq
<1> HIDE DEF named
<1>4. known = actions
  <2>1. 1..Len(actions) \subseteq named
    BY <1>3
  <2> QED
    BY <1>3, <2>1, FilteredAll
<1> HIDE DEF known, chunk
<1>5. Len(known) = 0
  BY <1>3, <1>4
<1> DEFINE chunks == JsonChunks(text)
           n == Len(known)
<1>6. chunks = [i \in 1..n |-> chunk[i]] /\ n \in Nat /\ \A i \in 1..n : IsNumbered(chunk[i], i)
  BY <1>1, <1>5
<1> HIDE DEF chunks, n
<1>7. Numbered(chunks) /\ Len(chunks) = n
  BY <1>6, NumberedByParts
<1>8. chunks \in Seq(Chunk)
  BY <1>7 DEF Numbered
<1>9. chunks = <<>>
  BY <1>5, <1>7, <1>8, EmptySeq DEF n
<1> QED
  BY <1>9 DEF chunks

(* The chunks of the phrases.                                               *)
LEMMA OfficialNames ==
    ASSUME NEW phrase
    PROVE  OfficialActionName(phrase) \in Actions \cup {""}
BY DEF OfficialActionName, Actions

LEMMA RepeatWithin ==
    ASSUME NEW phrase \in Phrase, NEW action
    PROVE  RepeatFromOfficialAction(phrase, action) \in 1..3
<1> DEFINE unit == IF action = "forward" THEN 250 ELSE 150
           repeat == RepeatFromOfficialAction(phrase, action)
<1>1. CASE phrase.number = Absent \/ action = "stop"
  BY <1>1 DEF RepeatFromOfficialAction
<1>2. CASE ~(phrase.number = Absent \/ action = "stop")
  <2>1. phrase.number \in Int /\ unit \in {150, 250}
    BY <1>2 DEF Phrase
  <2>2. repeat = IF RoundedQuotient(phrase.number, unit) < 1 THEN 1
                 ELSE IF RoundedQuotient(phrase.number, unit) > 3 THEN 3
                 ELSE RoundedQuotient(phrase.number, unit)
    BY <1>2 DEF RepeatFromOfficialAction
  <2> HIDE DEF unit, repeat
  <2>3. repeat \in 1..3
    BY <2>1, <2>2, ClosestOfThree
  <2> QED
    BY <2>3 DEF repeat
<1> QED
  BY <1>1, <1>2

LEMMA OfficialChunksNumbered ==
    ASSUME NEW text \in Text
    PROVE  /\ Numbered(OfficialChunks(text))
           /\ (\E i \in 1..Len(OfficialPhrases(text)) :
                    OfficialActionName(OfficialPhrases(text)[i]) # "") => OfficialChunks(text) # <<>>
<1> DEFINE phrases == OfficialPhrases(text)
           named == {i \in 1..Len(phrases) : OfficialActionName(phrases[i]) # ""}
           known == Filtered(phrases, named)
           name(i) == OfficialActionName(known[i])
           chunk == [i \in 1..Len(known) |->
                        ChunkOf(i - 1, name(i), RepeatFromOfficialAction(known[i], name(i)), "null")]
<1>1. phrases \in Seq(Phrase)
  BY DEF OfficialPhrases, Text
<1>2. OfficialChunks(text) = [i \in 1..Len(known) |-> chunk[i]]
  BY DEF OfficialChunks
<1> HIDE DEF phrases
<1>3. known \in Seq(Phrase) /\ \E e : Enumerates(e, known, phrases, named, Len(phrases))
  BY <1>1, FilteredEnumerates
<1>4. PICK e : Enumerates(e, known, phrases, named, Len(phrases))
  BY <1>3
<1> HIDE DEF known
<1>5. ASSUME NEW i \in 1..Len(known)
      PROVE  IsNumbered(chunk[i], i)
  <2>1. known[i] \in Phrase /\ name(i) # "" /\ i \in Nat \ {0}
    <3>1. e[i] \in named /\ known[i] = phrases[e[i]] /\ known[i] \in Phrase /\ i \in Nat \ {0}
      <4> HIDE DEF named
      <4> QED
        BY <1>3, <1>4 DEF Enumerates
    <3> QED
      BY <3>1
  <2>2. name(i) \in Actions
    BY <2>1, OfficialNames
  <2>3. RepeatFromOfficialAction(known[i], name(i)) \in 1..3
    BY <2>1, RepeatWithin
  <2>4. RepeatFromOfficialAction(known[i], name(i)) \in Nat \ {0}
    BY <2>3
  <2> HIDE DEF name
  <2> QED
    BY <2>1, <2>2, <2>4, ChunkIsNumbered
<1>6. Len(known) \in Nat
  BY <1>3, LenProperties, Zenon
<1> HIDE DEF chunk
<1>7. Numbered(OfficialChunks(text)) /\ Len(OfficialChunks(text)) = Len(known)
  BY <1>2, <1>5, <1>6, NumberedByParts
<1>8. ASSUME NEW i \in 1..Len(phrases), i \in named PROVE OfficialChunks(text) # <<>>
  <2>1. \E k \in 1..Len(known) : e[k] = i
    BY <1>4, <1>8 DEF Enumerates
  <2>2. Len(OfficialChunks(text)) # 0
    BY <1>6, <1>7, <2>1
  <2> QED
    BY <2>2
<1>9. \A i \in 1..Len(phrases) : i \in named <=> OfficialActionName(phrases[i]) # ""
  BY DEF named
<1> HIDE DEF named
<1> QED
  BY <1>7, <1>8, <1>9 DEF phrases

(* What the model wrote before its answer drives the robot only as the one  *)
(* JSON object of the text (_extract_action_chunks_from_json on the whole   *)
(* text, _extract_official_action_chunks_from_text on the answer).          *)
THEOREM AnswerOrJsonDrivesHolds == WellTyped => AnswerOrJsonDrives
<1> DEFINE text == message
           bare == [text EXCEPT !.before = <<>>, !.early = Absent]
<1> SUFFICES ASSUME WellTyped, kind = "text", text.answer # Absent,
                    \E i \in 1..Len(text.answer) : OfficialActionName(text.answer[i]) # ""
             PROVE  /\ text.early = Absent => ParseActionText(text) = ParseActionText(bare)
                    /\ text.early # Absent /\ text.late # Absent
                          => ParseActionText(text) = OfficialChunks(bare)
                    /\ ParseActionText(text) \in {JsonChunks(text), OfficialChunks(bare)}
  BY DEF AnswerOrJsonDrives, ReasoningDrivesOnlyAsJson
<1>1. text \in Text
  BY DEF WellTyped, Messages
<1>2. /\ bare.late = text.late /\ bare.answer = text.answer
      /\ text.early = Absent => bare.early = text.early
  BY <1>1 DEF Text
<1> HIDE DEF bare
<1>3. text.early = Absent => JsonChunks(bare) = JsonChunks(text)
  BY <1>2 DEF JsonChunks, SliceJsonObject
<1>7. text.early # Absent /\ text.late # Absent => JsonChunks(text) = <<>>
  <2> SUFFICES ASSUME text.early # Absent, text.late # Absent
               PROVE  JsonChunks(text) = <<>>
    OBVIOUS
  <2>1. SliceJsonObject(text) = Absent
    BY DEF SliceJsonObject
  <2> QED
    BY <2>1, NoObjectNoChunks
<1>4. OfficialPhrases(bare) = OfficialPhrases(text)
  BY <1>2 DEF OfficialPhrases
<1>5. OfficialChunks(bare) = OfficialChunks(text)
  BY <1>4 DEF OfficialChunks
<1>6. OfficialChunks(text) # <<>>
  <2>1. OfficialPhrases(text) = text.answer
    BY DEF OfficialPhrases
  <2> QED
    BY <1>1, <2>1, OfficialChunksNumbered
<1> QED
  BY <1>3, <1>5, <1>6, <1>7 DEF ParseActionText

(* How long each action has been repeated: the repeat a chunk would have if *)
(* it ended there, as chunk_atomic_actions counts it.                       *)
Counts(repeat, actions, merges) ==
    \A i \in 1..Len(actions) :
        repeat[i] = IF i > 1 /\ ShouldMerge(actions[i], actions[i - 1], repeat[i - 1], merges[i])
                    THEN repeat[i - 1] + 1 ELSE 1

LEMMA CountsWithin ==
    ASSUME NEW actions, Len(actions) \in Nat, NEW merges, NEW repeat,
           Counts(repeat, actions, merges)
    PROVE  \A i \in 1..Len(actions) : repeat[i] \in 1..3
<1> DEFINE bad == {i \in 1..Len(actions) : repeat[i] \notin 1..3}
<1>1. ASSUME NEW m \in bad PROVE m # 0 /\ m - 1 \in bad
  BY DEF Counts, ShouldMerge
<1>2. bad \subseteq Nat
  OBVIOUS
<1>3. bad = {}
  <2> HIDE DEF bad
  <2> QED
    BY <1>1, <1>2, Descent
<1> QED
  BY <1>3

Last(repeat, n) == {i \in 1..n : i = n \/ repeat[i + 1] = 1}
Ends(repeat, n) == Filtered([i \in 1..n |-> i], Last(repeat, n))

(* The chunks are where the counting starts again.                          *)
LEMMA ChunksByCounts ==
    ASSUME NEW actions \in Seq(Actions), NEW merges
    PROVE  \E repeat :
              /\ Counts(repeat, actions, merges)
              /\ ChunkAtomicActions(actions, merges) =
                    [k \in 1..Len(Ends(repeat, Len(actions))) |->
                        ChunkOf(k - 1, actions[Ends(repeat, Len(actions))[k]],
                                repeat[Ends(repeat, Len(actions))[k]], "null")]
<1> DEFINE n == Len(actions)
           V == 1..3
           Next(i, v) == IF i > 1 /\ ShouldMerge(actions[i], actions[i - 1], v, merges[i])
                         THEN v + 1 ELSE 1
           step == [i \in 1..n |-> [v \in V |-> Next(i, v)]]
           Body(f) == [i \in 1..Len(actions) |->
                          IF i > 1 /\ ShouldMerge(actions[i], actions[i - 1], f[i - 1], merges[i])
                          THEN f[i - 1] + 1 ELSE 1]
           repeat == CHOOSE f : f = Body(f)
<1>1. n \in Nat
  OBVIOUS
<1>2. step \in [1..n -> [V -> V]] /\ 1 \in V
  <2>1. \A i \in 1..n : \A v \in V : Next(i, v) \in V
    BY DEF ShouldMerge
  <2> HIDE DEF Next
  <2> QED
    BY <2>1
<1>3. PICK h : Stepping(h, V, 1, n, step)
  <2> HIDE DEF n, V, step
  <2> QED
    BY <1>1, <1>2, StepsExist
<1> DEFINE g == [i \in 1..n |-> h[i]]
<1>4. ASSUME NEW i \in 1..n PROVE h[i] = Next(i, h[i - 1])
  <2>1. step[i] = [v \in V |-> Next(i, v)]
    OBVIOUS
  <2> HIDE DEF step, Next, V, n
  <2>2. i - 1 \in 0..n
    BY <1>1
  <2>3. h[i] = step[i][h[i - 1]] /\ h[i - 1] \in V
    BY <1>3, <2>2 DEF Stepping
  <2> QED
    BY <2>1, <2>3
<1>5. g = Body(g)
  <2>1. ASSUME NEW i \in 1..n
        PROVE  g[i] = IF i > 1 /\ ShouldMerge(actions[i], actions[i - 1], g[i - 1], merges[i])
                      THEN g[i - 1] + 1 ELSE 1
    <3>1. CASE i > 1
      <4>1. g[i - 1] = h[i - 1] /\ g[i] = h[i]
        BY <1>1, <3>1
      <4> QED
        BY <1>4, <4>1
    <3>2. CASE ~(i > 1)
      BY <1>4, <3>2
    <3> QED
      BY <3>1, <3>2
  <2> HIDE DEF n
  <2>2. g = [i \in 1..n |-> g[i]]
    OBVIOUS
  <2> HIDE DEF g
  <2> QED
    BY <2>1, <2>2 DEF n
<1>6. repeat = Body(repeat)
  <2> HIDE DEF Body
  <2> QED
    BY <1>5
<1>7. ChunkAtomicActions(actions, merges) =
        [k \in 1..Len(Ends(repeat, Len(actions))) |->
            ChunkOf(k - 1, actions[Ends(repeat, Len(actions))[k]],
                    repeat[Ends(repeat, Len(actions))[k]], "null")]
  BY Zenon DEF ChunkAtomicActions, Ends, Last
<1> HIDE DEF repeat
<1>8. Counts(repeat, actions, merges)
  BY <1>6 DEF Counts
<1> QED
  BY <1>7, <1>8

(* The ends are positions, in order, and every one of them is there.        *)
LEMMA EndsEnumerate ==
    ASSUME NEW n \in Nat, NEW repeat
    PROVE  /\ Len(Ends(repeat, n)) \in Nat
           /\ \A k \in 1..Len(Ends(repeat, n)) : Ends(repeat, n)[k] \in 1..n
           /\ \A k \in 1..Len(Ends(repeat, n)) : Ends(repeat, n)[k] \in Last(repeat, n)
           /\ \A k, l \in 1..Len(Ends(repeat, n)) :
                    k < l => Ends(repeat, n)[k] < Ends(repeat, n)[l]
           /\ \A i \in Last(repeat, n) : \E k \in 1..Len(Ends(repeat, n)) : Ends(repeat, n)[k] = i
<1> DEFINE list == [i \in 1..n |-> i]
           last == Last(repeat, n)
           ends == Filtered(list, last)
<1>1. list \in Seq(1..n) /\ Len(list) = n
  <2>1. list \in [1..n -> 1..n]
    OBVIOUS
  <2> HIDE DEF list
  <2>2. list \in Seq(1..n)
    BY <2>1, SeqDef
  <2> QED
    BY <2>1, <2>2, LenProperties
<1>2. last \subseteq 1..n
  BY DEF Last
<1>3. \A i \in 1..n : list[i] = i
  OBVIOUS
<1>4. Ends(repeat, n) = ends
  BY DEF Ends
<1> HIDE DEF list, last
<1>5. ends \in Seq(1..n) /\ \E e : Enumerates(e, ends, list, last, n)
  BY <1>1, FilteredEnumerates
<1>6. PICK e : Enumerates(e, ends, list, last, n)
  BY <1>5
<1> HIDE DEF ends
<1>7. \A k \in 1..Len(ends) : ends[k] = e[k] /\ e[k] \in last
  BY <1>3, <1>6 DEF Enumerates
<1>8. \A k, l \in 1..Len(ends) : k < l => ends[k] < ends[l]
  BY <1>6, <1>7 DEF Enumerates
<1>9. \A i \in last : \E k \in 1..Len(ends) : ends[k] = i
  BY <1>2, <1>6, <1>7 DEF Enumerates
<1>10. Len(ends) \in Nat
  BY <1>5
<1> QED
  BY <1>2, <1>4, <1>7, <1>8, <1>9, <1>10 DEF last

LEMMA AtomicChunksNumbered ==
    ASSUME NEW actions \in Seq(Actions), NEW merges
    PROVE  /\ Numbered(ChunkAtomicActions(actions, merges))
           /\ actions # <<>> => ChunkAtomicActions(actions, merges) # <<>>
           /\ \A i \in 1..Len(ChunkAtomicActions(actions, merges)) :
                    ChunkAtomicActions(actions, merges)[i].score = "null"
<1>1. PICK repeat :
        /\ Counts(repeat, actions, merges)
        /\ ChunkAtomicActions(actions, merges) =
              [k \in 1..Len(Ends(repeat, Len(actions))) |->
                  ChunkOf(k - 1, actions[Ends(repeat, Len(actions))[k]],
                          repeat[Ends(repeat, Len(actions))[k]], "null")]
  BY ChunksByCounts
<1> DEFINE n == Len(actions)
           ends == Ends(repeat, n)
           chunk == [k \in 1..Len(ends) |->
                        ChunkOf(k - 1, actions[ends[k]], repeat[ends[k]], "null")]
           chunks == ChunkAtomicActions(actions, merges)
<1>2. n \in Nat
  OBVIOUS
<1>3. \A i \in 1..n : repeat[i] \in 1..3 /\ actions[i] \in Actions
  BY <1>1, <1>2, CountsWithin
<1>4. chunks = [k \in 1..Len(ends) |-> chunk[k]]
  BY <1>1
<1> HIDE DEF n, ends, chunks
<1>5. \A i \in Last(repeat, n) : \E k \in 1..Len(ends) : ends[k] = i
  BY <1>2, EndsEnumerate DEF ends
<1>6. Len(ends) \in Nat /\ \A k \in 1..Len(ends) : ends[k] \in 1..n
  BY <1>2, EndsEnumerate DEF ends
<1>7. ASSUME NEW k \in 1..Len(ends) PROVE IsNumbered(chunk[k], k) /\ chunk[k].score = "null"
  <2>1. chunk[k] = ChunkOf(k - 1, actions[ends[k]], repeat[ends[k]], "null")
    OBVIOUS
  <2>2. actions[ends[k]] \in Actions /\ repeat[ends[k]] \in 1..3
    BY <1>3, <1>6
  <2>3. repeat[ends[k]] \in Nat \ {0} /\ k \in Nat \ {0}
    BY <2>2
  <2> HIDE DEF chunk
  <2>4. IsNumbered(ChunkOf(k - 1, actions[ends[k]], repeat[ends[k]], "null"), k)
    BY <2>2, <2>3, ChunkIsNumbered
  <2>5. ChunkOf(k - 1, actions[ends[k]], repeat[ends[k]], "null").score = "null"
    BY DEF ChunkOf
  <2> QED
    BY <2>1, <2>4, <2>5
<1> HIDE DEF chunk
<1>8. Numbered(chunks) /\ Len(chunks) = Len(ends)
  <2>1. \A k \in 1..Len(ends) : IsNumbered(chunk[k], k)
    BY <1>7
  <2>2. Len(ends) \in Nat
    BY <1>6
  <2> QED
    BY <1>4, <2>1, <2>2, NumberedByParts
<1>9. ASSUME actions # <<>> PROVE chunks # <<>>
  <2>1. n \in 1..n
    BY <1>2, <1>9 DEF n
  <2>2. n \in Last(repeat, n)
    BY <2>1 DEF Last
  <2>3. Len(ends) # 0
    BY <1>5, <1>6, <2>2
  <2> QED
    BY <1>8, <2>3
<1> QED
  BY <1>4, <1>7, <1>8, <1>9 DEF chunks

(* The actions named anywhere in a text.                                    *)
LEMMA PlainActionsAreActions ==
    ASSUME NEW text \in Text
    PROVE  PlainActions(text) \in Seq(Actions)
<1> DEFINE phrases == text.before \o (IF text.answer = Absent THEN <<>> ELSE text.answer)
           lists == [i \in 1..Len(phrases) |-> phrases[i].words]
           words == Concatenated(lists)
           actions == [i \in 1..Len(words) |-> Alias[words[i]]]
           kept == {i \in 1..Len(words) : \A j \in 1..(i - 1) : actions[j] # actions[i]}
<1>1. PlainActions(text) = Filtered(actions, kept)
  BY Zenon DEF PlainActions
<1>2. phrases \in Seq(Phrase)
  BY ConcatProperties DEF Text
<1> HIDE DEF phrases
<1>3. /\ Len(phrases) \in Nat /\ Len(lists) = Len(phrases)
      /\ \A i \in 1..Len(phrases) : lists[i] \in Seq(Words)
  <2>0. \A i \in 1..Len(phrases) : phrases[i] \in Phrase
    BY <1>2
  <2>1. lists \in [1..Len(phrases) -> Seq(Words)] /\ Len(phrases) \in Nat
    BY <1>2, <2>0 DEF Phrase
  <2> HIDE DEF lists
  <2>2. lists \in Seq(Seq(Words))
    BY <2>1, SeqDef
  <2>3. Len(lists) = Len(phrases)
    BY <2>1, <2>2, LenProperties
  <2> QED
    BY <2>1, <2>3
<1> HIDE DEF lists
<1>4. words \in Seq(Words)
  BY <1>3, ConcatenatedIsList
<1> HIDE DEF words
<1>5. \A word \in Words : word \in DOMAIN Alias
  BY DEF Words, Alias
<1>6. actions \in Seq(Actions)
  <2>1. actions \in [1..Len(words) -> Actions] /\ Len(words) \in Nat
    BY <1>4, <1>5, AliasIsAction
  <2> HIDE DEF actions
  <2> QED
    BY <2>1, SeqDef
<1> HIDE DEF actions, kept
<1> QED
  BY <1>1, <1>6, FilteredEnumerates

(* Whatever is written, the chunks are there and numbered.                  *)
LEMMA ParsedNumbered ==
    ASSUME NEW text \in Text, ~JsonRaises(text)
    PROVE  Numbered(ParseActionText(text)) /\ ParseActionText(text) # <<>>
<1> DEFINE plain == PlainActions(text)
           actions == IF plain = <<>> THEN <<"stop">> ELSE plain
           merges == [i \in 1..Len(actions) |-> TRUE]
<1>1. actions \in Seq(Actions) /\ actions # <<>>
  <2>1. plain \in Seq(Actions)
    BY PlainActionsAreActions
  <2>2. <<"stop">> \in Seq(Actions) /\ <<"stop">> # <<>>
    BY DEF Actions
  <2> HIDE DEF plain
  <2> QED
    BY <2>1, <2>2
<1>2. \/ ParseActionText(text) = JsonChunks(text) /\ JsonChunks(text) # <<>>
      \/ ParseActionText(text) = OfficialChunks(text) /\ OfficialChunks(text) # <<>>
      \/ ParseActionText(text) = ChunkAtomicActions(actions, merges)
  BY Zenon DEF ParseActionText
<1> HIDE DEF actions, merges
<1> QED
  BY <1>1, <1>2, JsonChunksNumbered, OfficialChunksNumbered, AtomicChunksNumbered

(* A response with such chunks passes validate_response.                    *)
LEMMA AnswerAccepted ==
    ASSUME NEW chunks, Numbered(chunks), \A i \in 1..Len(chunks) : chunks[i].score # "other",
           NEW backend \in Texts, NEW name \in Texts, NEW session \in Texts, NEW step \in Nat,
           NEW answer,
           answer = [broken |-> {}, version |-> ApiVersion, session |-> session, step |-> step,
                     command |-> "action_chunks", chunks |-> chunks, waypoints |-> <<>>,
                     stop |-> FALSE, backend |-> backend, time |-> "valid"]
    PROVE  ValidateResponse(Normalized(answer, name)) = Ok
<1> DEFINE r == Normalized(answer, name)
<1>1. /\ r.broken = {} /\ r.version = ApiVersion /\ r.session = session /\ r.step = step
      /\ r.command = "action_chunks" /\ r.chunks = chunks /\ r.waypoints = <<>>
      /\ r.stop = FALSE /\ r.backend \in {name, backend} /\ r.time = "valid"
  BY DEF Normalized
<1> HIDE DEF r
<1>2. Len(r.waypoints) = 0 /\ r.waypoints = <<>> /\ Len(r.chunks) \in Nat
  BY <1>1 DEF Numbered
<1>3. \A i \in 1..Len(r.chunks) : ValidateActionChunk(r.chunks[i]) = Ok
  <2>1. \A i \in 1..Len(chunks) :
            /\ chunks[i] # Mistyped /\ chunks[i].index \in Nat
            /\ chunks[i].action \in Actions /\ chunks[i].repeat \in Nat \ {0}
    BY MarkerAssumption DEF Numbered, IsNumbered
  <2> QED
    BY <1>1, <2>1 DEF ValidateActionChunk, Unless
<1>4. \A i \in 1..Len(r.waypoints) : ValidateWaypoint(r.waypoints[i]) = Ok
  BY <1>2
<1>5. OneRepresentation(r) /\ r.command \in Commands /\ r.backend \in Texts
  BY <1>1 DEF OneRepresentation, Commands
<1>6. Len(r.waypoints) <= MaxWaypoints
  BY <1>2, ProtocolAssumption
<1>7. Valid(r)
  BY <1>1, <1>3, <1>4, <1>5, <1>6 DEF Valid
<1>8. r.broken \subseteq ResponseParts
  BY <1>1
<1> QED
  BY <1>2, <1>7, <1>8, ValidateResponseAccepts DEF r

(* Whatever the model writes is an answer to the request the service        *)
(* accepts, with something to execute (parse_action_text, infer,            *)
(* normalize_response).                                                     *)
THEOREM EveryTextIsAnswerHolds ==
    ASSUME NEW text \in Text, NEW request, request.session \in Texts, request.step \in Nat,
           NEW modelId \in Texts
    PROVE  EveryTextIsAnswer(request, text, modelId)
<1> DEFINE r == Infer(request, text, modelId)
<1> SUFFICES ASSUME ~JsonRaises(text)
             PROVE  /\ r.chunks # <<>>
                    /\ \A i \in 1..Len(r.chunks) : r.chunks[i].index = i - 1
                    /\ (\A i \in 1..Len(r.chunks) : r.chunks[i].score # "other")
                          => ValidateResponse(Normalized(r, modelId)) = Ok
  BY DEF EveryTextIsAnswer
<1>1. Numbered(ParseActionText(text)) /\ ParseActionText(text) # <<>>
  BY ParsedNumbered
<1>2. r = [broken |-> {}, version |-> ApiVersion, session |-> request.session,
           step |-> request.step, command |-> "action_chunks", chunks |-> ParseActionText(text),
           waypoints |-> <<>>, stop |-> FALSE, backend |-> modelId, time |-> "valid"]
  BY DEF Infer
<1> HIDE DEF r
<1>3. r.chunks = ParseActionText(text)
  BY <1>2
<1> QED
  BY <1>1, <1>2, <1>3, AnswerAccepted DEF Numbered, IsNumbered

(* No text makes an answer the service refuses, nor does the mock backend.  *)
THEOREM TextsAreAnswersHolds == WellTyped => TextsAreAnswers
<1> SUFFICES ASSUME WellTyped PROVE TextsAreAnswers
  OBVIOUS
<1>1. Asked.session \in Texts /\ Asked.step \in Nat
  BY NameAssumption DEF Asked
<1>2. ASSUME kind = "text" PROVE EveryTextIsAnswer(Asked, message, "text")
  <2>1. message \in Text
    BY <1>2 DEF WellTyped, Messages
  <2> QED
    BY <1>1, <2>1, NameAssumption, EveryTextIsAnswerHolds
<1>3. ASSUME kind = "atomic"
      PROVE  ValidateResponse(Normalized(MockInfer(Asked, message.list), "text")) = Ok
  <2> DEFINE merges == [i \in 1..Len(message.list) |-> TRUE]
             chunks == ChunkAtomicActions(message.list, merges)
  <2>1. message.list \in Seq(Actions)
    BY <1>3 DEF WellTyped, Messages
  <2>2. MockInfer(Asked, message.list) =
          [broken |-> {}, version |-> ApiVersion, session |-> Asked.session,
           step |-> Asked.step, command |-> "action_chunks", chunks |-> chunks,
           waypoints |-> <<>>, stop |-> FALSE, backend |-> "text", time |-> "valid"]
    BY DEF MockInfer
  <2> HIDE DEF merges
  <2>3. Numbered(chunks) /\ \A i \in 1..Len(chunks) : chunks[i].score = "null"
    BY <2>1, AtomicChunksNumbered
  <2> HIDE DEF chunks
  <2> QED
    BY <1>1, <2>2, <2>3, NameAssumption, AnswerAccepted
<1> QED
  BY <1>2, <1>3 DEF TextsAreAnswers

-----------------------------------------------------------------------------
(* Commands.                                                                *)

(* The running totals of positive numbers grow, so that each place belongs  *)
(* to one of them.                                                          *)
Owner(total, n, p) == CHOOSE i \in 1..n : total[i - 1] < p /\ p <= total[i]

LEMMA TotalsGrow ==
    ASSUME NEW n \in Nat, NEW w \in [1..n -> Nat \ {0}], NEW total, SumsUp(total, 0, w, n)
    PROVE  /\ \A i, j \in 0..n : i <= j => total[i] <= total[j]
           /\ \A i \in 0..n : total[i] \in Nat
<1>1. /\ total[0] = 0 /\ \A i \in 0..n : total[i] \in Int
      /\ \A i \in 1..n : total[i] = total[i - 1] + w[i] /\ w[i] \in Nat \ {0}
  BY DEF SumsUp
<1> DEFINE bad == {j \in 0..n : \E i \in 0..j : total[i] > total[j]}
<1>2. ASSUME NEW m \in bad PROVE m # 0 /\ m - 1 \in bad
  <2>1. PICK i \in 0..m : total[i] > total[m]
    OBVIOUS
  <2>2. i \in 0..n /\ m \in 0..n /\ i <= m
    BY <2>1
  <2>3. i # m
    BY <1>1, <2>1, <2>2
  <2>4. m \in 1..n /\ m - 1 \in 0..n /\ i \in 0..(m - 1)
    BY <2>2, <2>3
  <2>5. total[i] > total[m - 1]
    BY <1>1, <2>1, <2>2, <2>4
  <2> QED
    BY <2>4, <2>5
<1>3. bad = {}
  <2>1. bad \subseteq Nat
    OBVIOUS
  <2> HIDE DEF bad
  <2> QED
    BY <1>2, <2>1, Descent
<1>4. ASSUME NEW i \in 0..n, NEW j \in 0..n, i <= j PROVE total[i] <= total[j]
  <2>1. i \in 0..j /\ total[i] \in Int /\ total[j] \in Int
    BY <1>1, <1>4
  <2>2. ~(total[i] > total[j])
    BY <1>3, <2>1
  <2> QED
    BY <2>1, <2>2
<1>5. ASSUME NEW i \in 0..n PROVE total[i] \in Nat
  <2>1. total[0] <= total[i]
    BY <1>4
  <2> QED
    BY <1>1, <2>1
<1> QED
  BY <1>4, <1>5

LEMMA OwnerFound ==
    ASSUME NEW n \in Nat, NEW w \in [1..n -> Nat \ {0}], NEW total, SumsUp(total, 0, w, n),
           NEW p \in 1..total[n]
    PROVE  LET i == Owner(total, n, p) IN i \in 1..n /\ total[i - 1] < p /\ p <= total[i]
<1> DEFINE Here(i) == total[i - 1] < p /\ p <= total[i]
           bad == {m \in 0..n : p <= total[m] /\ ~ \E i \in 1..m : Here(i)}
<1>1. \A i \in 0..n : total[i] \in Nat
  BY TotalsGrow
<1>2. total[0] = 0 /\ n \in 0..n /\ p \in Nat \ {0} /\ p <= total[n]
  BY <1>1 DEF SumsUp
<1>3. ASSUME NEW m \in bad PROVE m # 0 /\ m - 1 \in bad
  <2>1. m # 0
    BY <1>2
  <2>2. m \in 1..m /\ m - 1 \in 0..n /\ \A i \in 1..(m - 1) : i \in 1..m
    BY <2>1
  <2>3. p <= total[m - 1]
    BY <1>1, <1>2, <2>2
  <2> QED
    BY <2>1, <2>2, <2>3
<1>4. bad = {}
  <2>1. bad \subseteq Nat
    OBVIOUS
  <2> HIDE DEF bad
  <2> QED
    BY <1>3, <2>1, Descent
<1>5. \E i \in 1..n : Here(i)
  BY <1>2, <1>4
<1> QED
  BY <1>5 DEF Owner

LEMMA OwnerIsOne ==
    ASSUME NEW n \in Nat, NEW w \in [1..n -> Nat \ {0}], NEW total, SumsUp(total, 0, w, n),
           NEW i \in 1..n, NEW p \in Nat, total[i - 1] < p, p <= total[i]
    PROVE  Owner(total, n, p) = i
<1>1. /\ \A j, k \in 0..n : j <= k => total[j] <= total[k]
      /\ \A j \in 0..n : total[j] \in Nat
  BY TotalsGrow
<1>2. ASSUME NEW j \in 1..n, total[j - 1] < p, p <= total[j] PROVE j = i
  <2>1. j - 1 \in 0..n /\ j \in 0..n /\ i - 1 \in 0..n /\ i \in 0..n
    OBVIOUS
  <2>2. CASE j < i
    <3>1. total[j] <= total[i - 1]
      BY <1>1, <2>1, <2>2
    <3> QED
      BY <1>1, <1>2, <2>1, <3>1
  <2>3. CASE i < j
    <3>1. total[i] <= total[j - 1]
      BY <1>1, <2>1, <2>3
    <3> QED
      BY <1>1, <1>2, <2>1, <3>1
  <2> QED
    BY <2>2, <2>3
<1> QED
  BY <1>2 DEF Owner

(* The commands of a list of chunks, by where its chunks end.               *)
Lengths(chunks) == [i \in 1..Len(chunks) |-> C!Repeats(chunks[i])]

LEMMA RepeatsIsPositive ==
    ASSUME NEW chunk, chunk.repeat \in Int
    PROVE  C!Repeats(chunk) \in Nat \ {0} /\ (chunk.repeat >= 1 => C!Repeats(chunk) = chunk.repeat)
BY DEF C!Repeats, C!Larger, C!Less

LEMMA CommandsByTotals ==
    ASSUME NEW chunks, Len(chunks) \in Nat, \A i \in 1..Len(chunks) : chunks[i].repeat \in Int
    PROVE  /\ Lengths(chunks) \in [1..Len(chunks) -> Nat \ {0}]
           /\ \E total :
                /\ SumsUp(total, 0, Lengths(chunks), Len(chunks))
                /\ C!ResponseToVelocityCommands(chunks) =
                     [p \in 1..total[Len(chunks)] |->
                        C!ChunkCommand(chunks[Owner(total, Len(chunks), p)])]
<1> DEFINE n == Len(chunks)
           w == Lengths(chunks)
           Totals(f) == [i \in 0..Len(chunks) |->
                            IF i = 0 THEN 0 ELSE f[i - 1] + C!Repeats(chunks[i])]
           total == CHOOSE f : f = Totals(f)
<1>1. w \in [1..n -> Nat \ {0}] /\ w \in [1..n -> Int]
  BY RepeatsIsPositive DEF Lengths
<1>2. C!ResponseToVelocityCommands(chunks) =
        [p \in 1..total[n] |-> C!ChunkCommand(chunks[Owner(total, n, p)])]
  BY Zenon DEF C!ResponseToVelocityCommands, Owner
<1>3. ASSUME NEW f
      PROVE  Totals(f) = [i \in 0..n |-> IF i = 0 THEN 0 ELSE f[i - 1] + w[i]]
  <2>1. \A i \in 0..n : i = 0 \/ w[i] = C!Repeats(chunks[i])
    BY DEF Lengths
  <2> QED
    BY <2>1
<1>4. n \in Nat /\ 0 \in Int
  OBVIOUS
<1> HIDE DEF w, Totals
<1>5. \E f : f = Totals(f)
  <2>1. \E f : f = [i \in 0..n |-> IF i = 0 THEN 0 ELSE f[i - 1] + w[i]]
    BY <1>1, <1>4, SumsExist
  <2> QED
    BY <1>3, <2>1
<1>6. total = Totals(total)
  BY <1>5
<1> HIDE DEF total
<1>7. SumsUp(total, 0, w, n)
  BY <1>1, <1>3, <1>4, <1>6, SumsAreSums
<1> QED
  BY <1>1, <1>2, <1>7 DEF w

(* Each action belongs to the run of equal actions that ends at it.         *)
LEMMA RunsOfEqual ==
    ASSUME NEW actions, NEW n \in Nat, Len(actions) = n, NEW merges, NEW repeat,
           Counts(repeat, actions, merges), NEW i \in 1..n
    PROVE  /\ repeat[i] \in 1..3 /\ repeat[i] <= i
           /\ \A j \in (i - repeat[i] + 1)..i : actions[j] = actions[i]
           /\ \A j \in (i - repeat[i] + 1)..(i - 1) : j \notin Last(repeat, n)
           /\ i - repeat[i] # 0 => i - repeat[i] \in Last(repeat, n)
<1> DEFINE Run(m) == /\ repeat[m] <= m
                     /\ \A j \in (m - repeat[m] + 1)..m : actions[j] = actions[m]
                     /\ \A j \in (m - repeat[m] + 1)..(m - 1) : j \notin Last(repeat, n)
                     /\ m - repeat[m] # 0 => m - repeat[m] \in Last(repeat, n)
           bad == {m \in 1..n : ~Run(m)}
<1>1. \A m \in 1..n : repeat[m] \in 1..3
  BY CountsWithin
<1>2. ASSUME NEW m \in bad PROVE m # 0 /\ m - 1 \in bad
  <2>1. m \in 1..n /\ repeat[m] \in 1..3
    BY <1>1
  <2>2. CASE repeat[m] = 1
    <3>1. m - 1 # 0 => m - 1 \in 1..n /\ (m - 1) + 1 = m
      BY <2>1
    <3>2. m - 1 # 0 => m - 1 \in Last(repeat, n)
      BY <2>2, <3>1 DEF Last
    <3>3. \A j \in (m - repeat[m] + 1)..m : j = m
      BY <2>1, <2>2
    <3>4. Run(m)
      BY <2>1, <2>2, <3>2, <3>3
    <3> QED
      BY <3>4
  <2>3. CASE repeat[m] # 1
    <3>1. /\ m > 1 /\ actions[m] = actions[m - 1] /\ repeat[m] = repeat[m - 1] + 1
      BY <2>1, <2>3 DEF Counts, ShouldMerge
    <3>2. m - 1 \in 1..n /\ repeat[m - 1] \in 1..3
      BY <1>1, <2>1, <3>1
    <3>3. m - repeat[m] = (m - 1) - repeat[m - 1]
      BY <2>1, <3>1, <3>2
    <3>4. m - 1 \notin Last(repeat, n)
      <4>1. m - 1 # n /\ (m - 1) + 1 = m
        BY <2>1
      <4> QED
        BY <2>3, <4>1 DEF Last
    <3>5. ASSUME Run(m - 1) PROVE Run(m)
      <4> DEFINE first == m - repeat[m] + 1
      <4>1. first \in Int /\ first = (m - 1) - repeat[m - 1] + 1
        BY <2>1, <3>2, <3>3
      <4>2. repeat[m] <= m
        BY <2>1, <3>1, <3>2, <3>5
      <4>3. \A j \in first..m : j = m \/ j \in first..(m - 1)
        BY <2>1, <4>1
      <4>4. \A j \in first..(m - 1) : j = m - 1 \/ j \in first..((m - 1) - 1)
        BY <2>1, <4>1
      <4>5. \A j \in first..m : actions[j] = actions[m]
        <5> HIDE DEF first
        <5> QED
          BY <3>1, <3>5, <4>1, <4>3
      <4>6. \A j \in first..(m - 1) : j \notin Last(repeat, n)
        <5> HIDE DEF first
        <5> QED
          BY <3>4, <3>5, <4>1, <4>4
      <4> QED
        BY <3>3, <3>5, <4>2, <4>5, <4>6
    <3> QED
      BY <3>1, <3>2, <3>5
  <2> QED
    BY <2>2, <2>3
<1>3. bad = {}
  <2>1. bad \subseteq Nat
    OBVIOUS
  <2> HIDE DEF bad
  <2> QED
    BY <1>2, <2>1, Descent
<1>4. Run(i)
  BY <1>3
<1> QED
  BY <1>1, <1>4

(* So that one run begins where the one before it has ended.                *)
LEMMA RunsFollow ==
    ASSUME NEW actions, NEW n \in Nat, Len(actions) = n, NEW merges, NEW repeat,
           Counts(repeat, actions, merges)
    PROVE  LET ends == Ends(repeat, n) IN
           /\ Len(ends) \in Nat /\ \A k \in 1..Len(ends) : ends[k] \in 1..n
           /\ \A k \in 1..Len(ends) :
                ends[k] - repeat[ends[k]] = IF k = 1 THEN 0 ELSE ends[k - 1]
           /\ n = IF Len(ends) = 0 THEN 0 ELSE ends[Len(ends)]
<1> DEFINE ends == Ends(repeat, n)
           last == Last(repeat, n)
           m == Len(ends)
<1>1. /\ m \in Nat
      /\ \A k \in 1..m : ends[k] \in 1..n /\ ends[k] \in last
      /\ \A k, l \in 1..m : k < l => ends[k] < ends[l]
      /\ \A i \in last : \E k \in 1..m : ends[k] = i
  BY EndsEnumerate
<1>2. n # 0 => n \in last
  BY DEF Last
<1> HIDE DEF ends, last, m
<1>3. ASSUME NEW k \in 1..m
      PROVE  ends[k] - repeat[ends[k]] = IF k = 1 THEN 0 ELSE ends[k - 1]
  <2> DEFINE e == ends[k]
             before == e - repeat[e]
  <2>1. e \in 1..n
    BY <1>1
  <2>2. /\ repeat[e] \in 1..3 /\ repeat[e] <= e
        /\ \A j \in (before + 1)..(e - 1) : j \notin last
        /\ before # 0 => before \in last
    BY <2>1, RunsOfEqual DEF last
  <2>3. before \in 0..(e - 1)
    BY <2>1, <2>2
  <2> HIDE DEF before
  <2>4. CASE k = 1
    <3>1. ASSUME before # 0 PROVE FALSE
      <4>1. PICK l \in 1..m : ends[l] = before
        BY <1>1, <2>2, <3>1
      <4>2. l = 1 \/ 1 < l
        BY <4>1
      <4> QED
        BY <1>1, <2>1, <2>3, <2>4, <4>1, <4>2
    <3> QED
      BY <2>4, <3>1 DEF before
  <2>5. CASE k # 1
    <3> DEFINE f == ends[k - 1]
    <3>1. k - 1 \in 1..m /\ f \in 1..n /\ f \in last /\ f < e
      BY <1>1, <2>5
    <3>2. f <= before
      BY <2>1, <2>2, <2>3, <3>1
    <3>3. before # 0
      BY <3>1, <3>2
    <3>4. PICK l \in 1..m : ends[l] = before
      BY <1>1, <2>2, <3>3
    <3>5. l < k
      <4>1. ~(k < l) /\ k # l
        BY <1>1, <2>1, <2>3, <3>4
      <4> QED
        BY <3>4, <4>1
    <3>6. l = k - 1 \/ l < k - 1
      BY <3>4, <3>5
    <3>7. ~(l < k - 1)
      BY <1>1, <2>1, <2>3, <3>1, <3>2, <3>4
    <3>8. before = f
      BY <3>4, <3>6, <3>7
    <3> QED
      BY <2>5, <3>8 DEF before
  <2> QED
    BY <2>4, <2>5
<1>4. n = IF m = 0 THEN 0 ELSE ends[m]
  <2>1. CASE m = 0
    BY <1>1, <1>2, <2>1
  <2>2. CASE m # 0
    <3>1. m \in 1..m /\ ends[m] \in 1..n
      BY <1>1, <2>2
    <3>2. PICK k \in 1..m : ends[k] = n
      BY <1>1, <1>2, <3>1
    <3>3. k = m \/ k < m
      BY <1>1, <3>2
    <3> QED
      BY <1>1, <2>2, <3>1, <3>2, <3>3
  <2> QED
    BY <2>1, <2>2
<1> QED
  BY <1>1, <1>3, <1>4 DEF ends, m

(* What the controller makes of a chunk depends on its action only.         *)
LEMMA CommandOfAction ==
    ASSUME NEW chunk, NEW other, chunk.action = other.action
    PROVE  C!ChunkCommand(chunk) = C!ChunkCommand(other)
BY DEF C!ChunkCommand, C!ActionChunkToVelocityCommand

(* Merging equal actions, wherever rng() allows it, changes nothing of what *)
(* the robot is told (chunk_atomic_actions, response_to_velocity_commands). *)
THEOREM MergingKeepsCommandsHolds == WellTyped => MergingKeepsCommands
<1> DEFINE actions == message.list
           merges == message.merges
           n == Len(actions)
           single == [i \in 1..n |-> [action |-> actions[i], repeat |-> 1]]
           chunks == ChunkAtomicActions(actions, merges)
<1> SUFFICES ASSUME WellTyped, kind = "atomic"
             PROVE  C!ResponseToVelocityCommands(chunks) =
                        [i \in 1..n |-> C!ChunkCommand([action |-> actions[i], repeat |-> 1])]
  BY DEF MergingKeepsCommands
<1>1. actions \in Seq(Actions) /\ n \in Nat
  BY DEF WellTyped, Messages
<1>2. PICK repeat :
        /\ Counts(repeat, actions, merges)
        /\ chunks = [k \in 1..Len(Ends(repeat, Len(actions))) |->
                        ChunkOf(k - 1, actions[Ends(repeat, Len(actions))[k]],
                                repeat[Ends(repeat, Len(actions))[k]], "null")]
  BY <1>1, ChunksByCounts
<1> DEFINE ends == Ends(repeat, n)
           m == Len(ends)
<1>3. chunks = [k \in 1..m |-> ChunkOf(k - 1, actions[ends[k]], repeat[ends[k]], "null")]
  BY <1>2
<1>4. Numbered(chunks)
  BY <1>1, AtomicChunksNumbered
<1> HIDE DEF actions, merges, n, chunks, ends
<1>5. /\ m \in Nat /\ \A k \in 1..m : ends[k] \in 1..n
      /\ \A k \in 1..m : ends[k] - repeat[ends[k]] = IF k = 1 THEN 0 ELSE ends[k - 1]
      /\ n = IF m = 0 THEN 0 ELSE ends[m]
  BY <1>1, <1>2, RunsFollow DEF ends, n
<1> HIDE DEF m
<1>6. Len(chunks) = m
  <2>1. DOMAIN chunks = 1..m
    BY <1>3
  <2>2. DOMAIN chunks = 1..Len(chunks) /\ Len(chunks) \in Nat
    BY <1>4, LenProperties DEF Numbered
  <2> QED
    BY <1>5, <2>1, <2>2
<1>7. \A k \in 1..m : /\ chunks[k].action = actions[ends[k]]
                     /\ chunks[k].repeat = repeat[ends[k]]
  BY <1>3 DEF ChunkOf
<1>8. \A i \in 1..n : /\ repeat[i] \in 1..3
                     /\ \A j \in (i - repeat[i] + 1)..i : actions[j] = actions[i]
  BY <1>1, <1>2, RunsOfEqual DEF n
<1>9. \A k \in 1..m : chunks[k].repeat \in Int /\ chunks[k].repeat >= 1
  BY <1>5, <1>7, <1>8
<1>10. PICK total :
        /\ SumsUp(total, 0, Lengths(chunks), m)
        /\ C!ResponseToVelocityCommands(chunks) =
             [p \in 1..total[m] |-> C!ChunkCommand(chunks[Owner(total, m, p)])]
  BY <1>5, <1>6, <1>9, CommandsByTotals
<1>11. Lengths(chunks) \in [1..m -> Nat \ {0}]
  BY <1>5, <1>6, <1>9, CommandsByTotals
<1>12. \A k \in 1..m : Lengths(chunks)[k] = repeat[ends[k]]
  BY <1>6, <1>7, <1>9, RepeatsIsPositive DEF Lengths
<1>13. \A k \in 0..m : total[k] = IF k = 0 THEN 0 ELSE ends[k]
  <2> DEFINE e == [k \in 0..m |-> IF k = 0 THEN 0 ELSE ends[k]]
  <2>1. total[0] = e[0]
    BY <1>5, <1>10 DEF SumsUp
  <2>2. ASSUME NEW k \in 1..m, total[k - 1] = e[k - 1] PROVE total[k] = e[k]
    <3>1. k \in 0..m /\ k - 1 \in 0..m /\ (k # 1 => k - 1 \in 1..m)
      BY <1>5
    <3>2. e[k] = ends[k] /\ e[k - 1] = (IF k = 1 THEN 0 ELSE ends[k - 1])
      BY <1>5, <3>1
    <3>3. total[k] = total[k - 1] + repeat[ends[k]]
      BY <1>10, <1>12 DEF SumsUp
    <3>4. ends[k] \in 1..n /\ repeat[ends[k]] \in 1..3
      BY <1>5, <1>8
    <3>5. ends[k] = e[k - 1] + repeat[ends[k]]
      BY <1>1, <1>5, <3>1, <3>2, <3>4
    <3> HIDE DEF e
    <3> QED
      BY <2>2, <3>2, <3>3, <3>5
  <2> HIDE DEF e
  <2>3. \A k \in 1..m : total[k - 1] = e[k - 1] => total[k] = e[k]
    BY <2>2
  <2>4. m \in Nat
    BY <1>5
  <2>5. \A k \in 0..m : total[k] = e[k]
    BY ONLY <2>1, <2>3, <2>4, SameUpTo
  <2> QED
    BY <2>5 DEF e
<1>14. total[m] = n
  BY <1>5, <1>13
<1>15. ASSUME NEW p \in 1..n
       PROVE  C!ChunkCommand(chunks[Owner(total, m, p)]) =
                C!ChunkCommand([action |-> actions[p], repeat |-> 1])
  <2> DEFINE k == Owner(total, m, p)
             e == ends[k]
  <2>1. k \in 1..m /\ total[k - 1] < p /\ p <= total[k]
    BY <1>5, <1>10, <1>11, <1>14, OwnerFound
  <2> HIDE DEF k
  <2>2. e \in 1..n /\ repeat[e] \in 1..3
    BY <1>5, <1>8, <2>1
  <2>3. p <= e /\ e - repeat[e] < p
    <3>1. k \in 0..m /\ k - 1 \in 0..m /\ k # 0 /\ (k = 1 <=> k - 1 = 0)
      BY <1>5, <2>1
    <3>2. total[k] = e /\ total[k - 1] = IF k = 1 THEN 0 ELSE ends[k - 1]
      BY <1>13, <3>1
    <3> QED
      BY <1>5, <2>1, <3>2
  <2>4. p \in (e - repeat[e] + 1)..e
    BY <1>1, <2>2, <2>3
  <2>5. actions[p] = actions[e]
    BY <1>8, <2>2, <2>4
  <2>6. chunks[k].action = [action |-> actions[p], repeat |-> 1].action
    BY <1>7, <2>1, <2>5
  <2> QED
    BY <2>6, CommandOfAction DEF k
<1> QED
  BY <1>10, <1>14, <1>15

(* The list of commands is what one extend per chunk makes.                 *)
LEMMA CommandsAreExtended ==
    ASSUME NEW chunks, Len(chunks) \in Nat, \A i \in 1..Len(chunks) : chunks[i].repeat \in Int
    PROVE  C!ResponseToVelocityCommands(chunks) = Extended(chunks)
<1> DEFINE n == Len(chunks)
           w == Lengths(chunks)
           S == {C!ChunkCommand(chunks[i]) : i \in 1..n}
           lists == [i \in 1..n |-> [k \in 1..C!Larger(1, chunks[i].repeat) |->
                                        C!ChunkCommand(chunks[i])]]
<1>1. PICK total :
        /\ SumsUp(total, 0, w, n)
        /\ C!ResponseToVelocityCommands(chunks) =
             [p \in 1..total[n] |-> C!ChunkCommand(chunks[Owner(total, n, p)])]
  BY CommandsByTotals
<1>2. w \in [1..n -> Nat \ {0}]
  BY CommandsByTotals
<1>3. \A i \in 1..n : w[i] = C!Larger(1, chunks[i].repeat)
  BY DEF Lengths, C!Repeats
<1>4. ASSUME NEW i \in 1..n
      PROVE  /\ lists[i] \in Seq(S) /\ Len(lists[i]) = w[i]
             /\ \A k \in 1..w[i] : lists[i][k] = C!ChunkCommand(chunks[i])
  <2> HIDE DEF w
  <2>1. lists[i] = [k \in 1..w[i] |-> C!ChunkCommand(chunks[i])] /\ w[i] \in Nat
    BY <1>2, <1>3
  <2>2. C!ChunkCommand(chunks[i]) \in S
    OBVIOUS
  <2> HIDE DEF lists, S
  <2>3. lists[i] \in [1..w[i] -> S]
    BY <2>1, <2>2
  <2>4. lists[i] \in Seq(S)
    BY <2>1, <2>3, SeqDef
  <2>5. Len(lists[i]) = w[i]
    BY <2>1, <2>3, <2>4, LenProperties
  <2> QED
    BY <2>1, <2>4, <2>5
<1>5. lists \in [1..n -> Seq(S)]
  <2>1. lists = [i \in 1..n |-> lists[i]]
    OBVIOUS
  <2> HIDE DEF lists
  <2> QED
    BY <1>4, <2>1
<1>6. Len(lists) = n
  <2> HIDE DEF lists, S
  <2>1. lists \in Seq(Seq(S))
    BY <1>5, SeqDef
  <2> QED
    BY <1>5, <2>1, LenProperties
<1>7. Extended(chunks) = Concatenated(lists)
  BY DEF Extended
<1> DEFINE f == [m \in 0..n |-> [p \in 1..total[m] |-> C!ChunkCommand(chunks[Owner(total, n, p)])]]
<1> HIDE DEF lists, w
<1>8. PICK h : ConcatSteps(h, S, lists, n) /\ Concatenated(lists) = h[n]
  <2> HIDE DEF S
  <2> QED
    BY <1>4, <1>6, ConcatenatedBySteps
<1>9. /\ \A i, j \in 0..n : i <= j => total[i] <= total[j]
      /\ \A i \in 0..n : total[i] \in Nat
      /\ total[0] = 0 /\ \A i \in 1..n : total[i] = total[i - 1] + w[i]
  <2>1. n \in Nat
    OBVIOUS
  <2> HIDE DEF n
  <2> QED
    BY <1>1, <1>2, <2>1, TotalsGrow DEF SumsUp
<1>10. \A m \in 0..n : f[m] \in Seq(S) /\ Len(f[m]) = total[m]
  <2> TAKE m \in 0..n
  <2>1. \A p \in 1..total[m] : Owner(total, n, p) \in 1..n
    <3>1. ASSUME NEW p \in 1..total[m] PROVE p \in 1..total[n]
      <4>1. total[m] <= total[n] /\ total[m] \in Nat /\ total[n] \in Nat
        BY <1>9
      <4> QED
        BY <4>1
    <3>2. n \in Nat
      OBVIOUS
    <3> HIDE DEF n
    <3> QED
      BY <1>1, <1>2, <3>1, <3>2, OwnerFound
  <2>2. f[m] \in [1..total[m] -> S]
    BY <2>1
  <2> HIDE DEF f, S
  <2>3. f[m] \in Seq(S)
    BY <1>9, <2>2, SeqDef
  <2> QED
    BY <1>9, <2>2, <2>3, LenProperties
<1>11. ASSUME NEW i \in 1..n PROVE f[i] = f[i - 1] \o lists[i]
  <2>1. i \in 0..n /\ i - 1 \in 0..n
    OBVIOUS
  <2>2. /\ f[i] \in Seq(S) /\ f[i - 1] \in Seq(S) /\ lists[i] \in Seq(S)
        /\ Len(f[i]) = total[i] /\ Len(f[i - 1]) = total[i - 1] /\ Len(lists[i]) = w[i]
        /\ total[i] = total[i - 1] + w[i] /\ total[i] \in Nat /\ total[i - 1] \in Nat
        /\ w[i] \in Nat
    BY <1>2, <1>4, <1>9, <1>10, <2>1
  <2> DEFINE t == f[i - 1] \o lists[i]
  <2>3. /\ t \in Seq(S) /\ Len(t) = total[i]
        /\ \A p \in 1..total[i] :
              t[p] = IF p <= total[i - 1] THEN f[i - 1][p] ELSE lists[i][p - total[i - 1]]
    <3> DEFINE a == f[i - 1]
               b == lists[i]
    <3>1. a \in Seq(S) /\ b \in Seq(S)
      BY <2>2
    <3>2. Len(a) = total[i - 1] /\ Len(a) + Len(b) = total[i]
      BY <2>2
    <3> HIDE DEF a, b, f, S
    <3>3. /\ a \o b \in Seq(S) /\ Len(a \o b) = Len(a) + Len(b)
          /\ \A p \in 1..Len(a) + Len(b) :
                (a \o b)[p] = IF p <= Len(a) THEN a[p] ELSE b[p - Len(a)]
      BY <3>1, ConcatProperties
    <3> QED
      BY <3>2, <3>3 DEF a, b
  <2>4. ASSUME NEW p \in 1..total[i] PROVE f[i][p] = t[p]
    <3>1. f[i][p] = C!ChunkCommand(chunks[Owner(total, n, p)])
      BY <2>1
    <3>2. CASE p <= total[i - 1]
      <4>1. p \in 1..total[i - 1]
        BY <2>2, <3>2
      <4>2. f[i - 1][p] = C!ChunkCommand(chunks[Owner(total, n, p)])
        BY <2>1, <4>1
      <4> HIDE DEF f, t
      <4> QED
        BY <2>3, <3>1, <3>2, <4>2
    <3>3. CASE ~(p <= total[i - 1])
      <4>1. p \in Nat /\ total[i - 1] < p /\ p <= total[i]
        BY <2>2, <3>3
      <4>2. Owner(total, n, p) = i
        <5>1. n \in Nat
          OBVIOUS
        <5>2. SumsUp(total, 0, w, n)
          BY <1>1
        <5> HIDE DEF n
        <5> QED
          BY ONLY <1>2, <1>11, <4>1, <5>1, <5>2, OwnerIsOne
      <4>3. p - total[i - 1] \in 1..w[i]
        BY <2>2, <4>1
      <4> HIDE DEF f, t
      <4> QED
        BY <1>4, <2>3, <3>1, <3>3, <4>2, <4>3
    <3> QED
      BY <3>2, <3>3
  <2> HIDE DEF f, t, S
  <2>5. f[i] = t
    BY <2>2, <2>3, <2>4, SeqEqual
  <2> QED
    BY <2>5 DEF t
<1>12. f[0] = <<>>
  <2>1. f[0] \in Seq(S) /\ Len(f[0]) = 0
    BY <1>9, <1>10
  <2> HIDE DEF f, S
  <2> QED
    BY <2>1, EmptySeq
<1>13. f[n] = C!ResponseToVelocityCommands(chunks)
  BY <1>1
<1>14. h[0] = f[0] /\ \A i \in 1..n : h[i - 1] = f[i - 1] => h[i] = f[i]
  <2> HIDE DEF f, n, S
  <2> QED
    BY <1>8, <1>11, <1>12 DEF ConcatSteps
<1>15. \A i \in 0..n : h[i] = f[i]
  <2>1. n \in Nat
    OBVIOUS
  <2> HIDE DEF f, n
  <2> QED
    BY <1>14, <2>1, SameUpTo
<1> HIDE DEF f
<1> QED
  BY <1>7, <1>8, <1>13, <1>15

(* commands[0] is the first command of the list, and there is none exactly  *)
(* when the list is empty (response_to_velocity_commands, process_frame).   *)
THEOREM FirstCommandIsCommandsZeroHolds == WellTyped => FirstCommandIsCommandsZero
<1> DEFINE list == message.list
           commands == C!ResponseToVelocityCommands(list)
<1> SUFFICES ASSUME WellTyped, kind = "list"
             PROVE  /\ commands = Extended(list)
                    /\ C!FirstCommand(list) = IF commands = <<>> THEN None ELSE commands[1]
                    /\ C!ProcessFrame(list) = commands
                    /\ commands # <<>> =>
                         C!ProcessFrameAsTwist(list)[1] =
                            C!VelocityCommandToTwist2D(C!FirstCommand(list))
  BY DEF FirstCommandIsCommandsZero
<1>1. list \in C!Chunks
  BY DEF WellTyped, Messages
<1> DEFINE n == Len(list)
           w == Lengths(list)
<1>2. n \in Nat /\ \A i \in 1..n : list[i].repeat \in Int
  <2>1. list \in Seq([action : C!Actions, repeat : Int])
    BY <1>1 DEF C!Chunks
  <2> HIDE DEF list
  <2>2. \A i \in 1..n : list[i] \in [action : C!Actions, repeat : Int]
    BY <2>1, ElementOfSeq
  <2>3. n \in Nat
    BY <2>1, LenProperties
  <2> QED
    BY <2>2, <2>3
<1> HIDE DEF list
<1>3. commands = Extended(list)
  BY <1>2, CommandsAreExtended
<1>4. PICK total :
        /\ SumsUp(total, 0, w, n)
        /\ commands = [p \in 1..total[n] |-> C!ChunkCommand(list[Owner(total, n, p)])]
  BY <1>2, CommandsByTotals
<1>5. w \in [1..n -> Nat \ {0}]
  BY <1>2, CommandsByTotals
<1> HIDE DEF commands, w
<1>6. n = 0 <=> list = <<>>
  <2>1. list \in Seq([action : C!Actions, repeat : Int])
    BY <1>1 DEF C!Chunks
  <2> QED
    BY <2>1, EmptySeq
<1>7. CASE n = 0
  <2>1. commands = <<>>
    <3>1. total[n] = 0
      BY <1>4, <1>7 DEF SumsUp
    <3> QED
      BY <1>4, <3>1
  <2> QED
    BY <1>3, <1>6, <1>7, <2>1 DEF C!FirstCommand, C!ProcessFrame, commands
<1>8. CASE n # 0
  <2>1. 1 \in 1..n /\ n \in 0..n /\ 1 \in 0..n
    BY <1>2, <1>8
  <2>2. total[0] = 0 /\ total[1] >= 1 /\ total[1] <= total[n] /\ total[1] \in Nat /\ total[n] \in Nat
    <3>1. /\ \A i, j \in 0..n : i <= j => total[i] <= total[j]
          /\ \A i \in 0..n : total[i] \in Nat
      BY <1>2, <1>4, <1>5, TotalsGrow
    <3>2. total[0] = 0 /\ total[1] = total[1 - 1] + w[1] /\ w[1] \in Nat \ {0}
      BY <1>4, <1>5, <2>1 DEF SumsUp
    <3> QED
      BY <1>2, <2>1, <3>1, <3>2
  <2>3. Owner(total, n, 1) = 1
    <3>1. SumsUp(total, 0, w, n)
      BY <1>4
    <3>2. total[1 - 1] < 1 /\ 1 <= total[1]
      BY <2>2
    <3> QED
      BY ONLY <1>2, <1>5, <2>1, <3>1, <3>2, 1 \in Nat, OwnerIsOne
  <2>4. 1 \in 1..total[n]
    BY <2>2
  <2>5. commands[1] = C!ChunkCommand(list[1]) /\ 1 \in DOMAIN commands
    BY <1>4, <2>3, <2>4
  <2>6. commands # <<>>
    BY <2>5
  <2>7. C!FirstCommand(list) = commands[1]
    BY <1>6, <1>8, <2>5 DEF C!FirstCommand
  <2>8. C!ProcessFrameAsTwist(list)[1] = C!VelocityCommandToTwist2D(commands[1])
    BY <2>5 DEF C!ProcessFrameAsTwist, commands
  <2> QED
    BY <1>3, <2>6, <2>7, <2>8 DEF C!ProcessFrame, commands
<1> QED
  BY <1>7, <1>8

-----------------------------------------------------------------------------
(* What the camera sees.                                                    *)

(* A frame reaches the model pixel by pixel, and only the data of a message *)
(* are encoded (_publish_frame, _encode_compressed_image).                  *)
THEOREM PicturesKeptHolds == WellTyped => PicturesKept
<1> SUFFICES ASSUME WellTyped PROVE PicturesKept
  OBVIOUS
<1>1. ASSUME kind = "size" PROVE PictureKept(message.height, message.width)
  <2>1. message.height \in Nat \ {0} /\ message.width \in Nat \ {0}
    BY <1>1 DEF WellTyped, Messages
  <2> QED
    BY <2>1, PictureKeptHolds
<1>2. ASSUME kind = "image" PROVE PixelsWithinData(message)
  BY <1>2, PixelsWithinDataHolds DEF WellTyped, Messages
<1> QED
  BY <1>1, <1>2 DEF PicturesKept

-----------------------------------------------------------------------------
(* Visual servo.                                                            *)

(* The command for a target that can be steered to: its turn has the sign   *)
(* opposite to the error's, and it does not drive ahead while it turns.     *)
LEMMA ClampKeepsSign ==
    ASSUME NEW value \in Int, NEW limit \in Nat
    PROVE  /\ C!Clamp(value, limit) \in Int
           /\ value >= 0 => C!Clamp(value, limit) >= 0
           /\ value <= 0 => C!Clamp(value, limit) <= 0
BY DEF C!Clamp, C!Larger, C!Smaller, C!Less

LEMMA SteerSteers ==
    ASSUME NEW error \in Int, TargetTurnGain \in Nat, TargetMaxAngularZ \in Nat
    PROVE  /\ C!Steer(error).angular \in Int
           /\ error >= 0 => C!Steer(error).angular <= 0
           /\ error <= 0 => C!Steer(error).angular >= 0
           /\ C!Steer(error).angular * error <= 0
           /\ C!Steer(error).linear # 0 => C!Abs(error) <= TargetCenterDeadband
           /\ C!Steer(error).angular # 0 => C!Abs(error) > TargetCenterDeadband
           /\ ~C!Steer(error).stop
<1> DEFINE turn == C!Clamp(TargetTurnGain * error, TargetMaxAngularZ)
<1>1. CASE C!Abs(error) <= TargetCenterDeadband
  <2>1. C!Steer(error) = C!Move(TargetForwardSpeed, 0)
    BY <1>1 DEF C!Steer
  <2> QED
    BY <1>1, <2>1 DEF C!Move
<1>2. CASE ~(C!Abs(error) <= TargetCenterDeadband)
  <2>1. C!Steer(error) = C!Move(0, -turn)
    BY <1>2 DEF C!Steer
  <2>2. /\ TargetTurnGain * error \in Int
        /\ error >= 0 => TargetTurnGain * error >= 0
        /\ error <= 0 => TargetTurnGain * error <= 0
    OBVIOUS
  <2>3. /\ turn \in Int /\ (error >= 0 => turn >= 0) /\ (error <= 0 => turn <= 0)
    BY <2>2, ClampKeepsSign
  <2> HIDE DEF turn
  <2>4. (-turn) * error <= 0
    BY <2>3
  <2>5. C!Abs(error) \in Int /\ TargetCenterDeadband \in Int
    BY ControlAssumptions DEF C!ControlAssumption, C!Abs, C!Larger, C!Less
  <2> QED
    BY <1>2, <2>1, <2>3, <2>4, <2>5 DEF C!Move
<1> QED
  BY <1>1, <1>2

(* Visual servo never turns away from the target, a NaN counting as the     *)
(* right edge of the image, and drives forward only within the deadband     *)
(* (target_metadata_to_velocity_command), when the gain and the limit of     *)
(* the turn are not negative, which the controller does not check.          *)
THEOREM SteersTowardsTargetHolds ==
    ASSUME TargetTurnGain \in Nat, TargetMaxAngularZ \in Nat
    PROVE  WellTyped => SteersTowardsTarget
<1> DEFINE command == C!TargetCommand(message)
           error == C!Larger(0, C!Smaller(1000, PlaceTaken(message.center))) - 500
<1> SUFFICES ASSUME WellTyped, kind = "target"
             PROVE  /\ command.angular * error <= 0
                    /\ command.linear # 0 => C!Abs(error) <= TargetCenterDeadband
                    /\ command.angular # 0 => C!Abs(error) > TargetCenterDeadband
  BY DEF SteersTowardsTarget
<1>1. error \in Int
  BY DEF PlaceTaken, C!Larger, C!Smaller, C!Less
<1>2. message # None /\ message.center \in Int \cup {NaN, None}
  BY ControlAssumptions DEF WellTyped, Messages, C!SentinelAssumption, C!Target, C!Number
<1>3. command = C!StopCommand \/ command = C!Steer(error)
  <2> DEFINE taken == C!Larger(0, C!Smaller(1000, message.center)) - 500
  <2>1. command = C!StopCommand \/ (message.center # None /\ command = C!Steer(taken))
    <3> DEFINE halts == \/ ~message.visible
                        \/ message.center = None
                        \/ /\ message.confidence # None
                           /\ C!Less(message.confidence, TargetMinConfidence)
                        \/ message.area \in Int /\ message.area >= TargetStopArea
    <3>1. command = IF halts THEN C!StopCommand ELSE C!Steer(taken)
      BY <1>2 DEF C!TargetCommand
    <3>2. ~halts => message.center # None
      OBVIOUS
    <3> HIDE DEF halts, command, taken
    <3> QED
      BY <3>1, <3>2
  <2>2. ASSUME message.center # None PROVE taken = error
    <3>1. message.center \in Int \cup {NaN}
      BY <1>2, <2>2
    <3>2. C!Smaller(1000, message.center) = C!Smaller(1000, PlaceTaken(message.center))
      BY <3>1, TextAssumption DEF PlaceTaken, C!Smaller, C!Less
    <3> HIDE DEF command
    <3> QED
      BY <3>2
  <2> HIDE DEF command, taken, error
  <2> QED
    BY <2>1, <2>2
<1> HIDE DEF command, error
<1> QED
  BY <1>1, <1>3, SteerSteers DEF C!StopCommand

(* A place the text does not give, or that float() does not read, halts the *)
(* robot; it never turns away from one that float() reads, a NaN counting   *)
(* as the right edge (parse_target_metadata, then                           *)
(* target_metadata_to_velocity_command).                                    *)
THEOREM UnreadableTargetHaltsHolds ==
    ASSUME TargetTurnGain \in Nat, TargetMaxAngularZ \in Nat
    PROVE  WellTyped => UnreadableTargetHalts
<1> DEFINE text == [early |-> [actions |-> <<>>, target |-> message], late |-> Absent]
           seen == TargetMetadata(text, Absent)
           command == Sighted!TargetCommand(seen)
           place == PlaceTaken(message.center)
           error == Sighted!Larger(0, Sighted!Smaller(1000, place)) - 500
<1> SUFFICES ASSUME WellTyped, kind = "target_text"
             PROVE  /\ message.center \in {Absent, Mistyped} => command.stop
                    /\ ~command.stop => /\ message.visible
                                       /\ message.center \in Int \cup {NaN}
                                       /\ command.angular * (place - 500) <= 0
  BY DEF UnreadableTargetHalts
<1>1. /\ message \in TargetRecord /\ message # Absent
      /\ message.center \in Int \cup {Absent, Mistyped, NaN}
  BY TextAssumption DEF WellTyped, Messages, TargetRecord, Reading
<1>2. seen = [visible |-> message.visible, center |-> NumberOrNone(message.center),
              area |-> NumberOrNone(message.area),
              confidence |-> NumberOrNone(message.confidence)]
  <2>0. SliceJsonObject(text) = text.early /\ text.early # Absent /\ text.early.target = message
    <3>1. [actions |-> <<>>, target |-> message] \in JsonObject
      BY <1>1 DEF JsonObject
    <3> QED
      BY <3>1, TextAssumption DEF SliceJsonObject
  <2>1. ParseTargetMetadata(text) =
            [visible |-> message.visible, center |-> NumberOrNone(message.center),
             area |-> NumberOrNone(message.area), confidence |-> NumberOrNone(message.confidence)]
    <3> HIDE DEF text
    <3> QED
      BY <1>1, <2>0 DEF ParseTargetMetadata
  <2>2. ParseTargetMetadata(text) \in TargetRecord
    BY <1>1, <2>1 DEF NumberOrNone, TargetRecord, Reading
  <2>3. seen = ParseTargetMetadata(text)
    BY <2>2, TextAssumption DEF TargetMetadata
  <2> QED
    BY <2>1, <2>3
<1>3. seen # Absent /\ seen.visible = message.visible
      /\ seen.center = NumberOrNone(message.center)
  <2>1. seen \in TargetRecord
    BY <1>1, <1>2 DEF NumberOrNone, TargetRecord, Reading
  <2> QED
    BY <1>2, <2>1, TextAssumption
<1>4. /\ Absent \notin Int /\ Mistyped \notin Int
      /\ NaN \notin Int \cup {Absent, Mistyped}
  BY MarkerAssumption, TextAssumption
<1> HIDE DEF seen
<1>5. CASE message.center \in {Absent, Mistyped}
  <2>1. seen.center = Absent
    BY <1>3, <1>5 DEF NumberOrNone
  <2>2. command = Sighted!StopCommand
    BY <1>3, <2>1, Zenon DEF Sighted!TargetCommand
  <2> QED
    BY <2>2 DEF Sighted!StopCommand
<1>6. CASE message.center \in Int \cup {NaN}
  <2>1. seen.center = message.center
    BY <1>4, <1>6, <1>3 DEF NumberOrNone
  <2>2. \/ command = Sighted!StopCommand
        \/ command = Sighted!Steer(error) /\ message.visible
    <3>1. \/ command = Sighted!StopCommand
          \/ /\ command = Sighted!Steer(Sighted!Larger(0, Sighted!Smaller(1000, seen.center)) - 500)
             /\ seen.visible
      BY <1>3, Zenon DEF Sighted!TargetCommand
    <3>2. Sighted!Smaller(1000, message.center) = Sighted!Smaller(1000, place)
      BY <1>4, <1>6 DEF PlaceTaken, Sighted!Smaller, Sighted!Less
    <3> HIDE DEF command, place
    <3> QED
      BY <1>3, <2>1, <3>1, <3>2
  <2>3. /\ error \in Int /\ place \in Int
        /\ place > 500 => error >= 0
        /\ place < 500 => error <= 0
    BY <1>6 DEF PlaceTaken, Sighted!Larger, Sighted!Smaller, Sighted!Less
  <2> HIDE DEF command, error, place
  <2>4. Sighted!Steer(error) = C!Steer(error)
    BY DEF Sighted!Steer, C!Steer, Sighted!Move, C!Move, Sighted!Clamp, C!Clamp, Sighted!Abs, C!Abs,
           Sighted!Larger, C!Larger, Sighted!Smaller, C!Smaller, Sighted!Less, C!Less
  <2>5. ASSUME command = C!Steer(error)
        PROVE  command.angular * (place - 500) <= 0
    <3>1. /\ command.angular \in Int
          /\ error >= 0 => command.angular <= 0
          /\ error <= 0 => command.angular >= 0
      BY <2>3, <2>5, SteerSteers
    <3> QED
      BY <2>3, <3>1
  <2>6. Sighted!StopCommand.stop
    BY DEF Sighted!StopCommand
  <2> QED
    BY <1>4, <1>6, <2>2, <2>4, <2>5, <2>6
<1> QED
  BY <1>1, <1>5, <1>6

-----------------------------------------------------------------------------
(* The detector.                                                            *)

LEMMA ClampedWithin == ASSUME NEW value \in Int PROVE Clamped(value) \in 0..1000
BY DEF Clamped

LEMMA ScoreOf ==
    ASSUME NEW d \in Detection
    PROVE  /\ d.box \in BOOLEAN /\ SelectionScore(d) \in Int
           /\ d.box => SelectionScore(d) >= 0
           /\ ~d.box => SelectionScore(d) = -20000
<1>2. /\ d.box \in BOOLEAN /\ d.score \in Nat /\ d.center \in Int /\ d.area \in Nat
  BY DEF Detection
<1> DEFINE away == IF d.center < 500 THEN 500 - d.center ELSE d.center - 500
<1>3. 2 * away \in Int
  BY <1>2
<1>4. Clamped(2 * away) \in 0..1000
  BY <1>3, ClampedWithin
<1>5. d.box => SelectionScore(d) = 20 * (d.score + d.area) + 3 * (1000 - Clamped(2 * away))
  BY DEF SelectionScore
<1> HIDE DEF away
<1>6. ~d.box => SelectionScore(d) = -20000
  BY DEF SelectionScore
<1> QED
  BY <1>2, <1>4, <1>5, <1>6

(* There is a first among the largest of n numbers.                         *)
LEMMA FirstLargest ==
    ASSUME NEW n \in Nat \ {0}, NEW s \in [1..n -> Int]
    PROVE  \E i \in 1..n : \A j \in 1..n : s[j] < s[i] \/ (s[j] = s[i] /\ i <= j)
<1> DEFINE first(m) == \E i \in 1..m : \A j \in 1..m : s[j] < s[i] \/ (s[j] = s[i] /\ i <= j)
           bad == {m \in 1..n : ~first(m)}
<1>1. ASSUME NEW m \in bad PROVE m # 0 /\ m - 1 \in bad
  <2>1. m \in 1..n /\ m \in Nat
    OBVIOUS
  <2>2. CASE m = 1
    <3>1. first(m)
      BY <2>2
    <3> QED
      BY <3>1
  <2>3. ASSUME m # 1, first(m - 1) PROVE FALSE
    <3>1. PICK i \in 1..(m - 1) : \A j \in 1..(m - 1) : s[j] < s[i] \/ (s[j] = s[i] /\ i <= j)
      BY <2>3
    <3>2. /\ i \in 1..m /\ m \in 1..m /\ s[i] \in Int /\ s[m] \in Int
          /\ \A j \in 1..m : s[j] \in Int /\ (j = m \/ j \in 1..(m - 1))
      BY <2>1, <2>3, <3>1
    <3>3. CASE s[m] <= s[i]
      <4>1. \A j \in 1..m : s[j] < s[i] \/ (s[j] = s[i] /\ i <= j)
        BY <3>1, <3>2, <3>3
      <4>2. first(m)
        BY <3>2, <4>1
      <4> QED
        BY <4>2
    <3>4. CASE s[i] < s[m]
      <4>1. \A j \in 1..m : s[j] < s[m] \/ (s[j] = s[m] /\ m <= j)
        BY <3>1, <3>2, <3>4
      <4>2. first(m)
        BY <3>2, <4>1
      <4> QED
        BY <4>2
    <3> QED
      BY <3>2, <3>3, <3>4
  <2>4. m # 1 => m - 1 \in 1..n
    BY <2>1
  <2> QED
    BY <2>1, <2>2, <2>3, <2>4
<1>2. bad \subseteq Nat
  OBVIOUS
<1> HIDE DEF first, bad
<1>3. bad = {}
  BY <1>1, <1>2, Descent
<1>4. n \in 1..n /\ n \notin bad
  BY <1>3
<1>5. first(n)
  BY <1>4 DEF bad
<1> QED
  BY <1>5 DEF first

(* max takes a detection no other beats.                                    *)
LEMMA BestIsBest ==
    ASSUME NEW detections \in Seq(Detection), detections # <<>>
    PROVE  \E i \in 1..Len(detections) :
                /\ Best(detections) = detections[i]
                /\ \A j \in 1..Len(detections) :
                        SelectionScore(detections[j]) <= SelectionScore(detections[i])
<1> DEFINE n == Len(detections)
           s == [i \in 1..n |-> SelectionScore(detections[i])]
           First(i) == \A j \in 1..n :
                            \/ SelectionScore(detections[j]) < SelectionScore(detections[i])
                            \/ /\ SelectionScore(detections[j]) = SelectionScore(detections[i])
                               /\ i <= j
           best == CHOOSE i \in 1..n : First(i)
<1>1. \A i \in 1..n : SelectionScore(detections[i]) \in Int
  BY ScoreOf
<1>2. n \in Nat \ {0} /\ s \in [1..n -> Int]
  BY <1>1
<1>3. \E i \in 1..n : \A j \in 1..n : s[j] < s[i] \/ (s[j] = s[i] /\ i <= j)
  <2> HIDE DEF n, s
  <2> QED
    BY <1>2, FirstLargest
<1>4. \E i \in 1..n : First(i)
  BY <1>3
<1>5. best \in 1..n /\ First(best)
  BY <1>4
<1>6. Best(detections) = detections[best]
  BY DEF Best
<1> HIDE DEF best
<1>7. \A j \in 1..n : SelectionScore(detections[j]) <= SelectionScore(detections[best])
  BY <1>1, <1>5
<1> QED
  BY <1>5, <1>6, <1>7

(* A detection without a readable box never hides one that has it: it       *)
(* scores less than any (_detection_selection_score).                       *)
THEOREM ReadableBoxesHolds == WellTyped => ReadableBoxes
<1> DEFINE detections == message.list
           text == [early |-> Absent, late |-> Absent]
           target == TargetMetadata(text, detections)
<1> SUFFICES ASSUME WellTyped, kind = "detections"
             PROVE  /\ target.visible <=> \E i \in 1..Len(detections) : detections[i].box
                    /\ target.visible => target.center \in 0..1000
  BY DEF ReadableBoxes, ReadableBoxSeen
<1>1. detections \in Seq(Detection)
  BY DEF WellTyped, Messages
<1>2. detections # Absent
  BY <1>1, TextAssumption
<1>0. ParseTargetMetadata(text) = Absent
  <2>1. SliceJsonObject(text) = Absent
    BY TextAssumption DEF SliceJsonObject
  <2> QED
    BY <2>1 DEF ParseTargetMetadata
<1>3. target = DetectionToTargetMetadata(detections)
  BY <1>0, <1>2 DEF TargetMetadata
<1> HIDE DEF detections, target
<1>4. CASE detections = <<>>
  BY <1>3, <1>4 DEF DetectionToTargetMetadata, Unseen
<1>5. CASE detections # <<>>
  <2>1. PICK i \in 1..Len(detections) :
            /\ Best(detections) = detections[i]
            /\ \A j \in 1..Len(detections) :
                    SelectionScore(detections[j]) <= SelectionScore(detections[i])
    BY <1>1, <1>5, BestIsBest
  <2>2. \A j \in 1..Len(detections) :
            /\ detections[j] \in Detection /\ detections[j].box \in BOOLEAN
            /\ detections[j].box => SelectionScore(detections[j]) >= 0
            /\ ~detections[j].box => SelectionScore(detections[j]) = -20000
    BY <1>1, ScoreOf
  <2>3. detections[i].box <=> \E j \in 1..Len(detections) : detections[j].box
    <3>1. ASSUME NEW j \in 1..Len(detections), detections[j].box PROVE detections[i].box
      <4>1. 0 <= SelectionScore(detections[j])
        BY <2>2, <3>1
      <4>2. SelectionScore(detections[i]) \in Int /\ SelectionScore(detections[j]) \in Int
        BY <1>1, <2>1, ScoreOf
      <4>3. SelectionScore(detections[i]) # -20000
        BY <2>1, <4>1, <4>2
      <4> QED
        BY <2>1, <2>2, <4>3
    <3> QED
      BY <2>1, <3>1
  <2>4. Clamped(detections[i].center) \in 0..1000
    <3>1. detections[i].center \in Int
      BY <2>1, <2>2 DEF Detection
    <3> QED
      BY <3>1, ClampedWithin
  <2> QED
    BY <1>3, <1>5, <2>1, <2>2, <2>3, <2>4 DEF DetectionToTargetMetadata, Unseen
<1> QED
  BY <1>4, <1>5

-----------------------------------------------------------------------------
(* Logs of points.                                                          *)

(* A loop that is full after n points takes the first n that can be kept.   *)
First(kept, n, offset) ==
    [i \in 1..(IF n < Len(kept) THEN n ELSE Len(kept)) |-> Cloud!PointOf(kept[i], offset)]

LEMMA FirstProperties ==
    ASSUME NEW S, NEW kept \in Seq(S), NEW n \in Nat, NEW offset
    PROVE  LET points == {Cloud!PointOf(row, offset) : row \in S} IN
           /\ First(kept, n, offset) \in Seq(points)
           /\ Len(First(kept, n, offset)) = IF n < Len(kept) THEN n ELSE Len(kept)
<1> DEFINE points == {Cloud!PointOf(row, offset) : row \in S}
           len == IF n < Len(kept) THEN n ELSE Len(kept)
           first == First(kept, n, offset)
<1>1. len \in Nat /\ len <= Len(kept) /\ \A i \in 1..len : kept[i] \in S
  <2>1. Len(kept) \in Nat /\ \A i \in 1..Len(kept) : kept[i] \in S
    OBVIOUS
  <2> QED
    BY <2>1
<1>2. first = [i \in 1..len |-> Cloud!PointOf(kept[i], offset)]
  BY DEF First
<1>3. \A i \in 1..len : Cloud!PointOf(kept[i], offset) \in points
  BY <1>1
<1> HIDE DEF first, points, len
<1>4. first \in [1..len -> points]
  BY <1>2, <1>3
<1>5. first \in Seq(points)
  BY <1>1, <1>4, SeqDef
<1>6. Len(first) = len
  BY <1>1, <1>4, <1>5, LenProperties
<1> QED
  BY <1>5, <1>6 DEF first, points, len

(* One more row that is kept, and the loop is not full.                     *)
LEMMA FirstOfOneMore ==
    ASSUME NEW S, NEW kept \in Seq(S), NEW row \in S, NEW n \in Nat, NEW offset
    PROVE  First(Append(kept, row), n, offset) =
              IF Len(kept) < n
              THEN Append(First(kept, n, offset), Cloud!PointOf(row, offset))
              ELSE First(kept, n, offset)
<1> DEFINE more == Append(kept, row)
           L == Len(kept)
           points == {Cloud!PointOf(r, offset) : r \in S}
           point == Cloud!PointOf(row, offset)
           a == First(kept, n, offset)
           b == First(more, n, offset)
<1>1. /\ L \in Nat /\ more \in Seq(S) /\ Len(more) = L + 1
      /\ \A i \in 1..L : more[i] = kept[i]
      /\ more[L + 1] = row
  OBVIOUS
<1>2. /\ a \in Seq(points) /\ Len(a) = IF n < L THEN n ELSE L
      /\ \A i \in 1..(IF n < L THEN n ELSE L) : a[i] = Cloud!PointOf(kept[i], offset)
  BY FirstProperties DEF First
<1>3. /\ b \in Seq(points) /\ Len(b) = IF n < L + 1 THEN n ELSE L + 1
      /\ \A i \in 1..(IF n < L + 1 THEN n ELSE L + 1) : b[i] = Cloud!PointOf(more[i], offset)
  <2> HIDE DEF more, L
  <2> QED
    BY <1>1, FirstProperties DEF First
<1>4. point \in points
  OBVIOUS
<1> HIDE DEF more, L, points, point, a, b
<1>5. CASE L < n
  <2> DEFINE c == Append(a, point)
  <2>1. /\ c \in Seq(points) /\ Len(c) = L + 1
        /\ \A i \in 1..L : c[i] = a[i]
        /\ c[L + 1] = point
    BY <1>1, <1>2, <1>4, <1>5
  <2>2. Len(b) = L + 1 /\ \A i \in 1..(L + 1) : b[i] = Cloud!PointOf(more[i], offset)
    BY <1>1, <1>3, <1>5
  <2>3. \A i \in 1..L : a[i] = Cloud!PointOf(kept[i], offset)
    BY <1>1, <1>2, <1>5
  <2> HIDE DEF c
  <2>4. \A i \in 1..(L + 1) : b[i] = c[i]
    <3>1. \A i \in 1..L : b[i] = c[i]
      BY <1>1, <2>1, <2>2, <2>3
    <3>2. b[L + 1] = c[L + 1]
      BY <1>1, <2>1, <2>2 DEF point
    <3> QED
      BY <1>1, <3>1, <3>2
  <2>5. b = c
    BY <1>3, <2>1, <2>2, <2>4, SeqEqual
  <2> QED
    BY <1>5, <2>5 DEF b, c, a, more, point, L
<1>6. CASE ~(L < n)
  <2>1. Len(a) = n /\ Len(b) = n
    BY <1>1, <1>2, <1>3, <1>6
  <2>2. \A i \in 1..n : b[i] = a[i]
    BY <1>1, <1>2, <1>3, <1>6
  <2>3. a = b
    BY <1>2, <1>3, <2>1, <2>2, SeqEqual
  <2> QED
    BY <1>6, <2>3 DEF b, a, more, L
<1> QED
  BY <1>5, <1>6

LEMMA LoopTakesFirst ==
    ASSUME NEW rows \in Seq(Cloud!Row), NEW kept, NEW offset, NEW n \in Nat \ {0}, NEW full,
           \A i \in 1..Len(rows) : full[i] <=> i >= n
    PROVE  Cloud!Loop(rows, kept, offset, full) = First(Filtered(rows, kept), n, offset)
<1> DEFINE Body(f) == [i \in 0..Len(rows) |->
                          IF i = 0 THEN <<>>
                          ELSE IF /\ i \in kept
                                  /\ ~(f[i - 1] # <<>> /\ full[Len(f[i - 1])])
                               THEN Append(f[i - 1], Cloud!PointOf(rows[i], offset))
                               ELSE f[i - 1]]
           taken == CHOOSE f : f = Body(f)
           m == Len(rows)
<1>1. Cloud!Loop(rows, kept, offset, full) = taken[m]
  BY Zenon DEF Cloud!Loop
<1>2. m \in Nat
  OBVIOUS
<1>3. PICK h : FilterSteps(h, Cloud!Row, rows, kept) /\ Filtered(rows, kept) = h[m]
  BY FilteredBySteps
<1>4. /\ h \in [0..m -> Seq(Cloud!Row)] /\ h[0] = <<>>
      /\ \A i \in 1..m : h[i] = IF i \in kept THEN Append(h[i - 1], rows[i]) ELSE h[i - 1]
  BY <1>3 DEF FilterSteps
<1>5. \A i \in 1..m : rows[i] \in Cloud!Row /\ i - 1 \in 0..m /\ i \in 0..m
  BY <1>2
<1>6. \A i \in 0..m : Len(h[i]) \in 0..i
  <2> DEFINE bad == {i \in 0..m : Len(h[i]) \notin 0..i}
  <2>1. ASSUME NEW i \in bad PROVE i # 0 /\ i - 1 \in bad
    <3>1. i # 0
      BY <1>4
    <3>2. i \in 1..m /\ i - 1 \in 0..m
      BY <1>2, <3>1
    <3>3. h[i - 1] \in Seq(Cloud!Row) /\ rows[i] \in Cloud!Row
      BY <1>4, <1>5, <3>2
    <3>4. Len(h[i]) \in {Len(h[i - 1]), Len(h[i - 1]) + 1} /\ Len(h[i - 1]) \in Nat
      <4>1. Len(Append(h[i - 1], rows[i])) = Len(h[i - 1]) + 1 /\ Len(h[i - 1]) \in Nat
        BY <3>3
      <4>2. h[i] \in {Append(h[i - 1], rows[i]), h[i - 1]}
        BY <1>4, <3>2, Zenon
      <4> QED
        BY <4>1, <4>2
    <3> QED
      BY <3>1, <3>2, <3>4
  <2>2. bad \subseteq Nat
    BY <1>2
  <2> HIDE DEF bad
  <2>3. bad = {}
    BY <2>1, <2>2, Descent
  <2> QED
    BY <2>3 DEF bad
<1> DEFINE g == [i \in 0..m |-> First(h[i], n, offset)]
<1>7. ASSUME NEW i \in 1..m
      PROVE  g[i] = IF /\ i \in kept
                       /\ ~(g[i - 1] # <<>> /\ full[Len(g[i - 1])])
                    THEN Append(g[i - 1], Cloud!PointOf(rows[i], offset))
                    ELSE g[i - 1]
  <2> DEFINE before == h[i - 1]
             points == First(before, n, offset)
             L == Len(before)
  <2>1. g[i] = First(h[i], n, offset) /\ g[i - 1] = points
    BY <1>5
  <2>2. before \in Seq(Cloud!Row) /\ L \in 0..(i - 1) /\ rows[i] \in Cloud!Row
    BY <1>4, <1>5, <1>6
  <2>4. h[i] = IF i \in kept THEN Append(before, rows[i]) ELSE before
    BY <1>4
  <2> HIDE DEF g, before, points, L
  <2>5. CASE i \notin kept
    BY <2>1, <2>4, <2>5 DEF points
  <2>6. CASE i \in kept
    <3>1. First(h[i], n, offset) = IF L < n THEN Append(points, Cloud!PointOf(rows[i], offset))
                                  ELSE points
      <4>1. h[i] = Append(before, rows[i])
        BY <2>4, <2>6
      <4>2. before \in Seq(Cloud!Row) /\ rows[i] \in Cloud!Row /\ n \in Nat
        BY <2>2
      <4>3. First(Append(before, rows[i]), n, offset) =
                IF Len(before) < n
                THEN Append(First(before, n, offset), Cloud!PointOf(rows[i], offset))
                ELSE First(before, n, offset)
        BY <4>2, FirstOfOneMore, Zenon
      <4> QED
        BY <4>1, <4>3, Zenon DEF points, L
    <3>2. Len(points) = (IF n < L THEN n ELSE L) /\ (points = <<>> <=> Len(points) = 0)
      <4>1. /\ points \in Seq({Cloud!PointOf(row, offset) : row \in Cloud!Row})
            /\ Len(points) = IF n < L THEN n ELSE L
        BY <2>2, FirstProperties DEF points, L
      <4> QED
        BY <4>1, EmptySeq
    <3>3. L < n <=> ~(points # <<>> /\ full[Len(points)])
      <4>1. CASE L < n
        <5>1. Len(points) = L
          BY <2>2, <3>2, <4>1
        <5>2. CASE L = 0
          BY <3>2, <4>1, <5>1, <5>2
        <5>3. CASE L # 0
          <6>1. L \in 1..m /\ ~(L >= n)
            BY <1>2, <2>2, <4>1, <5>3
          <6> QED
            BY <4>1, <5>1, <6>1
        <5> QED
          BY <5>2, <5>3
      <4>2. CASE ~(L < n)
        <5>1. Len(points) = n /\ n \in 1..m
          BY <1>2, <2>2, <3>2, <4>2
        <5> QED
          BY <3>2, <4>2, <5>1
      <4> QED
        BY <4>1, <4>2
    <3> QED
      BY <2>1, <2>6, <3>1, <3>3
  <2> QED
    BY <2>5, <2>6
<1>8. g[0] = <<>>
  <2>1. Len(<<>>) = 0 /\ 0 \in 0..m /\ <<>> \in Seq(Cloud!Row)
    BY <1>2
  <2>2. /\ First(<<>>, n, offset) \in Seq({Cloud!PointOf(row, offset) : row \in Cloud!Row})
        /\ Len(First(<<>>, n, offset)) = 0
    <3>1. /\ First(<<>>, n, offset) \in Seq({Cloud!PointOf(row, offset) : row \in Cloud!Row})
          /\ Len(First(<<>>, n, offset)) = IF n < Len(<<>>) THEN n ELSE Len(<<>>)
      BY <2>1, FirstProperties
    <3>2. ~(n < Len(<<>>))
      BY <2>1
    <3> QED
      BY <2>1, <3>1, <3>2
  <2>3. First(<<>>, n, offset) = <<>>
    BY <2>2, EmptySeq
  <2> QED
    BY <1>4, <2>1, <2>3
<1>9. g = Body(g)
  <2>1. g = [i \in 0..m |-> g[i]]
    OBVIOUS
  <2> HIDE DEF g
  <2>2. \A i \in 0..m : i = 0 \/ i \in 1..m
    BY <1>2
  <2>3. \A i \in 0..m : g[i] = IF i = 0 THEN <<>>
            ELSE IF /\ i \in kept
                    /\ ~(g[i - 1] # <<>> /\ full[Len(g[i - 1])])
                 THEN Append(g[i - 1], Cloud!PointOf(rows[i], offset))
                 ELSE g[i - 1]
    BY <1>7, <1>8, <2>2, Zenon
  <2> QED
    BY <2>1, <2>3, Zenon
<1>10. taken = Body(taken)
  <2> HIDE DEF Body
  <2> QED
    BY <1>9
<1> HIDE DEF taken, g
<1>11. \A i \in 0..m : taken[i] = IF i = 0 THEN <<>>
            ELSE IF /\ i \in kept
                    /\ ~(taken[i - 1] # <<>> /\ full[Len(taken[i - 1])])
                 THEN Append(taken[i - 1], Cloud!PointOf(rows[i], offset))
                 ELSE taken[i - 1]
  BY <1>10
<1> HIDE DEF Body
<1>12. taken[0] = g[0] /\ \A i \in 1..m : taken[i - 1] = g[i - 1] => taken[i] = g[i]
  <2>1. taken[0] = g[0]
    BY <1>2, <1>8, <1>11
  <2>2. ASSUME NEW i \in 1..m, taken[i - 1] = g[i - 1] PROVE taken[i] = g[i]
    <3>1. i \in 0..m /\ i # 0
      BY <1>2
    <3>2. taken[i] = IF /\ i \in kept
                        /\ ~(taken[i - 1] # <<>> /\ full[Len(taken[i - 1])])
                     THEN Append(taken[i - 1], Cloud!PointOf(rows[i], offset))
                     ELSE taken[i - 1]
      BY <1>11, <3>1, Zenon
    <3> QED
      BY <1>7, <2>2, <3>2, Zenon
  <2> QED
    BY <2>1, <2>2
<1> HIDE DEF m
<1>13. \A i \in 0..m : taken[i] = g[i]
  BY ONLY <1>2, <1>12, SameUpTo
<1>14. taken[m] = g[m]
  BY <1>2, <1>13
<1>15. g[m] = First(h[m], n, offset)
  BY <1>2 DEF g
<1> QED
  BY <1>1, <1>3, <1>14, <1>15 DEF m

(* The player shows of a log what the converter writes, and starts whenever *)
(* there is something to show (_load_points, iter_points, write_pcd).       *)
THEOREM PlayerShowsTheFileHolds == WellTyped => PlayerShowsTheFile
<1> DEFINE rows == message.list
           limit == message.limit
           drop == message.drop
           offset == message.offset
           positions == {i \in 1..Len(rows) : Cloud!PlayerKeeps(rows[i], drop, offset)}
           kept == Filtered(rows, positions)
           shown == Cloud!LoadPoints(rows, limit, drop, offset)
           lines == Cloud!IterPoints(rows, limit, drop, offset)
<1> SUFFICES ASSUME WellTyped, kind = "cloud"
             PROVE  Cloud!ToolsAgree(rows, limit, drop, offset)
  BY DEF PlayerShowsTheFile
<1>1. rows \in Seq(Cloud!Row) /\ limit \in Int /\ Len(rows) \in Nat
  BY DEF WellTyped, Messages
<1> HIDE DEF rows, limit, drop, offset
<1>2. kept \in Seq(Cloud!Row) /\ Len(kept) <= Len(rows) /\ Len(kept) \in Nat
  <2>1. kept = Filtered(rows, positions)
    OBVIOUS
  <2> HIDE DEF kept, positions
  <2>2. kept \in Seq(Cloud!Row)
    BY <1>1, <2>1, FilteredEnumerates
  <2>3. PICK e : Enumerates(e, kept, rows, positions, Len(rows))
    BY <1>1, <2>1, FilteredEnumerates
  <2>4. Len(kept) <= Len(rows)
    <3>1. \A k \in 1..Len(kept) : e[k] \in 1..Len(rows)
      BY <2>3 DEF Enumerates
    <3>2. \A k, l \in 1..Len(kept) : k < l => e[k] < e[l]
      BY <2>3 DEF Enumerates
    <3> DEFINE bad == {k \in 1..Len(kept) : e[k] < k}
    <3>3. ASSUME NEW k \in bad PROVE k # 0 /\ k - 1 \in bad
      <4>1. k \in 1..Len(kept) /\ e[k] < k /\ e[k] \in 1..Len(rows)
        BY <3>1
      <4>2. k - 1 \in 1..Len(kept) /\ k - 1 < k
        BY <2>2, <4>1
      <4>3. e[k - 1] < e[k] /\ e[k - 1] \in 1..Len(rows)
        BY <3>1, <3>2, <4>1, <4>2
      <4> QED
        BY <1>1, <4>1, <4>2, <4>3
    <3>4. bad = {}
      <4>1. bad \subseteq Nat
        OBVIOUS
      <4> HIDE DEF bad
      <4> QED
        BY <3>3, <4>1, Descent
    <3>5. Len(kept) \in Nat
      BY <2>2
    <3>6. CASE Len(kept) # 0
      <4>1. Len(kept) \in 1..Len(kept)
        BY <3>5, <3>6
      <4>2. ~(e[Len(kept)] < Len(kept)) /\ e[Len(kept)] \in 1..Len(rows)
        BY <3>1, <3>4, <4>1
      <4> QED
        BY <1>1, <3>5, <4>2
    <3> QED
      BY <1>1, <3>6
  <2> QED
    BY <2>2, <2>4
<1> DEFINE n == IF limit > 0 THEN limit ELSE 1
<1>3. n \in Nat \ {0}
  BY <1>1
<1>4. shown = First(kept, n, offset)
  <2> DEFINE full == [i \in 1..Len(rows) |-> i >= limit]
  <2>1. ASSUME NEW i \in 1..Len(rows) PROVE full[i] <=> i >= n
    <3>1. full[i] = (i >= limit)
      BY Zenon
    <3>2. (i >= limit) <=> (i >= n)
      BY <1>1
    <3> QED
      BY <3>1, <3>2, Zenon
  <2>2. shown = Cloud!Loop(rows, positions, offset, full)
    BY DEF Cloud!LoadPoints
  <2> HIDE DEF full, n, shown, positions
  <2> QED
    BY <1>1, <1>3, <2>1, <2>2, LoopTakesFirst
<1>5. lines = IF limit > 0 THEN First(kept, n, offset) ELSE First(kept, Len(kept), offset)
  <2> DEFINE full == [i \in 1..Len(rows) |-> limit > 0 /\ i >= limit]
             all == Len(rows) + 1
  <2>1. lines = Cloud!Loop(rows, positions, offset, full)
    <3> DEFINE others == {i \in 1..Len(rows) : Cloud!ConverterKeeps(rows[i], drop, offset)}
    <3>1. \A row : Cloud!ConverterKeeps(row, drop, offset) <=> Cloud!PlayerKeeps(row, drop, offset)
      BY Zenon DEF Cloud!ConverterKeeps, Cloud!PlayerKeeps
    <3>2. others = positions
      BY <3>1, Zenon
    <3>3. lines = Cloud!Loop(rows, others, offset, full)
      BY DEF Cloud!IterPoints
    <3> HIDE DEF others, positions, lines, full
    <3> QED
      BY <3>2, <3>3
  <2> HIDE DEF positions
  <2>2. CASE limit > 0
    <3>1. \A i \in 1..Len(rows) : full[i] <=> i >= n
      BY <1>1, <2>2
    <3> HIDE DEF full, n, lines
    <3> QED
      BY <1>1, <1>3, <2>1, <2>2, <3>1, LoopTakesFirst
  <2>3. CASE ~(limit > 0)
    <3>1. (\A i \in 1..Len(rows) : full[i] <=> i >= all) /\ all \in Nat \ {0}
      <4>1. ASSUME NEW i \in 1..Len(rows) PROVE full[i] <=> i >= all
        <5>1. full[i] = (limit > 0 /\ i >= limit)
          BY Zenon
        <5>2. ~(i >= all)
          BY <1>1
        <5> QED
          BY <2>3, <5>1, <5>2, Zenon
      <4>2. all \in Nat \ {0}
        BY <1>1
      <4> QED
        BY <4>1, <4>2
    <3>2. First(kept, all, offset) = First(kept, Len(kept), offset)
      <4> HIDE DEF kept
      <4> QED
        BY <1>1, <1>2 DEF First
    <3> HIDE DEF full, lines, all
    <3>3. lines = First(kept, all, offset)
      BY <1>1, <2>1, <3>1, LoopTakesFirst
    <3> QED
      BY <2>3, <3>2, <3>3
  <2> QED
    BY <2>2, <2>3
<1>6. Cloud!Filtered(rows, {i \in 1..Len(rows) : Cloud!PlayerKeeps(rows[i], drop, offset)}) = kept
  BY DEF Cloud!Filtered, Filtered
<1>7. Cloud!PlayerStarts(rows, limit, drop, offset) <=> kept # <<>>
  <2> HIDE DEF kept, n
  <2>1. /\ shown \in Seq({Cloud!PointOf(row, offset) : row \in Cloud!Row})
        /\ Len(shown) = IF n < Len(kept) THEN n ELSE Len(kept)
    BY <1>2, <1>3, <1>4, FirstProperties
  <2>2. shown = <<>> <=> Len(shown) = 0
    BY <2>1, EmptySeq
  <2>3. kept = <<>> <=> Len(kept) = 0
    BY <1>2, EmptySeq
  <2> QED
    BY <1>2, <1>3, <2>1, <2>2, <2>3 DEF Cloud!PlayerStarts
<1>8. /\ Cloud!WritePcd(lines).lines = lines
      /\ Cloud!WritePcd(lines).width = Len(Cloud!WritePcd(lines).lines)
  BY DEF Cloud!WritePcd
<1>9. /\ shown = [i \in 1..(IF n < Len(kept) THEN n ELSE Len(kept)) |->
                    Cloud!PointOf(kept[i], offset)]
      /\ Cloud!WritePcd(lines).lines =
            (IF limit > 0 THEN shown
             ELSE [i \in 1..(IF Len(kept) < Len(kept) THEN Len(kept) ELSE Len(kept)) |->
                        Cloud!PointOf(kept[i], offset)])
  <2> HIDE DEF kept, shown, lines, n
  <2> QED
    BY <1>4, <1>5, <1>8 DEF First
<1> HIDE DEF shown, lines
<1> QED
  BY <1>6, <1>7, <1>8, <1>9, Zenon DEF Cloud!ToolsAgree, shown, lines
=============================================================================
