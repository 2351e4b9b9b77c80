----------------------------- MODULE ListProofs -----------------------------
(***************************************************************************)
(* Lemmas about lists.  The inductions are on sets of natural numbers,     *)
(* which are well founded, and so need no predicate as a parameter.        *)
(***************************************************************************)
EXTENDS Lists, SequenceTheorems, WellFoundedInduction, TLAPS

\* A set of natural numbers that is not empty has a least element.
LEMMA LeastElement ==
  ASSUME NEW T \in SUBSET Nat, T # {}
  PROVE  \E x \in T : \A y \in T : x <= y
<1> DEFINE R == OpToRel(<, Nat)
<1>1. IsWellFoundedOn(R, Nat)
  BY NatLessThanWellFounded
<1> HIDE DEF R
<1>2. PICK x \in T : \A y \in T : ~(<<y, x>> \in R)
  BY <1>1, WFMin
<1>3. \A y \in T : ~(y < x)
  BY <1>2 DEF R, OpToRel
<1> QED
  BY <1>3

\* Induction, with a set for the predicate.
LEMMA Induction ==
  ASSUME NEW P, 0 \in P, \A n \in Nat : n \in P => n + 1 \in P
  PROVE  Nat \subseteq P
<1> SUFFICES ASSUME Nat \ P # {} PROVE FALSE
  OBVIOUS
<1>1. PICK x \in Nat \ P : \A y \in Nat \ P : x <= y
  BY LeastElement
<1>2. x - 1 \in Nat /\ x - 1 \in P
  BY <1>1
<1> QED
  BY <1>1, <1>2

\* A function that is defined by recursion on 0..n exists, whatever its step.
Iterates(f, n, base, step) == f[0] = base /\ \A i \in 1..n : f[i] = step[i][f[i - 1]]

LEMMA Recursion ==
  ASSUME NEW S, NEW n \in Nat, NEW base \in S, NEW step,
         \A i \in 1..n : \A s \in S : step[i][s] \in S
  PROVE  \E f \in [0..n -> S] : Iterates(f, n, base, step)
<1> USE DEF Iterates
<1> DEFINE Good(m, f) == f[0] = base /\ \A i \in 1..m : f[i] = step[i][f[i - 1]]
           P == {m \in Nat : m <= n => \E f \in [0..m -> S] : Good(m, f)}
<1>1. 0 \in P
  <2>1. [i \in 0..0 |-> base] \in [0..0 -> S] /\ Good(0, [i \in 0..0 |-> base])
    OBVIOUS
  <2> QED
    BY <2>1
<1>2. ASSUME NEW m \in Nat, m \in P PROVE m + 1 \in P
  <2> SUFFICES ASSUME m + 1 <= n PROVE \E f \in [0..m + 1 -> S] : Good(m + 1, f)
    OBVIOUS
  <2>1. PICK f \in [0..m -> S] : Good(m, f)
    BY <1>2
  <2> DEFINE v == step[m + 1][f[m]]
             g == [i \in 0..m + 1 |-> IF i = m + 1 THEN v ELSE f[i]]
  <2>2. v \in S
    OBVIOUS
  <2>3. g[m + 1] = v /\ \A i \in 0..m : g[i] = f[i]
    OBVIOUS
  <2>4. g \in [0..m + 1 -> S]
    BY <2>2
  <2>5. Good(m + 1, g)
    <3> HIDE DEF g
    <3>1. g[0] = base
      BY <2>1, <2>3
    <3>2. ASSUME NEW i \in 1..m + 1, i = m + 1 PROVE g[i] = step[i][g[i - 1]]
      <4>1. g[m] = f[m] /\ i - 1 = m
        BY <2>3, <3>2
      <4> QED
        BY <2>3, <3>2, <4>1
    <3>3. ASSUME NEW i \in 1..m + 1, i # m + 1 PROVE g[i] = step[i][g[i - 1]]
      <4>1. i \in 1..m /\ i - 1 \in 0..m /\ i \in 0..m
        BY <3>3
      <4> QED
        BY <2>1, <2>3, <4>1
    <3> QED
      BY <3>1, <3>2, <3>3
  <2> QED
    BY <2>4, <2>5
<1> HIDE DEF P
<1>3. n \in P
  BY <1>1, <1>2, Induction
<1> QED
  BY <1>3 DEF P

-----------------------------------------------------------------------------
(* Pick.                                                                   *)

\* The steps of a selection, as they are defined.
Picks(f, list, S) ==
  /\ f[0] = <<>>
  /\ \A i \in 1..Len(list) :
       f[i] = IF list[i] \in S THEN Append(f[i - 1], list[i]) ELSE f[i - 1]

LEMMA PickSteps ==
  ASSUME NEW T, NEW list \in Seq(T), NEW S
  PROVE  \E f \in [0..Len(list) -> Seq(T)] :
           Picks(f, list, S) /\ Pick(list, S) = f[Len(list)]
<1> DEFINE n == Len(list)
           Step(f, i) == IF i = 0 THEN <<>>
                         ELSE IF list[i] \in S THEN Append(f[i - 1], list[i])
                         ELSE f[i - 1]
           step == [i \in 1..n |->
                      [s \in Seq(T) |-> IF list[i] \in S THEN Append(s, list[i]) ELSE s]]
           picked == CHOOSE f : f = [i \in 0..n |-> Step(f, i)]
<1>1. n \in Nat /\ \A i \in 1..n : list[i] \in T
  OBVIOUS
<1>2. step \in [1..n -> [Seq(T) -> Seq(T)]]
  BY <1>1
<1>3. \A i \in 1..n, s \in Seq(T) :
        step[i][s] = IF list[i] \in S THEN Append(s, list[i]) ELSE s
  OBVIOUS
<1>4. Pick(list, S) = picked[n]
  BY DEF Pick
<1> HIDE DEF step, n, picked
<1>5. PICK g \in [0..n -> Seq(T)] :
        g[0] = <<>> /\ \A i \in 1..n : g[i] = step[i][g[i - 1]]
  <2> DEFINE lists == Seq(T)
             none == <<>>
  <2>1. none \in lists
    OBVIOUS
  <2>2. n \in Nat /\ \A i \in 1..n : \A s \in lists : step[i][s] \in lists
    BY <1>1, <1>2
  <2> HIDE DEF lists, none
  <2>3. \E g \in [0..n -> lists] : Iterates(g, n, none, step)
    BY <2>1, <2>2, Recursion
  <2> QED
    BY <2>3 DEF lists, none, Iterates
<1>6. \A i \in 1..n : i - 1 \in 0..n /\ i \in 0..n /\ i # 0
  BY <1>1
<1>7. \A i \in 1..n : g[i] = IF list[i] \in S THEN Append(g[i - 1], list[i]) ELSE g[i - 1]
  BY <1>3, <1>5, <1>6
<1>8. g = [i \in 0..n |-> Step(g, i)]
  <2>1. ASSUME NEW i \in 0..n PROVE g[i] = Step(g, i)
    <3>1. CASE i = 0
      BY <1>5, <3>1
    <3>2. CASE i # 0
      <4>1. i \in 1..n
        BY <1>1, <3>2
      <4> QED
        BY <1>7, <3>2, <4>1
    <3> QED
      BY <3>1, <3>2
  <2> HIDE DEF Step
  <2> QED
    BY <2>1
<1>9. picked = [i \in 0..n |-> Step(picked, i)]
  BY <1>8 DEF picked
<1>10. \A i \in 0..n : picked[i] = Step(picked, i)
  <2> HIDE DEF Step
  <2> QED
    BY <1>9
<1>11. picked[0] = <<>>
  BY <1>1, <1>10
<1>12. \A i \in 1..n :
         picked[i] = IF list[i] \in S THEN Append(picked[i - 1], list[i]) ELSE picked[i - 1]
  BY <1>6, <1>10
<1>13. picked \in [0..n -> Seq(T)]
  <2> DEFINE P == {i \in Nat : i <= n => picked[i] \in Seq(T)}
  <2>1. 0 \in P
    <3>1. <<>> \in Seq(T)
      OBVIOUS
    <3> QED
      BY <1>11, <3>1
  <2>2. ASSUME NEW i \in Nat, i \in P PROVE i + 1 \in P
    <3> SUFFICES ASSUME i + 1 <= n PROVE picked[i + 1] \in Seq(T)
      OBVIOUS
    <3>1. picked[i] \in Seq(T) /\ i + 1 \in 1..n /\ (i + 1) - 1 = i
      BY <1>1, <2>2
    <3>2. list[i + 1] \in T /\ Append(picked[i], list[i + 1]) \in Seq(T)
      BY <1>1, <3>1
    <3> QED
      BY <1>12, <3>1, <3>2
  <2> HIDE DEF P
  <2>3. Nat \subseteq P
    BY <2>1, <2>2, Induction
  <2>4. \A i \in 0..n : picked[i] \in Seq(T)
    BY <1>1, <2>3 DEF P
  <2>5. picked = [i \in 0..n |-> picked[i]]
    BY <1>9
  <2> QED
    BY <2>4, <2>5
<1> QED
  BY <1>4, <1>11, <1>12, <1>13 DEF n, Picks

\* The equations of Pick: on the empty list and on a list with one more element.
LEMMA PickEmpty == ASSUME NEW S PROVE Pick(<<>>, S) = <<>>
<1> DEFINE none == <<>>
<1>1. none \in Seq({}) /\ Len(none) = 0
  OBVIOUS
<1> HIDE DEF none
<1>2. \E f \in [0..Len(none) -> Seq({})] : Picks(f, none, S) /\ Pick(none, S) = f[Len(none)]
  BY <1>1, PickSteps
<1> QED
  BY <1>1, <1>2 DEF Picks, none

LEMMA PickAppend ==
  ASSUME NEW T, NEW list \in Seq(T), NEW e \in T, NEW S
  PROVE  Pick(Append(list, e), S) =
           IF e \in S THEN Append(Pick(list, S), e) ELSE Pick(list, S)
<1> DEFINE n == Len(list)
           longer == Append(list, e)
<1>1. longer \in Seq(T) /\ Len(longer) = n + 1 /\ n \in Nat
  OBVIOUS
<1>2. longer[n + 1] = e /\ \A i \in 1..n : longer[i] = list[i]
  OBVIOUS
<1> HIDE DEF n, longer
<1>3. PICK f : Picks(f, list, S) /\ Pick(list, S) = f[n]
  BY PickSteps DEF n
<1>4. PICK g : Picks(g, longer, S) /\ Pick(longer, S) = g[n + 1]
  BY <1>1, PickSteps
<1> DEFINE P == {i \in Nat : i <= n => f[i] = g[i]}
<1> USE DEF Picks
<1>5. 0 \in P
  BY <1>3, <1>4
<1>6. ASSUME NEW i \in Nat, i \in P PROVE i + 1 \in P
  <2> SUFFICES ASSUME i + 1 <= n PROVE f[i + 1] = g[i + 1]
    OBVIOUS
  <2>1. i + 1 \in 1..n /\ i + 1 \in 1..n + 1 /\ (i + 1) - 1 = i /\ f[i] = g[i]
    BY <1>1, <1>6
  <2> QED
    BY <1>1, <1>2, <1>3, <1>4, <2>1 DEF n
<1> HIDE DEF P
<1>7. n \in P
  BY <1>1, <1>5, <1>6, Induction
<1>8. f[n] = g[n]
  BY <1>1, <1>7 DEF P
<1>9. n + 1 \in 1..n + 1 /\ (n + 1) - 1 = n
  BY <1>1
<1> QED
  BY <1>1, <1>2, <1>3, <1>4, <1>8, <1>9 DEF longer

\* Induction on lists: they are built from the empty one, element by element.
LEMMA ListInduction ==
  ASSUME NEW T, NEW P, <<>> \in P,
         \A s \in Seq(T), e \in T : s \in P => Append(s, e) \in P
  PROVE  Seq(T) \subseteq P
<1> DEFINE Q == {n \in Nat : \A s \in Seq(T) : Len(s) = n => s \in P}
<1>1. 0 \in Q
  OBVIOUS
<1>2. ASSUME NEW n \in Nat, n \in Q PROVE n + 1 \in Q
  <2> SUFFICES ASSUME NEW s \in Seq(T), Len(s) = n + 1 PROVE s \in P
    OBVIOUS
  <2> DEFINE front == SubSeq(s, 1, n)
  <2>1. front \in Seq(T) /\ Len(front) = n /\ s[n + 1] \in T
    OBVIOUS
  <2>2. front \in P
    BY <1>2, <2>1
  <2>3. s = Append(front, s[n + 1])
    OBVIOUS
  <2> HIDE DEF front
  <2> QED
    BY <2>1, <2>2, <2>3
<1> HIDE DEF Q
<1>3. Nat \subseteq Q
  BY <1>1, <1>2, Induction
<1> QED
  BY <1>3 DEF Q

\* What is picked: the elements of the list that are in S, and no other.
LEMMA ElemsEmpty == Elems(<<>>) = {}
BY DEF Elems

LEMMA ElemsAppend ==
  ASSUME NEW T, NEW s \in Seq(T), NEW e \in T
  PROVE  Elems(Append(s, e)) = Elems(s) \union {e}
<1>1. Len(Append(s, e)) = Len(s) + 1 /\ Len(s) \in Nat
  OBVIOUS
<1>2. Append(s, e)[Len(s) + 1] = e /\ \A i \in 1..Len(s) : Append(s, e)[i] = s[i]
  OBVIOUS
<1>3. \A i \in 1..Len(s) + 1 : i = Len(s) + 1 \/ i \in 1..Len(s)
  BY <1>1
<1>4. \A i \in 1..Len(s) : i \in 1..Len(s) + 1
  BY <1>1
<1>5. Len(s) + 1 \in 1..Len(s) + 1
  BY <1>1
<1> HIDE DEF Elems
<1>6. ASSUME NEW x \in Elems(Append(s, e)) PROVE x \in Elems(s) \union {e}
  <2>1. PICK i \in 1..Len(s) + 1 : x = Append(s, e)[i]
    BY <1>1, <1>6 DEF Elems
  <2> QED
    BY <1>2, <1>3, <2>1 DEF Elems
<1>7. ASSUME NEW x \in Elems(s) PROVE x \in Elems(Append(s, e))
  <2>1. PICK i \in 1..Len(s) : x = s[i]
    BY <1>7 DEF Elems
  <2> QED
    BY <1>1, <1>2, <1>4, <2>1 DEF Elems
<1>8. e \in Elems(Append(s, e))
  BY <1>1, <1>2, <1>5 DEF Elems
<1> QED
  BY <1>6, <1>7, <1>8

LEMMA PickType ==
  ASSUME NEW T, NEW list \in Seq(T), NEW S
  PROVE  /\ Pick(list, S) \in Seq(T)
         /\ Elems(Pick(list, S)) = Elems(list) \intersect S
<1> DEFINE P == {s \in Seq(T) : /\ Pick(s, S) \in Seq(T)
                                /\ Elems(Pick(s, S)) = Elems(s) \intersect S}
<1>1. <<>> \in P
  <2>1. <<>> \in Seq(T)
    OBVIOUS
  <2> QED
    BY <2>1, PickEmpty, ElemsEmpty
<1>2. ASSUME NEW s \in Seq(T), NEW e \in T, s \in P PROVE Append(s, e) \in P
  <2>1. Append(s, e) \in Seq(T) /\ Elems(Append(s, e)) = Elems(s) \union {e}
    BY ElemsAppend
  <2>2. Pick(s, S) \in Seq(T) /\ Elems(Pick(s, S)) = Elems(s) \intersect S
    BY <1>2
  <2>3. Elems(Append(Pick(s, S), e)) = Elems(Pick(s, S)) \union {e}
    BY <2>2, ElemsAppend
  <2>4. Append(Pick(s, S), e) \in Seq(T)
    BY <2>2
  <2>5. Pick(Append(s, e), S) = IF e \in S THEN Append(Pick(s, S), e) ELSE Pick(s, S)
    BY PickAppend
  <2> QED
    BY <2>1, <2>2, <2>3, <2>4, <2>5
<1> HIDE DEF P
<1>3. Seq(T) \subseteq P
  BY <1>1, <1>2, ListInduction
<1> QED
  BY <1>3 DEF P

-----------------------------------------------------------------------------
(* Concatenations, parts and images of lists.                              *)

LEMMA NoElems ==
  ASSUME NEW T, NEW s \in Seq(T), Elems(s) = {}
  PROVE  s = <<>>
<1>1. ASSUME Len(s) # 0 PROVE FALSE
  <2>1. 1 \in 1..Len(s)
    BY <1>1
  <2> QED
    BY <2>1 DEF Elems
<1> QED
  BY <1>1

LEMMA ElemsType ==
  ASSUME NEW T, NEW s \in Seq(T)
  PROVE  Elems(s) \subseteq T /\ s \in Seq(Elems(s))
BY DEF Elems

LEMMA ElemsConcat ==
  ASSUME NEW T, NEW a \in Seq(T), NEW b \in Seq(T)
  PROVE  a \o b \in Seq(T) /\ Elems(a \o b) = Elems(a) \union Elems(b)
<1>1. a \o b \in Seq(T) /\ Len(a \o b) = Len(a) + Len(b) /\ Len(a) \in Nat /\ Len(b) \in Nat
  OBVIOUS
<1>2. \A i \in 1..Len(a) : i \in 1..Len(a \o b) /\ (a \o b)[i] = a[i]
  BY <1>1
<1>3. \A i \in 1..Len(b) : Len(a) + i \in 1..Len(a \o b) /\ (a \o b)[Len(a) + i] = b[i]
  BY <1>1
<1>4. ASSUME NEW x \in Elems(a \o b) PROVE x \in Elems(a) \union Elems(b)
  <2>1. PICK i \in 1..Len(a \o b) : x = (a \o b)[i]
    BY DEF Elems
  <2>2. CASE i \in 1..Len(a)
    BY <1>2, <2>1, <2>2 DEF Elems
  <2>3. CASE i \notin 1..Len(a)
    <3>1. i - Len(a) \in 1..Len(b) /\ Len(a) + (i - Len(a)) = i
      BY <1>1, <2>1, <2>3
    <3> QED
      BY <1>3, <2>1, <3>1 DEF Elems
  <2> QED
    BY <2>2, <2>3
<1>5. ASSUME NEW x \in Elems(a) \union Elems(b) PROVE x \in Elems(a \o b)
  BY <1>2, <1>3 DEF Elems
<1> QED
  BY <1>1, <1>4, <1>5

\* A list is its beginning and its end.
LEMMA Split ==
  ASSUME NEW T, NEW s \in Seq(T), NEW n \in 0..Len(s)
  PROVE  /\ SubSeq(s, 1, n) \in Seq(T) /\ SubSeq(s, n + 1, Len(s)) \in Seq(T)
         /\ SubSeq(s, 1, n) \o SubSeq(s, n + 1, Len(s)) = s
         /\ Elems(SubSeq(s, 1, n)) \subseteq Elems(s)
         /\ Elems(SubSeq(s, n + 1, Len(s))) \subseteq Elems(s)
<1>1. SubSeq(s, 1, n) \in Seq(T) /\ SubSeq(s, n + 1, Len(s)) \in Seq(T)
  OBVIOUS
<1>2. SubSeq(s, 1, n) \o SubSeq(s, n + 1, Len(s)) = s
  <2>1. 1 \in 1..Len(s) + 1 /\ n \in 1 - 1..Len(s) /\ Len(s) \in n..Len(s)
    OBVIOUS
  <2> QED
    BY <2>1, ConcatAdjacentSubSeq, SubSeqFull
<1>3. Elems(s) = Elems(SubSeq(s, 1, n)) \union Elems(SubSeq(s, n + 1, Len(s)))
  BY <1>1, <1>2, ElemsConcat
<1> QED
  BY <1>1, <1>2, <1>3

LEMMA PickConcat ==
  ASSUME NEW T, NEW a \in Seq(T), NEW b \in Seq(T), NEW S
  PROVE  Pick(a \o b, S) = Pick(a, S) \o Pick(b, S)
<1> DEFINE P == {s \in Seq(T) : Pick(a \o s, S) = Pick(a, S) \o Pick(s, S)}
<1>1. <<>> \in P
  <2>1. a \o <<>> = a /\ <<>> \in Seq(T)
    OBVIOUS
  <2>2. Pick(a, S) \in Seq(T)
    BY PickType
  <2>3. Pick(a, S) \o <<>> = Pick(a, S)
    BY <2>2
  <2> QED
    BY <2>1, <2>3, PickEmpty
<1>2. ASSUME NEW s \in Seq(T), NEW e \in T, s \in P PROVE Append(s, e) \in P
  <2>1. a \o Append(s, e) = Append(a \o s, e) /\ a \o s \in Seq(T)
    OBVIOUS
  <2>2. Pick(Append(a \o s, e), S) = IF e \in S THEN Append(Pick(a \o s, S), e) ELSE Pick(a \o s, S)
    BY <2>1, PickAppend
  <2>3. Pick(Append(s, e), S) = IF e \in S THEN Append(Pick(s, S), e) ELSE Pick(s, S)
    BY PickAppend
  <2>4. Pick(a, S) \in Seq(T) /\ Pick(s, S) \in Seq(T)
    BY PickType
  <2>5. Append(Pick(a, S) \o Pick(s, S), e) = Pick(a, S) \o Append(Pick(s, S), e)
    <3> DEFINE x == Pick(a, S)
               y == Pick(s, S)
    <3>1. x \in Seq(T) /\ y \in Seq(T)
      BY <2>4
    <3> HIDE DEF x, y, P
    <3>2. Append(x \o y, e) = x \o Append(y, e)
      <4>1. x \o y \in Seq(T) /\ <<e>> \in Seq(T)
        BY <3>1
      <4>2. Append(x \o y, e) = (x \o y) \o <<e>> /\ Append(y, e) = y \o <<e>>
        BY <3>1, <4>1, AppendIsConcat
      <4>3. (x \o y) \o <<e>> = x \o (y \o <<e>>)
        BY <3>1, <4>1, ConcatAssociative
      <4> QED
        BY <4>2, <4>3, Zenon
    <3> QED
      BY <3>2 DEF x, y
  <2>6. Pick(a \o s, S) = Pick(a, S) \o Pick(s, S)
    BY <1>2
  <2>7. Pick(a \o Append(s, e), S) = Pick(a, S) \o Pick(Append(s, e), S)
    <3>1. CASE e \in S
      BY <2>1, <2>2, <2>3, <2>5, <2>6, <3>1
    <3>2. CASE e \notin S
      BY <2>1, <2>2, <2>3, <2>6, <3>2
    <3> QED
      BY <3>1, <3>2
  <2>8. Append(s, e) \in Seq(T)
    OBVIOUS
  <2> QED
    BY <2>7, <2>8
<1> HIDE DEF P
<1>3. Seq(T) \subseteq P
  BY <1>1, <1>2, ListInduction
<1> QED
  BY <1>3 DEF P

\* Concatenation with a name of its own, which the provers leave alone.
Cat(a, b) == a \o b

LEMMA CatType ==
  ASSUME NEW T, NEW a \in Seq(T), NEW b \in Seq(T)
  PROVE  Cat(a, b) \in Seq(T) /\ Elems(Cat(a, b)) = Elems(a) \union Elems(b)
BY ElemsConcat DEF Cat

LEMMA CatEmpty ==
  ASSUME NEW T, NEW a \in Seq(T)
  PROVE  Cat(a, <<>>) = a /\ Cat(<<>>, a) = a
BY ConcatEmptySeq DEF Cat

LEMMA CatAssociative ==
  ASSUME NEW T, NEW a \in Seq(T), NEW b \in Seq(T), NEW c \in Seq(T)
  PROVE  Cat(Cat(a, b), c) = Cat(a, Cat(b, c))
BY ConcatAssociative DEF Cat

LEMMA PickCat ==
  ASSUME NEW T, NEW a \in Seq(T), NEW b \in Seq(T), NEW S
  PROVE  Pick(Cat(a, b), S) = Cat(Pick(a, S), Pick(b, S))
BY PickConcat DEF Cat

LEMMA PickNone ==
  ASSUME NEW T, NEW s \in Seq(T), NEW S, Elems(s) \intersect S = {}
  PROVE  Pick(s, S) = <<>>
BY PickType, NoElems

\* What is picked depends on the elements of the list only.
LEMMA PickSame ==
  ASSUME NEW T, NEW list \in Seq(T), NEW S, NEW R,
         \A e \in Elems(list) : e \in S <=> e \in R
  PROVE  Pick(list, S) = Pick(list, R)
<1> DEFINE P == {s \in Seq(T) : (\A e \in Elems(s) : e \in S <=> e \in R)
                                  => Pick(s, S) = Pick(s, R)}
<1>1. <<>> \in P
  <2>1. <<>> \in Seq(T)
    OBVIOUS
  <2> QED
    BY <2>1, PickEmpty
<1>2. ASSUME NEW s \in Seq(T), NEW e \in T, s \in P PROVE Append(s, e) \in P
  <2> SUFFICES ASSUME \A x \in Elems(Append(s, e)) : x \in S <=> x \in R
               PROVE  Pick(Append(s, e), S) = Pick(Append(s, e), R)
    OBVIOUS
  <2>1. Elems(Append(s, e)) = Elems(s) \union {e}
    BY ElemsAppend
  <2>2. Pick(s, S) = Pick(s, R) /\ (e \in S <=> e \in R)
    BY <1>2, <2>1
  <2>3. Pick(Append(s, e), S) = IF e \in S THEN Append(Pick(s, S), e) ELSE Pick(s, S)
    BY PickAppend
  <2>4. Pick(Append(s, e), R) = IF e \in R THEN Append(Pick(s, R), e) ELSE Pick(s, R)
    BY PickAppend
  <2> QED
    BY <2>2, <2>3, <2>4
<1> HIDE DEF P
<1>3. list \in P
  BY <1>1, <1>2, ListInduction
<1> QED
  BY <1>3 DEF P

LEMMA PickAll ==
  ASSUME NEW T, NEW list \in Seq(T), NEW S, Elems(list) \subseteq S
  PROVE  Pick(list, S) = list
<1> DEFINE P == {s \in Seq(T) : Pick(s, T) = s}
<1>1. <<>> \in P
  <2>1. <<>> \in Seq(T)
    OBVIOUS
  <2> QED
    BY <2>1, PickEmpty
<1>2. ASSUME NEW s \in Seq(T), NEW e \in T, s \in P PROVE Append(s, e) \in P
  <2>1. Pick(Append(s, e), T) = IF e \in T THEN Append(Pick(s, T), e) ELSE Pick(s, T)
    BY PickAppend
  <2> QED
    BY <1>2, <2>1
<1> HIDE DEF P
<1>3. list \in P
  BY <1>1, <1>2, ListInduction
<1>4. Elems(list) \subseteq T
  BY ElemsType
<1>5. Pick(list, S) = Pick(list, T)
  BY <1>4, PickSame
<1> QED
  BY <1>3, <1>5 DEF P

LEMMA PickPick ==
  ASSUME NEW T, NEW list \in Seq(T), NEW S, NEW R
  PROVE  Pick(Pick(list, S), R) = Pick(list, S \intersect R)
<1> DEFINE P == {s \in Seq(T) : Pick(Pick(s, S), R) = Pick(s, S \intersect R)}
<1>1. <<>> \in P
  <2>1. <<>> \in Seq(T)
    OBVIOUS
  <2> QED
    BY <2>1, PickEmpty
<1>2. ASSUME NEW s \in Seq(T), NEW e \in T, s \in P PROVE Append(s, e) \in P
  <2>1. Pick(Append(s, e), S) = IF e \in S THEN Append(Pick(s, S), e) ELSE Pick(s, S)
    BY PickAppend
  <2>2. Pick(s, S) \in Seq(T)
    BY PickType
  <2>3. Pick(Append(Pick(s, S), e), R)
          = IF e \in R THEN Append(Pick(Pick(s, S), R), e) ELSE Pick(Pick(s, S), R)
    BY <2>2, PickAppend
  <2>4. Pick(Append(s, e), S \intersect R)
          = IF e \in S \intersect R THEN Append(Pick(s, S \intersect R), e)
            ELSE Pick(s, S \intersect R)
    BY PickAppend
  <2>5. Append(s, e) \in Seq(T) /\ Pick(Pick(s, S), R) = Pick(s, S \intersect R)
    BY <1>2
  <2>6. Pick(Pick(Append(s, e), S), R) = Pick(Append(s, e), S \intersect R)
    <3> HIDE DEF P
    <3>1. CASE e \in S
      <4>1. Pick(Append(s, e), S) = Append(Pick(s, S), e)
        BY <2>1, <3>1
      <4>2. CASE e \in R
        <5>1. Pick(Append(s, e), S \intersect R) = Append(Pick(s, S \intersect R), e)
          BY <2>4, <3>1, <4>2
        <5>2. Pick(Append(Pick(s, S), e), R) = Append(Pick(Pick(s, S), R), e)
          BY <2>3, <4>2
        <5> QED
          BY <2>5, <4>1, <5>1, <5>2
      <4>3. CASE e \notin R
        <5>1. Pick(Append(s, e), S \intersect R) = Pick(s, S \intersect R)
          BY <2>4, <4>3
        <5>2. Pick(Append(Pick(s, S), e), R) = Pick(Pick(s, S), R)
          BY <2>3, <4>3
        <5> QED
          BY <2>5, <4>1, <5>1, <5>2
      <4> QED
        BY <4>2, <4>3
    <3>2. CASE e \notin S
      BY <2>1, <2>4, <2>5, <3>2
    <3> QED
      BY <3>1, <3>2
  <2> QED
    BY <2>5, <2>6
<1> HIDE DEF P
<1>3. Seq(T) \subseteq P
  BY <1>1, <1>2, ListInduction
<1> QED
  BY <1>3 DEF P

\* To pick from an image is to take the image of what is picked.
Image(g, list) == [i \in 1..Len(list) |-> g[list[i]]]
MapsTo(T, R) == [T -> R]

LEMMA ImageType ==
  ASSUME NEW T, NEW R, NEW g \in MapsTo(T, R), NEW s \in Seq(T)
  PROVE  Image(g, s) \in Seq(R) /\ Len(Image(g, s)) = Len(s)
BY DEF Image, MapsTo

LEMMA ImageAppend ==
  ASSUME NEW T, NEW R, NEW g \in MapsTo(T, R), NEW s \in Seq(T), NEW e \in T
  PROVE  Image(g, Append(s, e)) = Append(Image(g, s), g[e])
<1> USE DEF MapsTo
<1>1. Image(g, s) \in Seq(R) /\ Len(Image(g, s)) = Len(s)
  BY DEF Image
<1>2. Len(Append(s, e)) = Len(s) + 1 /\ Len(s) \in Nat
  OBVIOUS
<1>3. Append(s, e)[Len(s) + 1] = e /\ \A i \in 1..Len(s) : Append(s, e)[i] = s[i]
  OBVIOUS
<1>4. Append(Image(g, s), g[e]) \in Seq(R) /\ Len(Append(Image(g, s), g[e])) = Len(s) + 1
  BY <1>1
<1>5. Image(g, Append(s, e)) \in Seq(R) /\ Len(Image(g, Append(s, e))) = Len(s) + 1
  BY <1>2 DEF Image
<1>6. ASSUME NEW i \in 1..Len(s) + 1
      PROVE  Image(g, Append(s, e))[i] = Append(Image(g, s), g[e])[i]
  <2>1. Image(g, Append(s, e))[i] = g[Append(s, e)[i]]
    BY <1>2 DEF Image
  <2>2. CASE i = Len(s) + 1
    BY <1>1, <1>3, <2>1, <2>2
  <2>3. CASE i # Len(s) + 1
    <3>1. i \in 1..Len(s)
      BY <1>2, <2>3
    <3>2. Append(Image(g, s), g[e])[i] = Image(g, s)[i]
      BY <1>1, <3>1
    <3>3. Image(g, s)[i] = g[s[i]]
      BY <3>1 DEF Image
    <3> QED
      BY <1>3, <2>1, <3>1, <3>2, <3>3
  <2> QED
    BY <2>2, <2>3
<1> HIDE DEF Image
<1> QED
  BY <1>4, <1>5, <1>6, SeqEqual

LEMMA ImageElems ==
  ASSUME NEW T, NEW R, NEW g \in MapsTo(T, R), NEW s \in Seq(T)
  PROVE  Elems(Image(g, s)) = {g[e] : e \in Elems(s)}
<1>1. Len(Image(g, s)) = Len(s) /\ \A i \in 1..Len(s) : Image(g, s)[i] = g[s[i]]
  BY ImageType DEF Image
<1> QED
  BY <1>1 DEF Elems

LEMMA CatIndex ==
  ASSUME NEW T, NEW a \in Seq(T), NEW b \in Seq(T)
  PROVE  /\ Len(a) \in Nat /\ Len(b) \in Nat /\ Len(Cat(a, b)) = Len(a) + Len(b)
         /\ \A i \in 1..Len(a) + Len(b) :
              Cat(a, b)[i] = IF i <= Len(a) THEN a[i] ELSE b[i - Len(a)]
BY DEF Cat

LEMMA ImageCat ==
  ASSUME NEW T, NEW R, NEW g \in MapsTo(T, R), NEW a \in Seq(T), NEW b \in Seq(T)
  PROVE  Image(g, Cat(a, b)) = Cat(Image(g, a), Image(g, b))
<1> DEFINE x == Image(g, a)
           y == Image(g, b)
           c == Cat(a, b)
           u == Cat(x, y)
           w == Image(g, c)
<1>1. c \in Seq(T) /\ Len(a) \in Nat /\ Len(b) \in Nat /\ Len(c) = Len(a) + Len(b)
      /\ \A i \in 1..Len(c) : c[i] = IF i <= Len(a) THEN a[i] ELSE b[i - Len(a)]
  BY CatType, CatIndex
<1>2. x \in Seq(R) /\ Len(x) = Len(a) /\ y \in Seq(R) /\ Len(y) = Len(b)
  BY ImageType
<1>3. (\A i \in 1..Len(a) : x[i] = g[a[i]]) /\ \A i \in 1..Len(b) : y[i] = g[b[i]]
  BY DEF Image
<1> HIDE DEF c, x, y
<1>4. w \in Seq(R) /\ Len(w) = Len(c)
  BY <1>1, ImageType
<1>5. \A i \in 1..Len(c) : w[i] = g[c[i]]
  BY DEF Image
<1>6. u \in Seq(R) /\ Len(u) = Len(c)
      /\ \A i \in 1..Len(c) : u[i] = IF i <= Len(a) THEN x[i] ELSE y[i - Len(a)]
  <2>1. u \in Seq(R)
    BY <1>2, CatType
  <2>2. Len(u) = Len(x) + Len(y)
        /\ \A i \in 1..Len(x) + Len(y) : u[i] = IF i <= Len(x) THEN x[i] ELSE y[i - Len(x)]
    BY <1>2, CatIndex
  <2> QED
    BY <1>1, <1>2, <2>1, <2>2
<1> HIDE DEF u, w
<1>7. ASSUME NEW i \in 1..Len(c) PROVE u[i] = w[i]
  <2>1. CASE i <= Len(a)
    <3>1. i \in 1..Len(a)
      BY <1>1, <2>1
    <3> QED
      BY <1>1, <1>3, <1>5, <1>6, <2>1, <3>1
  <2>2. CASE ~ (i <= Len(a))
    <3>1. i - Len(a) \in 1..Len(b)
      BY <1>1, <2>2
    <3> QED
      BY <1>1, <1>3, <1>5, <1>6, <2>2, <3>1
  <2> QED
    BY <2>1, <2>2
<1>8. u = w
  BY <1>4, <1>6, <1>7, SeqEqual
<1> QED
  BY <1>8 DEF u, w, x, y, c

LEMMA PickImage ==
  ASSUME NEW T, NEW R, NEW g \in MapsTo(T, R), NEW list \in Seq(T), NEW S, NEW Q,
         \A e \in Elems(list) : g[e] \in Q <=> e \in S
  PROVE  Pick(Image(g, list), Q) = Image(g, Pick(list, S))
<1> USE DEF MapsTo
<1> DEFINE P == {s \in Seq(T) : (\A e \in Elems(s) : g[e] \in Q <=> e \in S)
                                  => Pick(Image(g, s), Q) = Image(g, Pick(s, S))}
<1>1. <<>> \in P
  <2>1. <<>> \in Seq(T) /\ Image(g, <<>>) = <<>>
    BY DEF Image
  <2> QED
    BY <2>1, PickEmpty
<1>2. ASSUME NEW s \in Seq(T), NEW e \in T, s \in P PROVE Append(s, e) \in P
  <2> SUFFICES ASSUME \A x \in Elems(Append(s, e)) : g[x] \in Q <=> x \in S
               PROVE  Pick(Image(g, Append(s, e)), Q) = Image(g, Pick(Append(s, e), S))
    OBVIOUS
  <2>1. Elems(Append(s, e)) = Elems(s) \union {e}
    BY ElemsAppend
  <2>2. Pick(Image(g, s), Q) = Image(g, Pick(s, S)) /\ (g[e] \in Q <=> e \in S)
    BY <1>2, <2>1
  <2>3. Pick(Append(s, e), S) = IF e \in S THEN Append(Pick(s, S), e) ELSE Pick(s, S)
    BY PickAppend
  <2>4. Image(g, s) \in Seq(R) /\ g[e] \in R
        /\ Image(g, Append(s, e)) = Append(Image(g, s), g[e])
    <3> HIDE DEF P
    <3>1. g[e] \in R
      OBVIOUS
    <3>2. Image(g, s) \in Seq(R)
      BY ImageType
    <3>3. Image(g, Append(s, e)) = Append(Image(g, s), g[e])
      BY ImageAppend
    <3> QED
      BY <3>1, <3>2, <3>3
  <2>5. Pick(Append(Image(g, s), g[e]), Q)
          = IF g[e] \in Q THEN Append(Pick(Image(g, s), Q), g[e]) ELSE Pick(Image(g, s), Q)
    BY <2>4, PickAppend
  <2>6. Pick(s, S) \in Seq(T)
    BY PickType
  <2>7. Image(g, Append(Pick(s, S), e)) = Append(Image(g, Pick(s, S)), g[e])
    BY <2>6, ImageAppend
  <2> QED
    BY <2>2, <2>3, <2>4, <2>5, <2>7
<1> HIDE DEF P
<1>3. list \in P
  BY <1>1, <1>2, ListInduction
<1> QED
  BY <1>3 DEF P

-----------------------------------------------------------------------------
(* The parts of a list, index by index.                                    *)

\* One element goes from the end of a list to its beginning.
LEMMA NextElement ==
  ASSUME NEW T, NEW v \in Seq(T), NEW p \in 0..Len(v) - 1
  PROVE  /\ v[p + 1] \in T
         /\ SubSeq(v, 1, p) \in Seq(T)
         /\ SubSeq(v, 1, p + 1) = Append(SubSeq(v, 1, p), v[p + 1])
         /\ SubSeq(v, p + 2, Len(v)) \in Seq(T)
         /\ SubSeq(v, p + 1, Len(v)) = Cat(<<v[p + 1]>>, SubSeq(v, p + 2, Len(v)))
<1>1. v[p + 1] \in T /\ p + 1 \in 1..Len(v) /\ p \in Nat
  OBVIOUS
<1>2. /\ SubSeq(v, 1, p) \in Seq(T) /\ SubSeq(v, p + 2, Len(v)) \in Seq(T)
      /\ SubSeq(v, 1, p + 1) \in Seq(T) /\ SubSeq(v, p + 1, Len(v)) \in Seq(T)
  OBVIOUS
<1>3. SubSeq(v, 1, p + 1) = Append(SubSeq(v, 1, p), v[p + 1])
  <2> DEFINE x == SubSeq(v, 1, p + 1)
             y == Append(SubSeq(v, 1, p), v[p + 1])
  <2>1. x \in Seq(T) /\ y \in Seq(T) /\ Len(x) = p + 1 /\ Len(y) = p + 1
    BY <1>1, <1>2
  <2>2. ASSUME NEW i \in 1..p + 1 PROVE x[i] = y[i]
    BY <1>1
  <2> HIDE DEF x, y
  <2>3. x = y
    BY <2>1, <2>2, SeqEqual
  <2> QED
    BY <2>3 DEF x, y
<1>4. SubSeq(v, p + 1, Len(v)) = Cat(<<v[p + 1]>>, SubSeq(v, p + 2, Len(v)))
  <2> DEFINE x == SubSeq(v, p + 1, Len(v))
             y == SubSeq(v, p + 2, Len(v))
             z == Cat(<<v[p + 1]>>, y)
  <2>1. <<v[p + 1]>> \in Seq(T) /\ Len(<<v[p + 1]>>) = 1
    BY <1>1
  <2>2. /\ z \in Seq(T) /\ Len(z) = 1 + Len(y)
        /\ \A i \in 1..1 + Len(y) : z[i] = IF i <= 1 THEN <<v[p + 1]>>[i] ELSE y[i - 1]
    <3> DEFINE u == <<v[p + 1]>>
    <3> HIDE DEF u, y
    <3>1. u \in Seq(T) /\ Len(u) = 1 /\ y \in Seq(T)
      BY <2>1, <1>2 DEF u, y
    <3>2. Cat(u, y) \in Seq(T)
      BY <3>1, CatType
    <3>3. /\ Len(Cat(u, y)) = Len(u) + Len(y)
          /\ \A i \in 1..Len(u) + Len(y) : Cat(u, y)[i] = IF i <= Len(u) THEN u[i] ELSE y[i - Len(u)]
      BY <3>1, CatIndex
    <3> QED
      BY <3>1, <3>2, <3>3 DEF u
  <2>3. /\ Len(y) = Len(v) - p - 1 /\ \A i \in 1..Len(y) : y[i] = v[p + 1 + i]
        /\ Len(x) = Len(v) - p /\ \A i \in 1..Len(x) : x[i] = v[p + i]
    BY <1>1
  <2>4. x \in Seq(T) /\ Len(v) \in Nat /\ p \in Nat
    BY <1>1, <1>2
  <2> HIDE DEF x, y, z
  <2>5. ASSUME NEW i \in 1..Len(x) PROVE x[i] = z[i]
    <3>1. CASE i = 1
      BY <1>1, <2>2, <2>3, <3>1
    <3>2. CASE i # 1
      <4>1. i - 1 \in 1..Len(y) /\ p + 1 + (i - 1) = p + i /\ i \in 1..1 + Len(y)
        BY <1>1, <2>3, <3>2
      <4> QED
        BY <2>2, <2>3, <3>2, <4>1
    <3> QED
      BY <3>1, <3>2
  <2>6. Len(x) = Len(z)
    BY <2>2, <2>3, <2>4
  <2>7. x = z
    BY <2>2, <2>4, <2>5, <2>6, SeqEqual
  <2> QED
    BY <2>7 DEF x, y, z
<1> QED
  BY <1>1, <1>2, <1>3, <1>4

\* The end of a list, index by index.
LEMMA TailIndex ==
  ASSUME NEW T, NEW s \in Seq(T), NEW k \in 1..Len(s) + 1
  PROVE  /\ SubSeq(s, k, Len(s)) \in Seq(T)
         /\ Len(SubSeq(s, k, Len(s))) = Len(s) - k + 1
         /\ \A i \in 1..Len(s) - k + 1 : SubSeq(s, k, Len(s))[i] = s[k - 1 + i]
OBVIOUS
=============================================================================
