----------------------------- MODULE Scheduler -----------------------------
(***************************************************************************)
(* The scheduler of the delayed messages (TScheduler): four levels of      *)
(* lists, one level for each byte of a date.  An element waits at the      *)
(* level of the first byte of its date that differs from the current date; *)
(* at each clock some elements of the next list of a level are resorted,   *)
(* and the rest of them when its date comes, to the alternate lists of the *)
(* level below, which then become its current ones.                        *)
(*                                                                         *)
(* put and clock hold the same mutex: each one is a step.                  *)
(***************************************************************************)
EXTENDS Integers, Sequences, Lists

CONSTANTS
  Elements,      \* what is scheduled: each element may be put again once delivered
  Base,          \* the number of values of a byte
  SomeCount,     \* how many elements resortSome moves
  LastDate       \* bound: the clock stops before the dates overflow

ASSUME BaseAssumption == Base \in Nat \ {0, 1}
ASSUME SomeCountAssumption == SomeCount \in Nat
ASSUME LastDateAssumption == LastDate \in 0..Base * Base * Base * Base - 1

VARIABLES
  fDate,      \* the current date
  fReady,     \* the elements that the next clock delivers
  fBuffer,    \* the two buffers of each level: a list for each value of a byte
  fCurrent,   \* the current buffer of each level
  fPos,       \* the current resort position of each level
  dateOf,     \* the date of each element that waits
  order,      \* the elements that wait, in the order they were put in
  out         \* what the last clock returned

vars == <<fDate, fReady, fBuffer, fCurrent, fPos, dateOf, order, out>>

Levels == 0..3
Bytes == 0..Base - 1
Never == -1

\* The bytes of a date, from the least significant one: those that the macros of the
\* compiler select on a little endian machine when it defines __LITTLE_ENDIAN__.
Unit[k \in 0..4] == IF k = 0 THEN 1 ELSE Unit[k - 1] * Base
part(date, k) == (date \div Unit[k]) % Base

\* The top level has no alternate buffer.
fAlternate(current, k) == IF k = 3 THEN 0 ELSE 1 - current[k]

Waiting == {e \in Elements : dateOf[e] # Never}

TypeOK ==
  /\ fDate \in 0..LastDate
  /\ fBuffer \in [Levels -> [{0, 1} -> [Bytes -> Seq(Elements)]]]
  /\ fCurrent \in [Levels -> {0, 1}] /\ fCurrent[3] = 0
  /\ fPos \in [1..3 -> Bytes]
  /\ dateOf \in [Elements -> 0..LastDate \union {Never}]
  /\ fReady \in Seq(Waiting) /\ order \in Seq(Waiting)
  /\ out \in Seq(Elements \ Waiting)

Init ==
  /\ fDate = 0
  /\ fReady = <<>>
  /\ fBuffer = [k \in Levels |-> [b \in {0, 1} |-> [i \in Bytes |-> <<>>]]]
  /\ fCurrent = [k \in Levels |-> 0]
  /\ fPos = [k \in 1..3 |-> 1]
  /\ dateOf = [e \in Elements |-> Never]
  /\ order = <<>>
  /\ out = <<>>

-----------------------------------------------------------------------------

\* The level of an element: the first byte, from the top, that is greater than the
\* one of the current date.
Above(date) == {k \in Levels : part(date, k) > part(fDate, k)}
Level(date) == CHOOSE k \in Above(date) : \A j \in Above(date) : j <= k

Mut_put(e, date) ==
  /\ dateOf[e] = Never
  /\ dateOf' = [dateOf EXCEPT ![e] = date]
  /\ order' = Append(order, e)
  /\ IF date < fDate \/ Above(date) = {}
       THEN fReady' = Append(fReady, e) /\ UNCHANGED fBuffer
       ELSE LET k == CHOOSE j \in Above(date) : \A i \in Above(date) : j <= i
            IN  /\ fBuffer' = [fBuffer EXCEPT ![k][fCurrent[k]][part(date, k)] = Append(@, e)]
                /\ UNCHANGED fReady
  /\ out' = <<>>
  /\ UNCHANGED <<fDate, fCurrent, fPos>>

\* TScheduler::put.
put(e, date) ==
  /\ dateOf[e] = Never
  /\ dateOf' = [dateOf EXCEPT ![e] = date]
  /\ order' = Append(order, e)
  /\ IF date <= fDate \/ Above(date) = {}
       THEN fReady' = Append(fReady, e) /\ UNCHANGED fBuffer
       ELSE LET k == Level(date)
            IN  /\ fBuffer' = [fBuffer EXCEPT ![k][fCurrent[k]][part(date, k)] = Append(@, e)]
                /\ UNCHANGED fReady
  /\ out' = <<>>
  /\ UNCHANGED <<fDate, fCurrent, fPos>>

-----------------------------------------------------------------------------
(* A clock goes down the levels.  s is what it changes: the buffers, the   *)
(* current buffers and the resort positions.                               *)

\* resortSome and resortAll: the first n elements of the list at index i of the level
\* k are pushed to the alternate buffer of the level below.
resort(s, k, i, n) ==
  LET from == s.buffer[k][s.current[k]][i]
      count == IF n < Len(from) THEN n ELSE Len(from)
      At(j) == Pick(SubSeq(from, 1, count), {e \in Elements : part(dateOf[e], k - 1) = j})
      below == fAlternate(s.current, k - 1)
      taken == [s.buffer EXCEPT ![k][s.current[k]][i] = SubSeq(@, count + 1, Len(@))]
  IN  [s EXCEPT !.buffer = [taken EXCEPT ![k - 1][below] = [j \in Bytes |-> @[j] \o At(j)]]]

\* TLevel::swap on the level below, and the next resort position.
swap(s, k) == [s EXCEPT !.current[k - 1] = 1 - @, !.pos[k] = (@ + 1) % Base]

Mut_levelClock(s, k, i) ==
  IF i # s.pos[k]
    THEN resort(s, k, s.pos[k], SomeCount)
    ELSE swap(resort(s, k, i, SomeCount), k)

Mut2_levelClock(s, k, i) ==
  IF i # s.pos[k]
    THEN resort(s, k, s.pos[k], SomeCount)
    ELSE LET all == resort(s, k, i, Len(s.buffer[k][s.current[k]][i]))
         IN  [all EXCEPT !.current[k - 1] = 1 - @, !.pos[k] = @ + 1]

\* TLevel::clock, where i is the byte of the new date at this level.
levelClock(s, k, i) ==
  IF i # s.pos[k]
    THEN resort(s, k, s.pos[k], SomeCount)
    ELSE swap(resort(s, k, i, Len(s.buffer[k][s.current[k]][i])), k)

\* TScheduler::clock.
clock ==
  /\ fDate < LastDate
  /\ fDate' = fDate + 1
  /\ LET s0 == [buffer |-> fBuffer, current |-> fCurrent, pos |-> fPos]
         s3 == levelClock(s0, 3, part(fDate + 1, 3))
         s2 == levelClock(s3, 2, part(fDate + 1, 2))
         s1 == levelClock(s2, 1, part(fDate + 1, 1))
         now == s1.buffer[0][s1.current[0]][part(fDate + 1, 0)]
         delivered == fReady \o now
         left == Elements \ Elems(delivered)
     IN  /\ out' = delivered
         /\ fBuffer' = [s1.buffer EXCEPT ![0][s1.current[0]][part(fDate + 1, 0)] = <<>>]
         /\ fCurrent' = s1.current
         /\ fPos' = s1.pos
         /\ dateOf' = [e \in Elements |-> IF e \in left THEN dateOf[e] ELSE Never]
         /\ order' = Pick(order, left)
  /\ fReady' = <<>>

\* The last date has come.
Stop == fDate = LastDate /\ UNCHANGED vars

Put(S) == \E e \in S, date \in 0..LastDate : put(e, date)

Next == clock \/ Stop \/ Put(Elements)

Spec == Init /\ [][Next]_vars

-----------------------------------------------------------------------------
(* Properties.                                                             *)

\* The list where each element waits.  At the current buffer of a level, it has the
\* higher bytes of the current date, and a greater byte, the index of the list.  At the
\* alternate one, the next byte is one more than the one of the current date, and the
\* bytes above are the same.
High(date, k) == date \div Unit[k + 1]
FiledAt(k, b, i, e) ==
  /\ part(dateOf[e], k) = i
  /\ IF b = fCurrent[k]
       THEN High(dateOf[e], k) = High(fDate, k) /\ part(fDate, k) < i
       ELSE /\ k # 3
            /\ High(dateOf[e], k) = High(fDate, k) + 1
            /\ High(dateOf[e], k + 1) = High(fDate, k + 1)

\* Every element is filed where the clock of its date will find it, whatever was
\* already resorted, and the resort position is one ahead of the current date.
Filed ==
  /\ \A k \in Levels, b \in {0, 1}, i \in Bytes :
       \A n \in 1..Len(fBuffer[k][b][i]) : FiledAt(k, b, i, fBuffer[k][b][i][n])
  /\ \A k \in 1..3 : fPos[k] = (part(fDate, k) + 1) % Base

\* The levels deliver what a plain list of dated elements would: on time, once, and in
\* the order of the puts.
Implemented ==
  INSTANCE Agenda WITH
    date <- fDate,
    pending <- [i \in 1..Len(order) |-> [element |-> order[i], due |-> dateOf[order[i]]]]
AgendaSpec == Implemented!Spec

\* No element waits beyond its date: the delay of a message is a number of
\* milliseconds (src/inscore2/INode.h, DelayNode) and there is a clock each millisecond.
OnTime == \A e \in Waiting : dateOf[e] > fDate \/ e \in Elems(fReady)
=============================================================================
