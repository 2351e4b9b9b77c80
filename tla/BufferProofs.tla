---------------------------- MODULE BufferProofs ----------------------------
(***************************************************************************)
(* Proofs about MessageBuffer: with one producer, and no push when the     *)
(* stack is full with the read index 0, the buffer is a bounded queue, for *)
(* every size and every number of pushes and of terminated threads.        *)
(***************************************************************************)
EXTENDS MessageBuffer, FiniteSetTheorems, SequenceTheorems, TLAPS

-----------------------------------------------------------------------------
(* The positions and their indexes.                                        *)

LEMMA Division ==
  ASSUME NEW n \in Nat, NEW s \in Nat \ {0}
  PROVE  n = (n \div s) * s + (n % s) /\ n % s \in 0..s-1 /\ n \div s \in Nat
OBVIOUS

LEMMA Remainder ==
  ASSUME NEW q \in Int, NEW s \in Nat \ {0}, NEW r \in 0..s-1
  PROVE  (q * s + r) % s = r
OBVIOUS

LEMMA Multiples ==
  ASSUME NEW a \in Int, NEW b \in Int, NEW s \in Nat \ {0}, a < b
  PROVE  a * s + s <= b * s
OBVIOUS

\* Two positions that are less than the size apart have different slots.
LEMMA SlotsDiffer ==
  ASSUME NEW a \in Nat, NEW b \in Nat, a < b, b - a < Size
  PROVE  pos2index(a) # pos2index(b)
<1> SUFFICES ASSUME a % Size = b % Size PROVE FALSE
  BY DEF pos2index
<1> DEFINE p == a \div Size
           q == b \div Size
           r == a % Size
<1>1. Size \in Nat \ {0}
  BY SizeAssumption
<1>2. a = p * Size + r /\ b = q * Size + r /\ p \in Nat /\ q \in Nat /\ r \in 0..Size-1
  BY <1>1, Division
<1>3. p * Size \in Int /\ q * Size \in Int
  BY <1>1, <1>2
<1> HIDE DEF p, q, r
<1>4. CASE p < q
  <2>1. p * Size + Size <= q * Size
    BY <1>1, <1>2, <1>4, Multiples
  <2> QED
    BY <1>1, <1>2, <1>3, <2>1
<1>5. CASE q < p
  <2>1. q * Size + Size <= p * Size
    BY <1>1, <1>2, <1>5, Multiples
  <2> QED
    BY <1>1, <1>2, <1>3, <2>1
<1>6. CASE p = q
  BY <1>1, <1>2, <1>3, <1>6
<1> QED
  BY <1>2, <1>4, <1>5, <1>6

\* The index of the next position.
LEMMA NextIndex ==
  ASSUME NEW n \in Nat
  PROVE  pos2index(n + 1) = IF pos2index(n) = Size - 1 THEN 0 ELSE pos2index(n) + 1
<1> DEFINE q == n \div Size
           r == n % Size
<1>1. Size \in Nat \ {0} /\ Size >= 2
  BY SizeAssumption
<1>2. n = q * Size + r /\ q \in Nat /\ r \in 0..Size-1
  BY <1>1, Division
<1>3. q * Size \in Nat /\ (q + 1) * Size = q * Size + Size
  BY <1>1, <1>2
<1> HIDE DEF q, r
<1>4. CASE r = Size - 1
  <2>1. n + 1 = (q + 1) * Size + 0 /\ q + 1 \in Nat /\ 0 \in 0..Size-1
    BY <1>1, <1>2, <1>3, <1>4
  <2>2. (n + 1) % Size = 0
    BY <1>1, <2>1, Remainder
  <2> QED
    BY <1>4, <2>2 DEF pos2index, r
<1>5. CASE r # Size - 1
  <2>1. n + 1 = q * Size + (r + 1) /\ r + 1 \in 0..Size-1
    BY <1>1, <1>2, <1>3, <1>5
  <2>2. (n + 1) % Size = r + 1
    BY <1>1, <1>2, <2>1, Remainder
  <2> QED
    BY <1>5, <2>2 DEF pos2index, r
<1> QED
  BY <1>4, <1>5

LEMMA Indexes ==
  ASSUME NEW n \in Nat
  PROVE  pos2index(n) \in 0..Size-1
BY SizeAssumption, Division DEF pos2index

\* What the test of write sees: it never succeeds with less than Size - 1 messages, and
\* misses the full buffer only when the read index is 0.
LEMMA FullTest ==
  ASSUME fWritePos \in Nat, fReadPos \in Nat, fReadPos <= fWritePos,
         fWritePos - fReadPos <= Size - 1
  PROVE  /\ full => fWritePos - fReadPos = Size - 1
         /\ fWritePos - fReadPos = Size - 1 /\ pos2index(fReadPos) # 0 => full
<1> DEFINE i == pos2index(fWritePos)
           j == pos2index(fReadPos)
<1>1. Size \in Nat /\ Size >= 2 /\ Size < UShort /\ UShort \in Nat \ {0}
  BY SizeAssumption DEF UShort
<1>2. i \in 0..Size-1 /\ j \in 0..Size-1
  BY Indexes
<1>3. pos2index(fWritePos + 1) = IF i = Size - 1 THEN 0 ELSE i + 1
  BY NextIndex
<1>4. full <=> i = (j - 1) % UShort
  BY DEF full, beforeRead
<1>5. pos2index(fReadPos + Size) = j
  <2> DEFINE q == fReadPos \div Size
  <2>1. fReadPos = q * Size + j /\ q \in Nat
    BY <1>1, Division DEF pos2index
  <2>2. fReadPos + Size = (q + 1) * Size + j
    BY <1>1, <1>2, <2>1
  <2>3. ((q + 1) * Size + j) % Size = j
    <3> HIDE DEF q, j
    <3> QED
      BY <1>1, <1>2, <2>1, Remainder
  <2> QED
    BY <2>2, <2>3 DEF pos2index
<1> HIDE DEF i, j
<1>6. (0 - 1) % UShort = UShort - 1
  <2>1. 0 - 1 = (-1) * UShort + (UShort - 1) /\ -1 \in Int /\ UShort - 1 \in 0..UShort-1
    BY <1>1
  <2>2. ((-1) * UShort + (UShort - 1)) % UShort = UShort - 1
    BY <1>1, <2>1, Remainder
  <2> QED
    BY <2>1, <2>2
<1>7. j # 0 => (j - 1) % UShort = j - 1
  BY <1>1, <1>2
<1>8. ASSUME full PROVE fWritePos - fReadPos = Size - 1
  <2>1. j # 0 /\ i = j - 1
    BY <1>1, <1>2, <1>4, <1>6, <1>7, <1>8
  <2>2. pos2index(fWritePos + 1) = pos2index(fReadPos)
    BY <1>1, <1>2, <1>3, <2>1 DEF j
  <2>3. ~(fWritePos + 1 - fReadPos < Size)
    BY <2>2, SlotsDiffer
  <2> QED
    BY <1>1, <2>3
<1>9. ASSUME fWritePos - fReadPos = Size - 1, j # 0 PROVE full
  <2>1. fWritePos + 1 = fReadPos + Size
    BY <1>1, <1>9
  <2>2. pos2index(fWritePos + 1) = j
    BY <1>5, <2>1
  <2>3. i = j - 1
    BY <1>1, <1>2, <1>3, <1>9, <2>2
  <2> QED
    BY <1>4, <1>7, <1>9, <2>3
<1> QED
  BY <1>8, <1>9 DEF j

-----------------------------------------------------------------------------
(* The invariant.                                                          *)

OneProducer(p) == Producers = {p} /\ AvoidWrap = TRUE

\* The first position that the reader has still to load, and the message at a position.
from == IF popping = -1 THEN fReadPos ELSE fReadPos - 1
At(k) == fBuffer[pos2index(k)]

\* The last message whose push has ended.
last(p) == IF pc[p] = "idle" THEN sent ELSE sent - 1

\* The positions: a push that has passed its test has a slot that no position from
\* "from" on shares.
PosInv(p) ==
  /\ fReadPos <= fWritePos /\ fWritePos - fReadPos <= Size - 1
  /\ popping # -1 => fReadPos >= 1 /\ popping = pos2index(fReadPos - 1)
  /\ pc[p] # "idle" => /\ fWritePos - fReadPos <= Size - 2
                       /\ msg[p] = sent /\ sent >= 1
  /\ pc[p] = "store" => w[p] = pos2index(fWritePos)
  /\ pc[p] \in {"load", "increment"} => At(fWritePos) = sent
  /\ pc[p] = "increment" => pos[p] = fWritePos

\* The messages increase from the first one received to the last one in the buffer.
OrderInv(p) ==
  /\ \A k \in from..fWritePos-1 : 1 <= At(k) /\ At(k) <= last(p)
  /\ \A j, k \in from..fWritePos-1 : j < k => At(j) < At(k)
  /\ \A i \in 1..Len(received) :
       /\ 1 <= received[i] /\ received[i] <= last(p)
       /\ \A k \in from..fWritePos-1 : received[i] < At(k)
  /\ \A i, j \in 1..Len(received) : i < j => received[i] < received[j]

BufInv(p) == TypeOK /\ PosInv(p) /\ OrderInv(p)

LEMMA BufInit ==
  ASSUME NEW p, OneProducer(p), Init
  PROVE  BufInv(p)
<1>1. Size \in Nat /\ Size >= 2 /\ MaxPush \in Nat
  BY SizeAssumption, PushAssumption
<1>2. TypeOK
  BY <1>1 DEF Init, TypeOK
<1>3. PosInv(p)
  BY <1>1 DEF Init, PosInv, OneProducer
<1>4. OrderInv(p)
  BY DEF Init, OrderInv, from
<1> QED
  BY <1>2, <1>3, <1>4 DEF BufInv

LEMMA Bounds ==
  ASSUME NEW p, OneProducer(p), BufInv(p)
  PROVE  /\ Size \in Nat /\ Size >= 2
         /\ fReadPos \in Nat /\ fWritePos \in Nat /\ sent \in Nat /\ MaxPush \in Nat
         /\ from \in Nat /\ from <= fReadPos /\ fReadPos <= from + 1
         /\ fWritePos - fReadPos <= Size - 1 /\ fReadPos <= fWritePos
         /\ popping # -1 => fReadPos = from + 1 /\ popping = pos2index(from)
         /\ popping = -1 => fReadPos = from
         /\ \A k \in Nat : At(k) \in 0..MaxPush
         /\ p \in Producers /\ last(p) \in Int /\ last(p) <= sent
<1>1. Size \in Nat /\ Size >= 2 /\ MaxPush \in Nat
  BY SizeAssumption, PushAssumption
<1>2. \A k \in Nat : At(k) \in 0..MaxPush
  BY Indexes DEF BufInv, TypeOK, At
<1>3. fReadPos \in Nat /\ fWritePos \in Nat /\ sent \in Nat
  BY <1>1 DEF BufInv, TypeOK
<1>4. /\ fWritePos - fReadPos <= Size - 1 /\ fReadPos <= fWritePos
      /\ popping # -1 => fReadPos >= 1 /\ popping = pos2index(fReadPos - 1)
  BY DEF BufInv, PosInv
<1>5. /\ from \in Nat /\ from <= fReadPos /\ fReadPos <= from + 1
      /\ popping # -1 => fReadPos = from + 1 /\ popping = pos2index(from)
      /\ popping = -1 => fReadPos = from
  BY <1>3, <1>4 DEF from
<1>6. p \in Producers /\ last(p) \in Int /\ last(p) <= sent
  BY <1>3 DEF OneProducer, last
<1> QED
  BY <1>1, <1>2, <1>3, <1>4, <1>5, <1>6

LEMMA Received ==
  ASSUME TypeOK
  PROVE  Len(received) \in Nat /\ \A i \in 1..Len(received) : received[i] \in Int
<1>1. received \in Seq(0..MaxPush) /\ 0..MaxPush \subseteq Int
  BY DEF TypeOK
<1> QED
  BY <1>1, ElementOfSeq, LenProperties

\* A store leaves the messages of the buffer alone.
LEMMA StoreApart ==
  ASSUME NEW p, OneProducer(p), BufInv(p), Store(p)
  PROVE  /\ \A k \in from..fWritePos-1 : At(k)' = At(k)
         /\ At(fWritePos)' = sent
<1>1. /\ w[p] = pos2index(fWritePos) /\ msg[p] = sent
      /\ fWritePos - fReadPos <= Size - 2
      /\ fBuffer' = [fBuffer EXCEPT ![w[p]] = msg[p]]
  BY DEF Store, BufInv, PosInv
<1>2. fBuffer \in [0..Size-1 -> 0..MaxPush] /\ pos2index(fWritePos) \in 0..Size-1
  BY Bounds, Indexes DEF BufInv, TypeOK
<1>3. At(fWritePos)' = sent
  BY <1>1, <1>2 DEF At, Store, pos2index
<1>4. ASSUME NEW k \in from..fWritePos-1
      PROVE  At(k)' = At(k)
  <2>1. k \in Nat /\ k < fWritePos /\ fWritePos - k < Size
    BY <1>1, Bounds
  <2>2. pos2index(k) # pos2index(fWritePos) /\ pos2index(k) \in 0..Size-1
    BY <2>1, Bounds, SlotsDiffer, Indexes
  <2> QED
    BY <1>1, <1>2, <2>2 DEF At, pos2index
<1> QED
  BY <1>3, <1>4

\* A step that leaves the messages of the buffer alone, and takes none.
LEMMA OrderKept ==
  ASSUME NEW p, OneProducer(p), BufInv(p),
         from' = from, fWritePos' = fWritePos, received' = received,
         last(p)' \in Int, last(p) <= last(p)',
         \A k \in from..fWritePos-1 : At(k)' = At(k)
  PROVE  OrderInv(p)'
<1>1. from \in Nat /\ fWritePos \in Nat /\ last(p) \in Int /\ \A k \in Nat : At(k) \in Int
  BY Bounds
<1>2. \A i \in 1..Len(received) : received[i] \in Int
  BY Received DEF BufInv
<1>3. \A k \in from..fWritePos-1 : 1 <= At(k)' /\ At(k)' <= last(p)'
  BY <1>1 DEF BufInv, OrderInv
<1>4. \A j, k \in from..fWritePos-1 : j < k => At(j)' < At(k)'
  BY DEF BufInv, OrderInv
<1>5. \A i \in 1..Len(received) :
        /\ 1 <= received[i] /\ received[i] <= last(p)'
        /\ \A k \in from..fWritePos-1 : received[i] < At(k)'
  BY <1>1, <1>2 DEF BufInv, OrderInv
<1>6. \A i, j \in 1..Len(received) : i < j => received[i] < received[j]
  BY DEF BufInv, OrderInv
<1> QED
  BY <1>3, <1>4, <1>5, <1>6 DEF OrderInv

\* The message at the write position is the last one, and it is published.
LEMMA OrderExtended ==
  ASSUME NEW p, OneProducer(p), BufInv(p), At(fWritePos) = sent, sent >= 1,
         last(p) = sent - 1, last(p)' = sent,
         from' = from, fWritePos' = fWritePos + 1, received' = received,
         \A k \in Nat : At(k)' = At(k)
  PROVE  OrderInv(p)'
<1> DEFINE old == from..fWritePos-1
<1>1. /\ from \in Nat /\ fWritePos \in Nat /\ sent \in Nat /\ old \subseteq Nat
      /\ \A k \in Nat : At(k) \in Int
  BY Bounds
<1>2. \A i \in 1..Len(received) : received[i] \in Int
  BY Received DEF BufInv
<1>3. /\ \A k \in old : 1 <= At(k) /\ At(k) <= sent - 1 /\ k < fWritePos
      /\ \A j, k \in old : j < k => At(j) < At(k)
  BY <1>1 DEF BufInv, OrderInv
<1>4. \A i \in 1..Len(received) :
        /\ 1 <= received[i] /\ received[i] <= sent - 1
        /\ \A k \in old : received[i] < At(k)
  BY DEF BufInv, OrderInv
<1>5. \A i, j \in 1..Len(received) : i < j => received[i] < received[j]
  BY DEF BufInv, OrderInv
<1>6. \A k \in from'..fWritePos'-1 : k \in Nat /\ (k \in old \/ k = fWritePos)
  BY <1>1
<1> HIDE DEF old
<1>7. \A k \in from'..fWritePos'-1 : 1 <= At(k)' /\ At(k)' <= sent
  BY <1>1, <1>3, <1>6
<1>8. \A j, k \in from'..fWritePos'-1 : j < k => At(j)' < At(k)'
  BY <1>1, <1>3, <1>6
<1>9. \A i \in 1..Len(received) :
        /\ 1 <= received[i] /\ received[i] <= sent
        /\ \A k \in from'..fWritePos'-1 : received[i] < At(k)'
  BY <1>1, <1>2, <1>4, <1>6
<1> QED
  BY <1>5, <1>7, <1>8, <1>9 DEF OrderInv

LEMMA TestKeeps ==
  ASSUME NEW p, OneProducer(p), BufInv(p), Test(p)
  PROVE  BufInv(p)'
<1>0. p \in Producers /\ sent \in Nat /\ MaxPush \in Nat
  BY Bounds
<1>1. pc[p] = "idle" /\ sent < MaxPush /\ sent' = sent + 1
  BY DEF Test
<1>2. /\ UNCHANGED <<fBuffer, fWritePos, fReadPos, pos, popping, stopped, received>>
      /\ from' = from /\ \A k \in Nat : At(k)' = At(k)
  BY DEF Test, from, At, pos2index
<1>3. pos2index(fWritePos) \in 0..Size-1
  BY Bounds, Indexes
<1>4. CASE full
  <2>1. UNCHANGED <<pc, msg, w>> /\ lost' = lost \union {sent + 1}
    BY <1>4 DEF Test
  <2>2. TypeOK'
    <3>1. lost' \subseteq 1..MaxPush /\ sent' \in 0..MaxPush
      BY <1>0, <1>1, <2>1 DEF BufInv, TypeOK
    <3> QED
      BY <1>2, <2>1, <3>1 DEF BufInv, TypeOK
  <2>3. PosInv(p)'
    BY <1>1, <1>2, <2>1, Bounds DEF BufInv, PosInv, pos2index
  <2>4. last(p)' = last(p) + 1
    BY <1>1, <2>1, Bounds DEF last
  <2>5. OrderInv(p)'
    BY <1>2, <2>4, Bounds, OrderKept
  <2> QED
    BY <2>2, <2>3, <2>5 DEF BufInv
<1>5. CASE ~full
  <2>1. /\ msg' = [msg EXCEPT ![p] = sent + 1]
        /\ w' = [w EXCEPT ![p] = pos2index(fWritePos)]
        /\ pc' = [pc EXCEPT ![p] = "store"]
        /\ lost' = lost
    BY <1>5 DEF Test
  <2>2. TypeOK'
    <3>1. /\ sent' \in 0..MaxPush /\ sent + 1 \in 0..MaxPush
          /\ msg' \in [Producers -> 0..MaxPush]
          /\ w' \in [Producers -> 0..Size-1]
          /\ pc' \in [Producers -> {"idle", "store", "load", "increment"}]
      BY <1>0, <1>1, <1>3, <2>1 DEF BufInv, TypeOK
    <3> QED
      BY <1>2, <2>1, <3>1 DEF BufInv, TypeOK
  <2>3. fWritePos - fReadPos <= Size - 2
    <3>1. ~(pos2index(fReadPos) = 0 /\ fWritePos - fReadPos >= Size - 1)
      BY DEF Test, OneProducer, available
    <3> QED
      BY <1>5, <3>1, Bounds, FullTest
  <2>4. pc'[p] = "store" /\ msg'[p] = sent + 1 /\ w'[p] = pos2index(fWritePos)
    BY <2>1, Bounds DEF BufInv, TypeOK
  <2>5. PosInv(p)'
    BY <1>1, <1>2, <2>3, <2>4, Bounds DEF BufInv, PosInv, pos2index
  <2>6. last(p)' = last(p)
    BY <1>1, <2>4, Bounds DEF last
  <2>7. OrderInv(p)'
    BY <1>2, <2>6, Bounds, OrderKept
  <2> QED
    BY <2>2, <2>5, <2>7 DEF BufInv
<1> QED
  BY <1>4, <1>5

LEMMA WriteKeeps ==
  ASSUME NEW p, OneProducer(p), BufInv(p),
         Store(p) \/ Load(p) \/ Increment(p) \/ Terminate(p)
  PROVE  BufInv(p)'
<1>1. p \in Producers /\ pc[p] \in {"idle", "store", "load", "increment"}
  BY Bounds DEF BufInv, TypeOK
<1>2. CASE Store(p)
  <2>1. TypeOK'
    BY <1>1, <1>2 DEF BufInv, TypeOK, Store, locals
  <2>2. /\ pc[p] = "store" /\ pc'[p] = "load"
        /\ UNCHANGED <<fWritePos, fReadPos, locals, popping, sent, received>>
    BY <1>1, <1>2 DEF Store, BufInv, TypeOK
  <2>3. At(fWritePos)' = sent
    BY <1>2, StoreApart
  <2>4. PosInv(p)'
    BY <2>2, <2>3, Bounds DEF BufInv, PosInv, locals, pos2index
  <2>5. from' = from /\ last(p)' = last(p)
    BY <2>2 DEF from, last
  <2>6. OrderInv(p)'
    BY <1>2, <2>2, <2>5, Bounds, StoreApart, OrderKept
  <2> QED
    BY <2>1, <2>4, <2>6 DEF BufInv
<1>3. CASE Load(p)
  <2>1. TypeOK'
    BY <1>1, <1>3 DEF BufInv, TypeOK, Load
  <2>2. /\ pc[p] = "load" /\ pc'[p] = "increment" /\ pos'[p] = fWritePos
        /\ UNCHANGED <<fBuffer, fWritePos, fReadPos, msg, w, popping, sent, received>>
    BY <1>1, <1>3 DEF Load, BufInv, TypeOK
  <2>3. from' = from /\ last(p)' = last(p) /\ \A k \in Nat : At(k)' = At(k)
    BY <2>2 DEF from, last, At, pos2index
  <2>4. PosInv(p)'
    BY <2>2, <2>3, Bounds DEF BufInv, PosInv, pos2index
  <2>5. OrderInv(p)'
    BY <2>2, <2>3, Bounds, OrderKept
  <2> QED
    BY <2>1, <2>4, <2>5 DEF BufInv
<1>4. CASE Increment(p)
  <2>1. /\ pc[p] = "increment" /\ pc'[p] = "idle" /\ fWritePos' = fWritePos + 1
        /\ UNCHANGED <<fBuffer, fReadPos, msg, w, pos, popping, sent, received>>
    BY <1>1, <1>4 DEF Increment, BufInv, TypeOK, PosInv, locals
  <2>2. TypeOK'
    BY <1>4, <2>1, Bounds DEF BufInv, TypeOK, Increment
  <2>3. PosInv(p)'
    BY <2>1, Bounds DEF BufInv, PosInv, pos2index
  <2>4. /\ from' = from /\ last(p) = sent - 1 /\ last(p)' = sent
        /\ \A k \in Nat : At(k)' = At(k)
    BY <2>1 DEF from, last, At, pos2index
  <2>5. At(fWritePos) = sent /\ sent >= 1
    BY <2>1 DEF BufInv, PosInv
  <2>6. OrderInv(p)'
    BY <2>1, <2>4, <2>5, OrderExtended
  <2> QED
    BY <2>2, <2>3, <2>6 DEF BufInv
<1>5. CASE Terminate(p)
  <2>1. /\ pc[p] # "idle" /\ pc'[p] = "idle" /\ stopped' = stopped \union {msg[p]}
        /\ UNCHANGED <<fBuffer, fWritePos, fReadPos, locals, popping, sent, lost, received>>
    BY <1>1, <1>5 DEF Terminate, BufInv, TypeOK
  <2>2. msg[p] = sent /\ sent \in 1..MaxPush
    BY <2>1, Bounds DEF BufInv, TypeOK, PosInv
  <2>3. TypeOK'
    BY <1>5, <2>1, <2>2 DEF BufInv, TypeOK, Terminate, locals
  <2>4. /\ from' = from /\ last(p) = sent - 1 /\ last(p)' = sent
        /\ \A k \in Nat : At(k)' = At(k)
    BY <2>1 DEF from, last, At, pos2index
  <2>5. PosInv(p)'
    BY <2>1, Bounds DEF BufInv, PosInv, pos2index
  <2>6. OrderInv(p)'
    BY <2>1, <2>4, Bounds, OrderKept
  <2> QED
    BY <2>3, <2>5, <2>6 DEF BufInv
<1> QED
  BY <1>2, <1>3, <1>4, <1>5

LEMMA ReadKeeps ==
  ASSUME NEW p, OneProducer(p), BufInv(p), Take \/ Fetch
  PROVE  BufInv(p)'
<1>0. /\ Size \in Nat /\ from \in Nat /\ fReadPos \in Nat /\ fWritePos \in Nat
      /\ last(p) \in Int /\ \A k \in Nat : At(k) \in 0..MaxPush
      /\ MaxPush \in Nat
  BY Bounds
<1>1. CASE Take
  <2>1. /\ popping = -1 /\ fReadPos < fWritePos /\ fReadPos' = fReadPos + 1
        /\ popping' = pos2index(fReadPos) /\ pos2index(fReadPos) \in 0..Size-1
        /\ UNCHANGED <<fBuffer, fWritePos, pc, locals, sent, lost, stopped, received>>
    BY <1>0, <1>1, Indexes DEF Take
  <2>2. TypeOK'
    <3>1. fReadPos' \in Nat /\ popping' \in -1..Size-1
      BY <1>0, <2>1
    <3> QED
      BY <2>1, <3>1 DEF BufInv, TypeOK, locals
  <2>3. fReadPos' - 1 = fReadPos /\ popping' # -1
    BY <1>0, <2>1
  <2>4. from' = from /\ last(p)' = last(p) /\ \A k \in Nat : At(k)' = At(k)
    BY <2>1, <2>3 DEF from, last, At, pos2index
  <2>5. PosInv(p)'
    BY <1>0, <2>1, <2>3 DEF BufInv, PosInv, locals, pos2index, At
  <2>6. OrderInv(p)'
    BY <1>0, <2>1, <2>4, OrderKept
  <2> QED
    BY <2>2, <2>5, <2>6 DEF BufInv
<1>2. CASE Fetch
  <2>1. /\ popping # -1 /\ popping' = -1 /\ received' = Append(received, fBuffer[popping])
        /\ UNCHANGED <<fBuffer, fWritePos, fReadPos, pc, locals, sent, lost, stopped>>
    BY <1>2 DEF Fetch
  <2>2. /\ fReadPos = from + 1 /\ fBuffer[popping] = At(from) /\ from < fWritePos
    BY <1>0, <2>1, Bounds DEF At
  <2>3. /\ received \in Seq(0..MaxPush) /\ received' \in Seq(0..MaxPush)
        /\ Len(received') = Len(received) + 1 /\ Len(received) \in Nat
        /\ \A i \in 1..Len(received) : received'[i] = received[i] /\ received[i] \in Int
        /\ received'[Len(received) + 1] = At(from)
    <3>1. received \in Seq(0..MaxPush) /\ At(from) \in 0..MaxPush
      BY <1>0 DEF BufInv, TypeOK
    <3>2. received' = Append(received, At(from))
      BY <2>1, <2>2
    <3>3. Len(received) \in Nat /\ \A i \in 1..Len(received) : received[i] \in Int
      BY Received DEF BufInv
    <3> QED
      BY <3>1, <3>2, <3>3, AppendProperties
  <2>4. TypeOK'
    <3>1. popping' \in -1..Size-1
      BY <1>0, <2>1 DEF BufInv, TypeOK
    <3> QED
      BY <2>1, <2>3, <3>1 DEF BufInv, TypeOK, locals
  <2>5. from' = from + 1 /\ last(p)' = last(p) /\ \A k \in Nat : At(k)' = At(k)
    BY <2>1, <2>2 DEF from, last, At, pos2index
  <2>6. PosInv(p)'
    BY <1>0, <2>1 DEF BufInv, PosInv, locals, pos2index, At
  <2>7. /\ \A k \in from..fWritePos-1 : 1 <= At(k) /\ At(k) <= last(p)
        /\ \A j, k \in from..fWritePos-1 : j < k => At(j) < At(k)
        /\ \A i \in 1..Len(received) :
             /\ 1 <= received[i] /\ received[i] <= last(p)
             /\ \A k \in from..fWritePos-1 : received[i] < At(k)
        /\ \A i, j \in 1..Len(received) : i < j => received[i] < received[j]
    BY DEF BufInv, OrderInv
  <2>8. \A k \in from'..fWritePos'-1 : k \in from..fWritePos-1 /\ from < k /\ k \in Nat
    BY <1>0, <2>1, <2>5
  <2>9. from \in from..fWritePos-1
    BY <1>0, <2>2
  <2>10. \A i \in 1..Len(received') : i \in 1..Len(received) \/ i = Len(received) + 1
    BY <2>3
  <2>11. ASSUME NEW i \in 1..Len(received')
         PROVE  /\ 1 <= received'[i] /\ received'[i] <= last(p)'
                /\ \A k \in from'..fWritePos'-1 : received'[i] < At(k)'
    BY <2>3, <2>5, <2>7, <2>8, <2>9, <2>10
  <2>12. ASSUME NEW i \in 1..Len(received'), NEW j \in 1..Len(received'), i < j
         PROVE  received'[i] < received'[j]
    <3>1. i \in 1..Len(received)
      BY <2>3, <2>12
    <3> QED
      BY <2>3, <2>7, <2>9, <2>10, <2>12, <3>1
  <2>13. /\ \A k \in from'..fWritePos'-1 : 1 <= At(k)' /\ At(k)' <= last(p)'
         /\ \A j, k \in from'..fWritePos'-1 : j < k => At(j)' < At(k)'
    BY <2>5, <2>7, <2>8
  <2>14. OrderInv(p)'
    BY <2>11, <2>12, <2>13 DEF OrderInv
  <2> QED
    BY <2>4, <2>6, <2>14 DEF BufInv
<1> QED
  BY <1>1, <1>2

LEMMA BufStep ==
  ASSUME NEW p, OneProducer(p), BufInv(p), [Next]_vars
  PROVE  BufInv(p)'
<1>1. CASE \E q \in Producers : Write(q) \/ Terminate(q)
  <2>1. Write(p) \/ Terminate(p)
    BY <1>1 DEF OneProducer
  <2> QED
    BY <2>1, TestKeeps, WriteKeeps DEF Write
<1>2. CASE Take \/ Fetch
  BY <1>2, ReadKeeps
<1>3. CASE UNCHANGED vars
  BY <1>3 DEF vars, BufInv, TypeOK, PosInv, OrderInv, from, At, last, pos2index
<1> QED
  BY <1>1, <1>2, <1>3 DEF Next, Done

-----------------------------------------------------------------------------
(* The bounded queue.                                                      *)

LEMMA Ended ==
  ASSUME NEW p, OneProducer(p), BufInv(p)
  PROVE  ended = last(p)
<1>1. sent \in Nat
  BY Bounds
<1>2. CASE pc[p] = "idle"
  <2>1. {q \in Producers : pc[q] # "idle"} = {}
    BY <1>2 DEF OneProducer
  <2> QED
    BY <1>1, <1>2, <2>1, FS_EmptySet DEF ended, last
<1>3. CASE pc[p] # "idle"
  <2>1. {q \in Producers : pc[q] # "idle"} = {p}
    BY <1>3 DEF OneProducer
  <2> QED
    BY <1>1, <1>3, <2>1, FS_Singleton DEF ended, last
<1> QED
  BY <1>2, <1>3

LEMMA Pending ==
  ASSUME NEW p, OneProducer(p), BufInv(p)
  PROVE  /\ pending = [i \in 1..fWritePos - from |-> At(from + i - 1)]
         /\ pending \in Seq(Nat) /\ Len(pending) = fWritePos - from
         /\ fWritePos - from \in Nat
<1>1. /\ from \in Nat /\ fWritePos \in Nat /\ fWritePos - from \in Nat
      /\ \A k \in Nat : At(k) \in Nat
  BY Bounds
<1>2. pending = [i \in 1..fWritePos - from |-> At(from + i - 1)]
  BY DEF pending, from, At
<1>3. \A i \in 1..fWritePos - from : At(from + i - 1) \in Nat
  BY <1>1
<1> QED
  BY <1>1, <1>2, <1>3

\* What the queue of MessageFifo is in a state, and in the next one.
QueueIs(p) ==
  /\ ended = last(p)
  /\ pending = [i \in 1..fWritePos - from |-> At(from + i - 1)]
  /\ pending \in Seq(Nat) /\ Len(pending) = fWritePos - from
  /\ fWritePos - from \in Nat

LEMMA Queue ==
  ASSUME NEW p, OneProducer(p)
  PROVE  (BufInv(p) => QueueIs(p)) /\ (BufInv(p) => QueueIs(p))'
<1>1. BufInv(p) => QueueIs(p)
  BY Ended, Pending DEF QueueIs
<1> QED
  BY <1>1, PTL

\* A step that moves neither end of the queue keeps it.
LEMMA QueueKept ==
  ASSUME NEW p, OneProducer(p), BufInv(p), BufInv(p)',
         from' = from, fWritePos' = fWritePos,
         \A k \in from..fWritePos-1 : At(k)' = At(k)
  PROVE  pending' = pending
<1>1. QueueIs(p) /\ QueueIs(p)' /\ from \in Nat /\ fWritePos \in Nat
  BY Queue, Bounds
<1>2. \A i \in 1..fWritePos - from : from + i - 1 \in from..fWritePos-1
  BY <1>1
<1> QED
  BY <1>1, <1>2 DEF QueueIs

LEMMA Implements ==
  ASSUME NEW p, OneProducer(p), BufInv(p), [Next]_vars
  PROVE  [Fifo!Next]_(Fifo!vars)
<1>0. BufInv(p)'
  BY BufStep
<1>1. /\ QueueIs(p) /\ QueueIs(p)'
      /\ from \in Nat /\ fReadPos \in Nat /\ fWritePos \in Nat /\ sent \in Nat
      /\ Size \in Nat /\ MaxPush \in Nat /\ p \in Producers
      /\ from <= fReadPos /\ fReadPos <= from + 1
      /\ pc[p] \in {"idle", "store", "load", "increment"}
      /\ pc \in [Producers -> {"idle", "store", "load", "increment"}]
  <2>1. QueueIs(p) /\ QueueIs(p)'
    BY <1>0, Queue
  <2>2. /\ from \in Nat /\ fReadPos \in Nat /\ fWritePos \in Nat /\ sent \in Nat
        /\ Size \in Nat /\ MaxPush \in Nat /\ p \in Producers
        /\ from <= fReadPos /\ fReadPos <= from + 1
    BY Bounds
  <2>3. pc \in [Producers -> {"idle", "store", "load", "increment"}]
    BY DEF BufInv, TypeOK
  <2> QED
    BY <2>1, <2>2, <2>3
<1>2. CASE Test(p)
  <2>1. /\ pc[p] = "idle" /\ sent < MaxPush /\ sent' = sent + 1
        /\ from' = from /\ \A k \in Nat : At(k)' = At(k)
        /\ UNCHANGED <<fWritePos, fReadPos, received, stopped>>
    BY <1>2 DEF Test, from, At, pos2index
  <2>2. pending' = pending
    BY <1>0, <1>1, <2>1, QueueKept
  <2>3. CASE full
    <3>1. pc' = pc /\ lost' = lost \union {sent + 1}
      BY <1>2, <2>3 DEF Test
    <3>2. ended = sent /\ ended' = ended + 1
      BY <1>1, <2>1, <3>1 DEF QueueIs, last
    <3>3. Len(pending) >= Size - 1
      <4>1. fWritePos - fReadPos = Size - 1
        BY <2>3, FullTest, Bounds
      <4> QED
        BY <1>1, <4>1 DEF QueueIs
    <3>4. Fifo!Lose
      BY <2>1, <2>2, <3>1, <3>2, <3>3 DEF Fifo!Lose
    <3> QED
      BY <3>4 DEF Fifo!Next
  <2>4. CASE ~full
    <3>1. pc'[p] = "store" /\ lost' = lost
      BY <1>1, <1>2, <2>4 DEF Test
    <3>2. ended' = ended
      BY <1>1, <2>1, <3>1 DEF QueueIs, last
    <3> QED
      BY <2>1, <2>2, <3>1, <3>2 DEF Fifo!vars
  <2> QED
    BY <2>3, <2>4
<1>3. CASE Store(p) \/ Load(p)
  <2>1. /\ pc[p] # "idle" /\ pc'[p] # "idle" /\ from' = from
        /\ UNCHANGED <<fWritePos, sent, received, lost, stopped>>
    BY <1>1, <1>3 DEF Store, Load, from
  <2>2. \A k \in from..fWritePos-1 : At(k)' = At(k)
    <3>1. CASE Store(p)
      BY <3>1, StoreApart
    <3>2. CASE Load(p)
      BY <3>2 DEF Load, At, pos2index
    <3> QED
      BY <1>3, <3>1, <3>2
  <2>3. pending' = pending /\ ended' = ended
    BY <1>0, <1>1, <2>1, <2>2, QueueKept DEF QueueIs, last
  <2> QED
    BY <2>1, <2>3 DEF Fifo!vars
<1>4. CASE Increment(p)
  <2>1. /\ pc[p] = "increment" /\ pc'[p] = "idle" /\ fWritePos' = fWritePos + 1
        /\ from' = from /\ \A k \in Nat : At(k)' = At(k)
        /\ UNCHANGED <<sent, received, lost, stopped>>
        /\ At(fWritePos) = sent /\ fWritePos - fReadPos <= Size - 2 /\ sent >= 1
    BY <1>1, <1>4 DEF Increment, BufInv, PosInv, from, At, pos2index
  <2>2. ended = sent - 1 /\ ended' = ended + 1 /\ sent <= MaxPush
    BY <1>1, <2>1 DEF QueueIs, last, BufInv, TypeOK
  <2>3. Len(pending) <= Size - 1
    BY <1>1, <2>1 DEF QueueIs
  <2>4. pending' = Append(pending, sent)
    <3> DEFINE n == fWritePos - from
    <3>1. /\ pending \in Seq(Nat) /\ Len(pending) = n /\ n \in Nat
          /\ pending' \in Seq(Nat) /\ Len(pending') = n + 1
          /\ pending = [i \in 1..n |-> At(from + i - 1)]
          /\ pending' = [i \in 1..n + 1 |-> At(from + i - 1)']
      BY <1>1, <2>1 DEF QueueIs
    <3>2. /\ Append(pending, sent) \in Seq(Nat)
          /\ Len(Append(pending, sent)) = n + 1
          /\ \A i \in 1..n : Append(pending, sent)[i] = pending[i]
          /\ Append(pending, sent)[n + 1] = sent
      BY <1>1, <3>1, AppendProperties
    <3>3. \A i \in 1..n + 1 : from + i - 1 \in Nat /\ (i \in 1..n \/ i = n + 1)
      BY <1>1, <3>1
    <3>4. from + (n + 1) - 1 = fWritePos
      BY <1>1
    <3> HIDE DEF n
    <3>5. \A i \in 1..n + 1 : pending'[i] = Append(pending, sent)[i]
      BY <2>1, <3>1, <3>2, <3>3, <3>4
    <3> QED
      BY <3>1, <3>2, <3>5, SeqEqual
  <2>5. Fifo!Push
    BY <1>1, <2>1, <2>2, <2>3, <2>4 DEF Fifo!Push
  <2> QED
    BY <2>5 DEF Fifo!Next
<1>5. CASE Terminate(p)
  <2>1. /\ pc[p] # "idle" /\ pc'[p] = "idle" /\ from' = from
        /\ stopped' = stopped \union {sent} /\ \A k \in Nat : At(k)' = At(k)
        /\ UNCHANGED <<fWritePos, sent, received, lost>>
    BY <1>1, <1>5 DEF Terminate, BufInv, PosInv, from, At, pos2index
  <2>2. pending' = pending
    BY <1>0, <1>1, <2>1, QueueKept
  <2>3. ended = sent - 1 /\ ended' = ended + 1 /\ sent <= MaxPush
    BY <1>1, <2>1 DEF QueueIs, last, BufInv, TypeOK
  <2>4. Fifo!Stop
    BY <1>1, <2>1, <2>2, <2>3 DEF Fifo!Stop
  <2> QED
    BY <2>4 DEF Fifo!Next
<1>6. CASE Take
  <2>1. /\ popping = -1 /\ popping' = pos2index(fReadPos) /\ popping' # -1
        /\ fReadPos' = fReadPos + 1 /\ \A k \in Nat : At(k)' = At(k)
        /\ UNCHANGED <<fWritePos, pc, sent, received, lost, stopped>>
    BY <1>1, <1>6, Indexes DEF Take, At, pos2index
  <2>2. from' = from
    BY <1>1, <2>1 DEF from
  <2>3. pending' = pending /\ ended' = ended
    BY <1>0, <1>1, <2>1, <2>2, QueueKept DEF QueueIs, last
  <2> QED
    BY <2>1, <2>3 DEF Fifo!vars
<1>7. CASE Fetch
  <2>1. /\ popping # -1 /\ popping' = -1 /\ received' = Append(received, fBuffer[popping])
        /\ \A k \in Nat : At(k)' = At(k)
        /\ UNCHANGED <<fWritePos, fReadPos, pc, sent, lost, stopped>>
    BY <1>7 DEF Fetch, At, pos2index
  <2>2. /\ fBuffer[popping] = At(from) /\ from' = from + 1 /\ from < fWritePos
    BY <1>1, <2>1, Bounds DEF At, from
  <2> DEFINE n == fWritePos - from
  <2>3. /\ pending \in Seq(Nat) /\ Len(pending) = n /\ n \in Nat /\ n >= 1
        /\ pending' \in Seq(Nat) /\ Len(pending') = n - 1
        /\ pending = [i \in 1..n |-> At(from + i - 1)]
        /\ pending' = [i \in 1..n - 1 |-> At(from + i - 1)']
    <3>1. /\ pending \in Seq(Nat) /\ Len(pending) = n /\ n \in Nat
          /\ pending = [i \in 1..n |-> At(from + i - 1)]
      BY <1>1 DEF QueueIs
    <3>2. fWritePos' - from' = n - 1 /\ n >= 1
      BY <1>1, <2>1, <2>2
    <3>3. /\ pending' \in Seq(Nat) /\ Len(pending') = fWritePos' - from'
          /\ pending' = [i \in 1..fWritePos' - from' |-> At(from + i - 1)']
      BY <1>1 DEF QueueIs
    <3> QED
      BY <3>1, <3>2, <3>3
  <2>4. \A i \in 1..n - 1 : /\ from' + i - 1 = from + (i + 1) - 1
                            /\ i + 1 \in 1..n /\ from + (i + 1) - 1 \in Nat
    BY <1>1, <2>2, <2>3
  <2>5. pending # <<>> /\ Head(pending) = At(from)
    <3>1. from + 1 - 1 = from /\ 1 \in 1..n
      BY <1>1, <2>3
    <3>2. pending[1] = At(from)
      BY <2>3, <3>1
    <3>3. pending # <<>>
      BY <2>3
    <3> QED
      BY <2>3, <3>2, <3>3, HeadTailProperties
  <2>6. /\ Tail(pending) \in Seq(Nat) /\ Len(Tail(pending)) = n - 1
        /\ \A i \in 1..n - 1 : Tail(pending)[i] = pending[i + 1]
    BY <2>3, <2>5, HeadTailProperties
  <2> HIDE DEF n
  <2>7. \A i \in 1..n - 1 : pending'[i] = Tail(pending)[i]
    <3> TAKE i \in 1..n - 1
    <3>1. pending'[i] = At(from + i - 1)'
      BY <2>3
    <3>2. pending[i + 1] = At(from + (i + 1) - 1)
      BY <2>3, <2>4
    <3>3. At(from + i - 1)' = fBuffer'[pos2index(from + (i + 1) - 1)]
      BY <2>4 DEF At, pos2index
    <3>4. fBuffer' = fBuffer
      BY <1>7 DEF Fetch
    <3> QED
      BY <2>6, <3>1, <3>2, <3>3, <3>4 DEF At
  <2>8. pending' = Tail(pending)
    BY <2>3, <2>6, <2>7, SeqEqual
  <2>9. ended' = ended
    BY <1>1, <2>1 DEF QueueIs, last
  <2>10. Fifo!Pop
    BY <2>1, <2>2, <2>5, <2>8, <2>9 DEF Fifo!Pop
  <2> QED
    BY <2>10 DEF Fifo!Next
<1>8. CASE UNCHANGED vars
  BY <1>8 DEF vars, Fifo!vars, pending, ended, pos2index
<1>9. \A q \in Producers : q = p
  BY DEF OneProducer
<1> QED
  BY <1>2, <1>3, <1>4, <1>5, <1>6, <1>7, <1>8, <1>9 DEF Next, Write, Done

-----------------------------------------------------------------------------
(* Theorems.                                                               *)

THEOREM BufInvariant ==
  ASSUME NEW p, OneProducer(p)
  PROVE  Spec => []BufInv(p)
<1>1. Init => BufInv(p)
  BY BufInit
<1>2. BufInv(p) /\ [Next]_vars => BufInv(p)'
  BY BufStep
<1> QED
  BY <1>1, <1>2, PTL DEF Spec

\* The types of the positions, the slots and the messages (MessageBuffer).
THEOREM BufTypes ==
  ASSUME NEW p, OneProducer(p)
  PROVE  Spec => []TypeOK
<1>1. BufInv(p) => TypeOK
  BY DEF BufInv
<1> QED
  BY <1>1, BufInvariant, PTL

\* With one thread that pushes, and no push at the wrap of the full test, the writer
\* never passes the reader (MessageBuffer::write), whatever the size.
THEOREM WriterBehind ==
  ASSUME NEW p, OneProducer(p)
  PROVE  Spec => []NoOverrun
<1>1. BufInv(p) => NoOverrun
  BY Bounds DEF NoOverrun, available
<1> QED
  BY <1>1, BufInvariant, PTL

\* With one thread that pushes, which may be terminated in the middle of a push, each
\* read returns a message that was stored and not yet read (MessageBuffer::read).
THEOREM FreshReads ==
  ASSUME NEW p, OneProducer(p)
  PROVE  Spec => []NoStaleFetch
<1>1. BufInv(p) => NoStaleFetch
  <2> SUFFICES ASSUME BufInv(p), NEW i \in 1..Len(received)
               PROVE  received[i] # 0 /\ \A j \in 1..i-1 : received[j] # received[i]
    BY DEF NoStaleFetch
  <2>1. Len(received) \in Nat /\ \A j \in 1..Len(received) : received[j] \in Int
    BY Received DEF BufInv
  <2>2. received[i] >= 1
    BY <2>1 DEF BufInv, OrderInv
  <2>3. ASSUME NEW j \in 1..i-1
        PROVE  received[j] # received[i]
    <3>1. j \in 1..Len(received) /\ j < i
      BY <2>1
    <3>2. received[j] < received[i]
      BY <3>1 DEF BufInv, OrderInv
    <3> QED
      BY <2>1, <3>1, <3>2
  <2> QED
    BY <2>1, <2>2, <2>3
<1> QED
  BY <1>1, BufInvariant, PTL

\* The steps of the buffer are those of a bounded queue of Size - 1 messages, or change
\* nothing that the queue shows: the safety part of FifoSpec.
THEOREM BoundedQueue ==
  ASSUME NEW p, OneProducer(p)
  PROVE  Spec => Fifo!Init /\ [][Fifo!Next]_(Fifo!vars)
<1>1. Init => Fifo!Init
  <2> SUFFICES ASSUME Init PROVE Fifo!Init
    OBVIOUS
  <2>1. BufInv(p)
    BY BufInit
  <2>2. QueueIs(p)
    BY <2>1, Queue
  <2>3. from = 0 /\ fWritePos = 0 /\ last(p) = 0
    BY DEF Init, from, last, OneProducer
  <2>4. Len(pending) = 0 /\ pending \in Seq(Nat) /\ ended = 0
    BY <2>2, <2>3 DEF QueueIs
  <2>5. pending = <<>>
    BY <2>4, EmptySeq
  <2> QED
    BY <2>4, <2>5 DEF Init, Fifo!Init
<1>2. BufInv(p) /\ [Next]_vars => [Fifo!Next]_(Fifo!vars)
  BY Implements
<1> QED
  BY <1>1, <1>2, BufInvariant, PTL DEF Spec
=============================================================================
