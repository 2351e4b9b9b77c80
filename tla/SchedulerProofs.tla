-------------------------- MODULE SchedulerProofs --------------------------
(***************************************************************************)
(* Proofs about the scheduler of the delayed messages: every element is    *)
(* filed where the clock of its date finds it, and the four levels of      *)
(* lists implement a plain list of dated elements (Agenda).                *)
(*                                                                         *)
(* A step of a level changes one unit of the current date.  So the clock   *)
(* is followed level by level, with the units that are already those of    *)
(* the new date.                                                           *)
(*                                                                         *)
(* Then the player: the steps of a script that is loaded are steps of the  *)
(* scheduler, so what is proved of it holds of the player, and for each    *)
(* date what was sent, followed by what waits, is the part of the script   *)
(* that was played and is due at this date.                                *)
(***************************************************************************)
EXTENDS Player, ListProofs

-----------------------------------------------------------------------------
(* Arithmetic.                                                             *)

LEMMA TimesMonotonic ==
  ASSUME NEW b \in Nat, NEW x \in Int, NEW y \in Int, x <= y
  PROVE  b * x <= b * y
OBVIOUS

LEMMA DivMod ==
  ASSUME NEW a \in Nat, NEW b \in Nat \ {0}
  PROVE  /\ a \div b \in Nat /\ a % b \in 0..b - 1
         /\ a = b * (a \div b) + (a % b)
OBVIOUS

LEMMA DivUnique ==
  ASSUME NEW a \in Nat, NEW b \in Nat \ {0}, NEW q \in Nat, b * q <= a, a < b * q + b
  PROVE  a \div b = q
<1>1. a \div b \in Nat /\ a % b \in 0..b - 1 /\ a = b * (a \div b) + (a % b)
  BY DivMod
<1>2. CASE a \div b <= q - 1
  <2>1. b * (a \div b) <= b * (q - 1)
    BY <1>1, <1>2, TimesMonotonic
  <2> QED
    BY <1>1, <2>1
<1>3. CASE a \div b >= q + 1
  <2>1. b * (q + 1) <= b * (a \div b)
    BY <1>1, <1>3, TimesMonotonic
  <2> QED
    BY <1>1, <2>1
<1> QED
  BY <1>1, <1>2, <1>3

LEMMA DivModUnique ==
  ASSUME NEW a \in Nat, NEW b \in Nat \ {0}, NEW q \in Nat, NEW r \in 0..b - 1, a = b * q + r
  PROVE  a \div b = q /\ a % b = r
<1>1. a \div b = q
  BY DivUnique
<1>2. a = b * (a \div b) + (a % b) /\ a % b \in 0..b - 1
  BY DivMod
<1> DEFINE x == b * q
           m == a % b
<1>3. x \in Int /\ m \in Int /\ a = x + r /\ a = x + m
  <2>1. b * (a \div b) = x
    BY <1>1
  <2>2. a = x + m
    BY <1>2, <2>1
  <2> QED
    BY <1>2, <2>2
<1> HIDE DEF x, m
<1>4. m = r
  BY <1>3
<1> QED
  BY <1>1, <1>4 DEF m

LEMMA DivDiv ==
  ASSUME NEW a \in Nat, NEW b \in Nat \ {0}, NEW c \in Nat \ {0}
  PROVE  (a \div b) \div c = a \div (b * c)
<1> DEFINE p == a \div b
           q == p \div c
<1>1. p \in Nat /\ a % b \in 0..b - 1 /\ a = b * p + (a % b)
  BY DivMod
<1>2. q \in Nat /\ p % c \in 0..c - 1 /\ p = c * q + (p % c)
  BY <1>1, DivMod
<1> HIDE DEF p, q
<1>3. b * (p % c) <= b * (c - 1) /\ 0 <= b * (p % c)
  <2> DEFINE r == p % c
  <2>1. r \in Int /\ 0 <= r /\ r <= c - 1
    BY <1>2
  <2> HIDE DEF r
  <2>2. b * r <= b * (c - 1) /\ b * 0 <= b * r
    BY <2>1, TimesMonotonic
  <2> QED
    BY <2>2 DEF r
<1>4. b * c \in Nat \ {0}
  OBVIOUS
<1>5. (b * c) * q <= a /\ a < (b * c) * q + b * c
  <2>1. b * p = (b * c) * q + b * (p % c)
    BY <1>2
  <2>2. b * (c - 1) = b * c - b
    OBVIOUS
  <2> DEFINE x == (b * c) * q
             y == b * (p % c)
             z == b * c
             w == b * p
  <2>3. x \in Int /\ y \in Int /\ z \in Int /\ w \in Int
    BY <1>2
  <2>4. y <= z - b /\ 0 <= y /\ w = x + y
    BY <1>3, <2>1, <2>2
  <2>5. a = w + (a % b)
    BY <1>1
  <2> HIDE DEF x, y, z, w
  <2>6. x <= a /\ a < x + z
    BY <1>1, <2>3, <2>4, <2>5
  <2> QED
    BY <2>6 DEF x, z
<1> QED
  BY <1>2, <1>4, <1>5, DivUnique DEF p, q

\* The equations of the units.
LEMMA Units ==
  /\ Unit[0] = 1
  /\ \A k \in 0..4 : Unit[k] \in Nat \ {0}
  /\ \A k \in 0..3 : Unit[k + 1] = Unit[k] * Base
<1> DEFINE Step(f, k) == IF k = 0 THEN 1 ELSE f[k - 1] * Base
           S == Nat \ {0}
           step == [k \in 1..4 |-> [u \in S |-> u * Base]]
<1>1. \A k \in 1..4, u \in S : step[k][u] = u * Base /\ u * Base \in S
  BY BaseAssumption
<1>2. PICK g \in [0..4 -> S] : g[0] = 1 /\ \A k \in 1..4 : g[k] = step[k][g[k - 1]]
  <2>1. 1 \in S /\ 4 \in Nat /\ \A k \in 1..4 : \A u \in S : step[k][u] \in S
    BY <1>1
  <2> HIDE DEF step, S
  <2>2. \E g \in [0..4 -> S] : Iterates(g, 4, 1, step)
    BY <2>1, Recursion
  <2> QED
    BY <2>2 DEF Iterates
<1> HIDE DEF step
<1>3. \A k \in 1..4 : k - 1 \in 0..4 /\ k \in 0..4
  OBVIOUS
<1>4. \A k \in 1..4 : g[k] = g[k - 1] * Base
  BY <1>1, <1>2, <1>3
<1>5. g = [k \in 0..4 |-> Step(g, k)]
  <2>1. ASSUME NEW k \in 0..4 PROVE g[k] = Step(g, k)
    <3>1. CASE k = 0
      BY <1>2, <3>1
    <3>2. CASE k # 0
      <4>1. k \in 1..4
        BY <3>2
      <4> QED
        BY <1>4, <3>2, <4>1
    <3> QED
      BY <3>1, <3>2
  <2> HIDE DEF Step
  <2> QED
    BY <2>1
<1>6. Unit = [k \in 0..4 |-> Step(Unit, k)]
  BY <1>5 DEF Unit
<1>7. \A k \in 0..4 : Unit[k] = Step(Unit, k)
  <2> HIDE DEF Step
  <2> QED
    BY <1>6
<1>8. Unit[0] = 1
  BY <1>7
<1>9. \A k \in 0..3 : Unit[k + 1] = Unit[k] * Base
  <2> SUFFICES ASSUME NEW k \in 0..3 PROVE Unit[k + 1] = Unit[k] * Base
    OBVIOUS
  <2>1. k + 1 \in 0..4 /\ k + 1 # 0 /\ (k + 1) - 1 = k
    OBVIOUS
  <2> QED
    BY <1>7, <2>1
<1>10. \A x \in S : x * Base \in S
  BY BaseAssumption
<1>11. Unit[1] \in S /\ Unit[2] \in S /\ Unit[3] \in S /\ Unit[4] \in S /\ Unit[0] \in S
  <2>1. Unit[0] \in S
    BY <1>8
  <2>2. Unit[1] = Unit[0] * Base /\ Unit[2] = Unit[1] * Base
        /\ Unit[3] = Unit[2] * Base /\ Unit[4] = Unit[3] * Base
    <3>1. 0 \in 0..3 /\ 1 \in 0..3 /\ 2 \in 0..3 /\ 3 \in 0..3
          /\ 0 + 1 = 1 /\ 1 + 1 = 2 /\ 2 + 1 = 3 /\ 3 + 1 = 4
      OBVIOUS
    <3> QED
      BY <1>9, <3>1
  <2> HIDE DEF S
  <2> QED
    BY <1>10, <2>1, <2>2
<1> QED
  BY <1>8, <1>9, <1>11

-----------------------------------------------------------------------------
(* The units of a date: U(date, k) is the date without its k first bytes.  *)

U(date, k) == date \div Unit[k]

LEMMA UnitsOfDate ==
  ASSUME NEW d \in Nat
  PROVE  /\ U(d, 0) = d
         /\ \A k \in 0..4 : U(d, k) \in Nat
         /\ \A k \in Levels :
              /\ part(d, k) \in Bytes
              /\ U(d, k) = Base * U(d, k + 1) + part(d, k)
<1>1. ASSUME NEW k \in 0..4 PROVE U(d, k) \in Nat
  BY Units, DivMod DEF U
<1>2. U(d, 0) = d
  BY Units DEF U
<1>3. ASSUME NEW k \in Levels
      PROVE  part(d, k) \in Bytes /\ U(d, k) = Base * U(d, k + 1) + part(d, k)
  <2>1. k \in 0..4 /\ k + 1 \in 0..4 /\ k \in 0..3 /\ Base \in Nat \ {0}
    BY BaseAssumption DEF Levels
  <2>2. Unit[k] \in Nat \ {0} /\ Unit[k + 1] = Unit[k] * Base
    BY <2>1, Units
  <2>3. U(d, k) \div Base = U(d, k + 1)
    BY <2>1, <2>2, DivDiv DEF U
  <2>4. U(d, k) \in Nat
    BY <1>1, <2>1
  <2>5. U(d, k) % Base \in 0..Base - 1 /\ U(d, k) = Base * (U(d, k) \div Base) + (U(d, k) % Base)
    BY <2>1, <2>4, DivMod
  <2>6. part(d, k) = U(d, k) % Base
    BY DEF part, U
  <2> HIDE DEF U
  <2> QED
    BY <2>3, <2>5, <2>6 DEF Bytes
<1> QED
  BY <1>1, <1>2, <1>3

\* Nothing is above the top byte.
LEMMA LastUnit ==
  ASSUME NEW d \in 0..LastDate
  PROVE  d \in Nat /\ U(d, 4) = 0
<1>1. Unit[4] = Base * Base * Base * Base /\ Unit[4] \in Nat \ {0}
  <2>1. Unit[1] = Unit[0] * Base /\ Unit[2] = Unit[1] * Base
        /\ Unit[3] = Unit[2] * Base /\ Unit[4] = Unit[3] * Base
    <3>1. 0 \in 0..3 /\ 1 \in 0..3 /\ 2 \in 0..3 /\ 3 \in 0..3
          /\ 0 + 1 = 1 /\ 1 + 1 = 2 /\ 2 + 1 = 3 /\ 3 + 1 = 4
      OBVIOUS
    <3> QED
      BY <3>1, Units
  <2>2. Base \in Nat /\ Unit[0] * Base = Base
    BY Units, BaseAssumption
  <2> QED
    BY <2>1, <2>2, Units
<1>2. d \in Nat /\ d < Unit[4]
  BY <1>1, LastDateAssumption, BaseAssumption
<1>3. Unit[4] * 0 <= d /\ d < Unit[4] * 0 + Unit[4]
  BY <1>1, <1>2
<1> QED
  BY <1>1, <1>2, <1>3, DivUnique DEF U

LEMMA UnitMonotonic ==
  ASSUME NEW c \in Nat, NEW d \in Nat, NEW k \in 0..4, U(c, k) < U(d, k)
  PROVE  c < d
<1> DEFINE u == Unit[k]
           x == c \div u
           y == d \div u
<1>1. u \in Nat \ {0}
  BY Units
<1> HIDE DEF u
<1>2. x \in Nat /\ c % u \in 0..u - 1 /\ c = u * x + (c % u)
  BY <1>1, DivMod
<1>3. y \in Nat /\ d % u \in 0..u - 1 /\ d = u * y + (d % u)
  BY <1>1, DivMod
<1>4. x + 1 <= y
  BY <1>2, <1>3 DEF U, u
<1> HIDE DEF x, y
<1>5. u * (x + 1) <= u * y
  BY <1>1, <1>2, <1>3, <1>4, TimesMonotonic
<1>6. u * (x + 1) = u * x + u
  BY <1>1, <1>2
<1> DEFINE p == u * x
           q == u * y
           m == c % u
           n == d % u
<1>7. p \in Int /\ q \in Int /\ p + u <= q /\ c = p + m /\ d = q + n /\ m < u /\ 0 <= n
      /\ m \in Int /\ n \in Int
  BY <1>1, <1>2, <1>3, <1>5, <1>6
<1> HIDE DEF p, q, m, n
<1> QED
  BY <1>1, <1>7

\* The number of a byte and of the bytes above it.
LEMMA Digits ==
  ASSUME NEW x \in Nat, NEW y \in Nat, NEW p \in Bytes, NEW q \in Bytes
  PROVE  /\ Base * x + p \in Nat
         /\ x < y => Base * x + p < Base * y + q
         /\ x = y => (Base * x + p < Base * y + q <=> p < q)
         /\ Base * (x + 1) = Base * x + Base
         /\ Base * x + p = Base * y + q => x = y /\ p = q
<1> DEFINE a == Base * x
           b == Base * y
<1>1. Base \in Nat /\ p \in Int /\ 0 <= p /\ p < Base /\ q \in Int /\ 0 <= q /\ q < Base
  BY BaseAssumption DEF Bytes
<1>2. a \in Nat /\ b \in Nat /\ Base * (x + 1) = a + Base /\ Base * (y + 1) = b + Base
  BY <1>1
<1>3. x < y => a + Base <= b
  <2> HAVE x < y
  <2>1. Base * (x + 1) <= b
    BY <1>1, TimesMonotonic
  <2> QED
    BY <1>2, <2>1
<1>4. y < x => b + Base <= a
  <2> HAVE y < x
  <2>1. Base * (y + 1) <= a
    BY <1>1, TimesMonotonic
  <2> QED
    BY <1>2, <2>1
<1>5. x = y => a = b
  OBVIOUS
<1>6. x < y \/ y < x \/ x = y
  OBVIOUS
<1> HIDE DEF a, b
<1>7. /\ a + p \in Nat
      /\ x < y => a + p < b + q
      /\ x = y => (a + p < b + q <=> p < q)
      /\ Base * (x + 1) = a + Base
      /\ a + p = b + q => x = y /\ p = q
  BY <1>1, <1>2, <1>3, <1>4, <1>5, <1>6
<1> QED
  BY <1>7 DEF a, b

\* The next date has the same units, or the next ones when the bytes below overflow.
LEMMA Carry ==
  ASSUME NEW d \in Nat
  PROVE  /\ \A k \in 0..4 : U(d + 1, k) \in {U(d, k), U(d, k) + 1}
         /\ \A k \in Levels : U(d + 1, k + 1) = U(d, k + 1) + 1 =>
              /\ U(d + 1, k) = U(d, k) + 1
              /\ part(d, k) = Base - 1
         /\ \A k \in Levels : part(d + 1, k) = IF U(d + 1, k) = U(d, k) THEN part(d, k)
                                               ELSE (part(d, k) + 1) % Base
<1> DEFINE Next1(k) == U(d + 1, k) \in {U(d, k), U(d, k) + 1}
           Goes(k) == U(d + 1, k + 1) = U(d, k + 1) + 1 =>
                        U(d + 1, k) = U(d, k) + 1 /\ part(d, k) = Base - 1
           Byte(k) == part(d + 1, k) = IF U(d + 1, k) = U(d, k) THEN part(d, k)
                                       ELSE (part(d, k) + 1) % Base
<1>1. d + 1 \in Nat
  OBVIOUS
<1>2. Next1(0)
  BY <1>1, UnitsOfDate
<1>3. ASSUME NEW k \in Levels, Next1(k) PROVE Next1(k + 1) /\ Goes(k) /\ Byte(k)
  <2> DEFINE x == U(d, k)
             y == U(d, k + 1)
             p == part(d, k)
             z == U(d + 1, k + 1)
             q == part(d + 1, k)
             w == U(d + 1, k)
  <2>1. x \in Nat /\ y \in Nat /\ p \in Bytes /\ x = Base * y + p
    <3>1. k \in 0..4 /\ k + 1 \in 0..4
      BY DEF Levels
    <3> QED
      BY <3>1, UnitsOfDate
  <2>2. w \in Nat /\ z \in Nat /\ q \in Bytes /\ w = Base * z + q
    <3>1. k \in 0..4 /\ k + 1 \in 0..4
      BY DEF Levels
    <3> QED
      BY <1>1, <3>1, UnitsOfDate
  <2>3. w = x \/ w = x + 1
    BY <1>3
  <2> HIDE DEF x, y, z, p, q, w
  <2>4. Base \in Nat /\ Base >= 2 /\ p \in Int /\ 0 <= p /\ p <= Base - 1
    BY <2>1, BaseAssumption DEF Bytes
  <2>5. CASE w = x
    <3>1. y = z /\ p = q
      BY <2>1, <2>2, <2>5, Digits
    <3> QED
      BY <2>1, <2>5, <3>1 DEF x, y, z, p, q, w
  <2>6. CASE w = x + 1 /\ p # Base - 1
    <3>1. p + 1 \in Bytes /\ w = Base * y + (p + 1)
      BY <2>1, <2>4, <2>6 DEF Bytes
    <3>2. y = z /\ p + 1 = q
      BY <2>1, <2>2, <3>1, Digits
    <3>3. (p + 1) % Base = p + 1
      BY <2>4, <3>1 DEF Bytes
    <3> QED
      BY <2>1, <2>6, <3>2, <3>3 DEF x, y, z, p, q, w
  <2>7. CASE w = x + 1 /\ p = Base - 1
    <3>1. 0 \in Bytes /\ y + 1 \in Nat /\ Base * (y + 1) = Base * y + Base
      BY <2>1, <2>4, Digits DEF Bytes
    <3>2. w = Base * (y + 1) + 0
      BY <2>1, <2>4, <2>7, <3>1
    <3>3. z = y + 1 /\ q = 0
      BY <2>2, <3>1, <3>2, Digits
    <3>4. (p + 1) % Base = 0
      BY <2>4, <2>7
    <3> QED
      BY <2>1, <2>7, <3>3, <3>4 DEF x, y, z, p, q, w
  <2> QED
    BY <2>3, <2>5, <2>6, <2>7
<1> HIDE DEF Next1, Goes, Byte
<1>4. /\ Next1(0) /\ Next1(1) /\ Next1(2) /\ Next1(3) /\ Next1(4)
      /\ \A k \in Levels : Goes(k) /\ Byte(k)
  <2>1. 0 \in Levels /\ 1 \in Levels /\ 2 \in Levels /\ 3 \in Levels
        /\ 0 + 1 = 1 /\ 1 + 1 = 2 /\ 2 + 1 = 3 /\ 3 + 1 = 4
    BY DEF Levels
  <2>2. Next1(1) /\ Goes(0) /\ Byte(0)
    BY <1>2, <1>3, <2>1
  <2>3. Next1(2) /\ Goes(1) /\ Byte(1)
    BY <1>3, <2>1, <2>2
  <2>4. Next1(3) /\ Goes(2) /\ Byte(2)
    BY <1>3, <2>1, <2>3
  <2>5. Next1(4) /\ Goes(3) /\ Byte(3)
    BY <1>3, <2>1, <2>4
  <2> QED
    BY <1>2, <2>2, <2>3, <2>4, <2>5 DEF Levels
<1>5. \A k \in 0..4 : Next1(k)
  BY <1>4
<1> QED
  BY <1>4, <1>5 DEF Next1, Goes, Byte

-----------------------------------------------------------------------------
(* The lists of the levels.                                                *)

\* What a clock changes.
Wheels ==
  [buffer  : [Levels -> [{0, 1} -> [Bytes -> Seq(Elements)]]],
   current : [Levels -> {0, 1}],
   pos     : [1..3 -> Bytes]]

Dates == dateOf \in [Elements -> 0..LastDate \union {Never}]

\* Where an element of date d is, when v gives the units of the current date: c is the
\* current buffer of the level k.
Place(v, c, k, b, i, d) ==
  /\ part(d, k) = i
  /\ IF b = c
       THEN U(d, k + 1) = v[k + 1] /\ v[k] < U(d, k)
       ELSE k # 3 /\ U(d, k + 1) = v[k + 1] + 1 /\ U(d, k + 2) = v[k + 2]

FiledIn(s, v) ==
  \A k \in Levels, b \in {0, 1}, i \in Bytes : \A e \in Elems(s.buffer[k][b][i]) :
    dateOf[e] \in 0..LastDate /\ Place(v, s.current[k], k, b, i, dateOf[e])

\* The elements whose byte k is j.
Byte(k, j) == {e \in Elements : part(dateOf[e], k) = j}

\* The lists after the first elements of one were resorted.
Resorted(s, t, k, i, first, rest) ==
  /\ t.current = s.current /\ t.pos = s.pos
  /\ \A l \in Levels, b \in {0, 1}, j \in Bytes :
       t.buffer[l][b][j] =
         IF l = k /\ b = s.current[k] /\ j = i THEN rest
         ELSE IF l = k - 1 /\ b = 1 - s.current[k - 1]
           THEN Cat(s.buffer[l][b][j], Pick(first, Byte(k - 1, j)))
         ELSE s.buffer[l][b][j]

Buffers == [Levels -> [{0, 1} -> [Bytes -> Seq(Elements)]]]

LEMMA WheelsFields ==
  ASSUME NEW s \in Wheels
  PROVE  /\ s.buffer \in Buffers
         /\ s.current \in [Levels -> {0, 1}] /\ s.pos \in [1..3 -> Bytes]
         /\ s = [buffer |-> s.buffer, current |-> s.current, pos |-> s.pos]
BY DEF Wheels, Buffers

LEMMA Resort ==
  ASSUME NEW s \in Wheels, NEW k \in 1..3, NEW i \in Bytes, NEW n \in Nat
  PROVE  /\ resort(s, k, i, n) \in Wheels
         /\ \E first, rest \in Seq(Elements) :
              /\ Resorted(s, resort(s, k, i, n), k, i, first, rest)
              /\ s.buffer[k][s.current[k]][i] = Cat(first, rest)
              /\ Len(s.buffer[k][s.current[k]][i]) <= n => rest = <<>>
<1> DEFINE c == s.current[k]
           from == s.buffer[k][c][i]
           count == IF n < Len(from) THEN n ELSE Len(from)
           first == SubSeq(from, 1, count)
           rest == SubSeq(from, count + 1, Len(from))
           below == fAlternate(s.current, k - 1)
           At(j) == Pick(first, Byte(k - 1, j))
           taken == [s.buffer EXCEPT ![k][c][i] = rest]
           moved == [j \in Bytes |-> taken[k - 1][below][j] \o At(j)]
           B == [taken EXCEPT ![k - 1][below] = moved]
           t == resort(s, k, i, n)
           lists == Seq(Elements)
<1>1. k \in Levels /\ k - 1 \in Levels /\ k - 1 # 3 /\ k - 1 # k
  BY DEF Levels
<1>2. c \in {0, 1} /\ below \in {0, 1}
  <2>1. c \in {0, 1} /\ s.current[k - 1] \in {0, 1}
    BY <1>1, WheelsFields
  <2> QED
    BY <2>1, <1>1 DEF fAlternate
<1>3. s.buffer \in [Levels -> [{0, 1} -> [Bytes -> lists]]]
  BY WheelsFields DEF Buffers
<1>4. below = 1 - s.current[k - 1]
  BY <1>1 DEF fAlternate
<1>5. t = [s EXCEPT !.buffer = B]
  BY Zenon DEF resort, Byte
<1> HIDE DEF t, B
<1>6. t = [buffer |-> B, current |-> s.current, pos |-> s.pos]
  BY <1>5, WheelsFields
<1> HIDE DEF lists, c
<1>7. from \in lists
  BY <1>1, <1>2, <1>3
<1> HIDE DEF from
<1>8. count \in 0..Len(from) /\ (Len(from) <= n => count = Len(from)) /\ Len(from) \in Nat
  BY <1>7 DEF lists
<1> HIDE DEF count
<1>9. first \in lists /\ rest \in lists /\ from = first \o rest
  BY <1>7, <1>8, Split DEF lists
<1>10. Len(from) <= n => rest = <<>>
  BY <1>7, <1>8 DEF lists
<1> HIDE DEF first, rest
<1>11. \A j \in Bytes : At(j) \in lists
  BY <1>9, PickType DEF lists
<1> HIDE DEF At, below
<1>12. taken \in [Levels -> [{0, 1} -> [Bytes -> lists]]]
  BY <1>1, <1>2, <1>3, <1>9
<1>13. ASSUME NEW l \in Levels, NEW b \in {0, 1}, NEW j \in Bytes
       PROVE  taken[l][b][j] = IF l = k /\ b = c /\ j = i THEN rest ELSE s.buffer[l][b][j]
  <2>1. CASE l # k
    BY <1>3, <2>1
  <2>2. CASE l = k /\ b # c
    BY <1>2, <1>3, <2>2
  <2>3. CASE l = k /\ b = c
    BY <1>2, <1>3, <2>3
  <2> QED
    BY <2>1, <2>2, <2>3
<1> HIDE DEF taken
<1>14. \A j \in Bytes : moved[j] = s.buffer[k - 1][below][j] \o At(j)
  <2>1. \A j \in Bytes : taken[k - 1][below][j] = s.buffer[k - 1][below][j]
    BY <1>1, <1>2, <1>13
  <2> QED
    BY <2>1
<1>15. moved \in [Bytes -> lists]
  <2>1. \A j \in Bytes : taken[k - 1][below][j] \in lists
    BY <1>1, <1>2, <1>12
  <2>2. \A j \in Bytes : taken[k - 1][below][j] \o At(j) \in lists
    BY <1>11, <2>1 DEF lists
  <2> QED
    BY <2>2
<1> HIDE DEF moved
<1>16. B \in [Levels -> [{0, 1} -> [Bytes -> lists]]]
  BY <1>1, <1>2, <1>12, <1>15 DEF B
<1>17. ASSUME NEW l \in Levels, NEW b \in {0, 1}, NEW j \in Bytes
       PROVE  B[l][b][j] = IF l = k - 1 /\ b = below THEN moved[j] ELSE taken[l][b][j]
  <2>1. CASE l # k - 1
    BY <1>12, <2>1 DEF B
  <2>2. CASE l = k - 1
    BY <1>1, <1>12, <2>2 DEF B
  <2> QED
    BY <2>1, <2>2
<1>18. Resorted(s, t, k, i, first, rest)
  <2>1. t.current = s.current /\ t.pos = s.pos /\ t.buffer = B
    BY <1>6
  <2>2. ASSUME NEW l \in Levels, NEW b \in {0, 1}, NEW j \in Bytes
        PROVE  t.buffer[l][b][j] = IF l = k /\ b = c /\ j = i THEN rest
                                   ELSE IF l = k - 1 /\ b = below
                                     THEN s.buffer[l][b][j] \o At(j)
                                   ELSE s.buffer[l][b][j]
    <3>1. CASE l = k - 1 /\ b = below
      BY <1>1, <1>14, <1>17, <2>1, <3>1
    <3>2. CASE ~(l = k - 1 /\ b = below)
      BY <1>13, <1>17, <2>1, <3>2
    <3> QED
      BY <3>1, <3>2
  <2> QED
    BY <1>4, <2>1, <2>2 DEF Resorted, At, c, Cat
<1>19. t \in Wheels
  BY <1>6, <1>16, WheelsFields DEF Wheels, lists
<1> QED
  BY <1>9, <1>10, <1>18, <1>19 DEF t, from, c, lists, Cat

\* An element of a list after a resort was there before, or comes from the list that
\* was resorted.
Moved(s, t, k, i) ==
  \A l \in Levels, b \in {0, 1}, j \in Bytes : \A e \in Elems(t.buffer[l][b][j]) :
    \/ e \in Elems(s.buffer[l][b][j])
    \/ /\ l = k - 1 /\ b = 1 - s.current[l]
       /\ e \in Elems(s.buffer[k][s.current[k]][i])
       /\ part(dateOf[e], l) = j

LEMMA ResortElems ==
  ASSUME NEW s \in Wheels, NEW k \in 1..3, NEW i \in Bytes, NEW n \in Nat
  PROVE  /\ Moved(s, resort(s, k, i, n), k, i)
         /\ Len(s.buffer[k][s.current[k]][i]) <= n =>
              Elems(resort(s, k, i, n).buffer[k][s.current[k]][i]) = {}
<1> DEFINE t == resort(s, k, i, n)
           from == s.buffer[k][s.current[k]][i]
<1>1. PICK first, rest \in Seq(Elements) :
        /\ Resorted(s, t, k, i, first, rest)
        /\ from = Cat(first, rest)
        /\ Len(from) <= n => rest = <<>>
  BY Resort
<1>2. Elems(first) \subseteq Elems(from) /\ Elems(rest) \subseteq Elems(from)
  BY <1>1, CatType
<1> HIDE DEF t
<1>3. ASSUME NEW l \in Levels, NEW b \in {0, 1}, NEW j \in Bytes,
             NEW e \in Elems(t.buffer[l][b][j])
      PROVE  \/ e \in Elems(s.buffer[l][b][j])
             \/ /\ l = k - 1 /\ b = 1 - s.current[l]
                /\ e \in Elems(s.buffer[k][s.current[k]][i])
                /\ part(dateOf[e], l) = j
  <2> DEFINE S == Byte(k - 1, j)
             old == s.buffer[l][b][j]
  <2>1. t.buffer[l][b][j] = IF l = k /\ b = s.current[k] /\ j = i THEN rest
                            ELSE IF l = k - 1 /\ b = 1 - s.current[k - 1] THEN Cat(old, Pick(first, S))
                            ELSE old
    BY <1>1 DEF Resorted
  <2>2. old \in Seq(Elements)
    BY WheelsFields DEF Buffers
  <2>3. Pick(first, S) \in Seq(Elements) /\ Elems(Pick(first, S)) = Elems(first) \intersect S
    BY <1>1, PickType
  <2> HIDE DEF old, from
  <2>4. CASE l = k /\ b = s.current[k] /\ j = i
    <3>1. e \in Elems(rest)
      BY <1>3, <2>1, <2>4
    <3> QED
      BY <1>2, <2>4, <3>1 DEF from, old
  <2>5. CASE ~(l = k /\ b = s.current[k] /\ j = i) /\ l = k - 1 /\ b = 1 - s.current[k - 1]
    <3>1. e \in Elems(old) \/ e \in Elems(first) \intersect S
      BY <1>3, <2>1, <2>2, <2>3, <2>5, CatType
    <3> QED
      BY <1>2, <2>5, <3>1 DEF from, old, Byte
  <2>6. CASE ~(l = k /\ b = s.current[k] /\ j = i) /\ ~(l = k - 1 /\ b = 1 - s.current[k - 1])
    BY <1>3, <2>1, <2>6 DEF old
  <2> QED
    BY <2>4, <2>5, <2>6
<1>4. Len(from) <= n => Elems(t.buffer[k][s.current[k]][i]) = {}
  <2>1. k \in Levels /\ s.current[k] \in {0, 1}
    BY WheelsFields DEF Levels
  <2>2. t.buffer[k][s.current[k]][i] = rest
    BY <1>1, <2>1 DEF Resorted
  <2> QED
    BY <1>1, <2>2, ElemsEmpty
<1> QED
  BY <1>3, <1>4 DEF Moved, t

\* What an element that is filed satisfies.
LEMMA FiledElem ==
  ASSUME NEW s \in Wheels, NEW v, FiledIn(s, v),
         NEW l \in Levels, NEW b \in {0, 1}, NEW j \in Bytes,
         NEW e \in Elems(s.buffer[l][b][j])
  PROVE  /\ dateOf[e] \in 0..LastDate /\ dateOf[e] \in Nat
         /\ Place(v, s.current[l], l, b, j, dateOf[e])
         /\ s.current[l] \in {0, 1}
BY WheelsFields DEF FiledIn

\* The units of the current date: those of v are natural numbers.
DateUnits == [0..4 -> Nat]

LEMMA SomeFiled ==
  ASSUME NEW s \in Wheels, NEW k \in 1..3, NEW n \in Nat, NEW v \in DateUnits, NEW q \in Bytes,
         FiledIn(s, v), v[k] = Base * v[k + 1] + q
  PROVE  (q + 1) % Base \in Bytes /\ FiledIn(resort(s, k, (q + 1) % Base, n), v)
<1> DEFINE i == (q + 1) % Base
           t == resort(s, k, i, n)
<1>1. i \in Bytes /\ (i > q => i = q + 1)
  <2>1. Base \in Nat /\ Base >= 2 /\ q \in Int /\ 0 <= q /\ q <= Base - 1
    BY BaseAssumption DEF Bytes
  <2>2. CASE q = Base - 1
    <3>1. (q + 1) % Base = 0
      BY <2>1, <2>2
    <3> QED
      BY <2>1, <3>1 DEF Bytes
  <2>3. CASE q # Base - 1
    <3>1. (q + 1) % Base = q + 1
      BY <2>1, <2>3
    <3> QED
      BY <2>1, <2>3, <3>1 DEF Bytes
  <2> QED
    BY <2>2, <2>3
<1> HIDE DEF i
<1>2. /\ k \in Levels /\ k - 1 \in Levels /\ k - 1 # 3 /\ (k - 1) + 1 = k /\ (k - 1) + 2 = k + 1
      /\ k \in 0..4 /\ k + 1 \in 0..4
  BY DEF Levels
<1>3. t.current = s.current /\ t \in Wheels
  <2>1. t \in Wheels /\ \E first, rest : Resorted(s, t, k, i, first, rest)
    BY <1>1, Resort
  <2> QED
    BY <2>1 DEF Resorted
<1>4. Moved(s, t, k, i)
  BY <1>1, ResortElems
<1> HIDE DEF t
<1>5. ASSUME NEW l \in Levels, NEW b \in {0, 1}, NEW j \in Bytes,
             NEW e \in Elems(t.buffer[l][b][j])
      PROVE  dateOf[e] \in 0..LastDate /\ Place(v, t.current[l], l, b, j, dateOf[e])
  <2> DEFINE d == dateOf[e]
  <2>1. CASE e \in Elems(s.buffer[l][b][j])
    BY <1>3, <2>1, FiledElem
  <2>2. CASE /\ l = k - 1 /\ b = 1 - s.current[l]
             /\ e \in Elems(s.buffer[k][s.current[k]][i])
             /\ part(d, l) = j
    <3>1. s.current[k] \in {0, 1} /\ s.current[l] \in {0, 1} /\ b # s.current[l]
      BY <1>2, <2>2, WheelsFields
    <3>2. d \in 0..LastDate /\ d \in Nat /\ Place(v, s.current[k], k, s.current[k], i, d)
      BY <1>1, <1>2, <2>2, <3>1, FiledElem
    <3>3. part(d, k) = i /\ U(d, k + 1) = v[k + 1] /\ v[k] < U(d, k)
      BY <3>2 DEF Place
    <3>4. U(d, k) = Base * U(d, k + 1) + part(d, k) /\ v[k + 1] \in Nat /\ v[k] \in Nat
      BY <1>2, <3>2, UnitsOfDate DEF DateUnits
    <3>5. Base * v[k + 1] + q < Base * v[k + 1] + i
      BY <3>3, <3>4
    <3>6. q < i
      BY <1>1, <3>4, <3>5, Digits
    <3>7. U(d, k) = v[k] + 1
      <4>1. i = q + 1 /\ q \in Int
        BY <1>1, <3>6, BaseAssumption DEF Bytes
      <4> DEFINE x == Base * v[k + 1]
      <4>2. U(d, k) = x + i /\ v[k] = x + q /\ x \in Int
        BY <3>3, <3>4, BaseAssumption
      <4> HIDE DEF x
      <4> QED
        BY <4>1, <4>2
    <3>8. U(d, l + 1) = v[l + 1] + 1 /\ U(d, l + 2) = v[l + 2] /\ l # 3
      BY <1>2, <2>2, <3>3, <3>7
    <3> QED
      BY <1>3, <2>2, <3>1, <3>2, <3>8 DEF Place
  <2>3. \/ e \in Elems(s.buffer[l][b][j])
        \/ /\ l = k - 1 /\ b = 1 - s.current[l]
           /\ e \in Elems(s.buffer[k][s.current[k]][i])
           /\ part(d, l) = j
    BY <1>5, <1>4 DEF Moved
  <2> HIDE DEF d
  <2> QED
    BY <2>1, <2>2, <2>3 DEF d
<1>6. FiledIn(t, v)
  BY <1>5 DEF FiledIn
<1> QED
  BY <1>1, <1>6 DEF i, t

\* The end of resortAll: the alternate buffer of the level below becomes current.
LEMMA Swap ==
  ASSUME NEW s \in Wheels, NEW k \in 1..3
  PROVE  /\ swap(s, k) \in Wheels
         /\ swap(s, k).buffer = s.buffer
         /\ \A l \in Levels :
              swap(s, k).current[l] = IF l = k - 1 THEN 1 - s.current[l] ELSE s.current[l]
         /\ \A l \in 1..3 :
              swap(s, k).pos[l] = IF l = k THEN (s.pos[l] + 1) % Base ELSE s.pos[l]
<1> DEFINE t == swap(s, k)
           c == s.current
           p == s.pos
<1>1. s = [buffer |-> s.buffer, current |-> c, pos |-> p]
      /\ c \in [Levels -> {0, 1}] /\ p \in [1..3 -> Bytes] /\ s.buffer \in Buffers
  BY WheelsFields
<1>2. k - 1 \in Levels
  BY DEF Levels
<1>3. t = [buffer |-> s.buffer, current |-> [c EXCEPT ![k - 1] = 1 - c[k - 1]],
           pos |-> [p EXCEPT ![k] = (p[k] + 1) % Base]]
  <2> DEFINE C == [c EXCEPT ![k - 1] = 1 - c[k - 1]]
             P == [p EXCEPT ![k] = (p[k] + 1) % Base]
  <2>1. t = [s EXCEPT !.current = C, !.pos = P]
    BY Zenon DEF swap
  <2> HIDE DEF C, P, t, c, p
  <2>2. t = [buffer |-> s.buffer, current |-> C, pos |-> P]
    BY <1>1, <2>1
  <2> QED
    BY <2>2 DEF C, P
<1> HIDE DEF t, c, p
<1>4. 1 - c[k - 1] \in {0, 1}
  <2>1. c[k - 1] \in {0, 1}
    BY <1>1, <1>2
  <2> QED
    BY <2>1
<1>5. (p[k] + 1) % Base \in Bytes
  <2>1. p[k] \in 0..Base - 1
    BY <1>1 DEF Bytes
  <2> QED
    BY <2>1, BaseAssumption DEF Bytes
<1>6. t.buffer = s.buffer /\ t.current = [c EXCEPT ![k - 1] = 1 - c[k - 1]]
      /\ t.pos = [p EXCEPT ![k] = (p[k] + 1) % Base]
  BY <1>3
<1>7. t.current \in [Levels -> {0, 1}] /\ t.pos \in [1..3 -> Bytes]
  BY <1>1, <1>4, <1>5, <1>6
<1>8. t \in Wheels
  BY <1>1, <1>3, <1>6, <1>7 DEF Wheels, Buffers
<1> QED
  BY <1>1, <1>2, <1>6, <1>8 DEF t, c, p

\* When the lower bytes overflow, the current lists of the level below are empty.
LEMMA EmptyCurrent ==
  ASSUME NEW s \in Wheels, NEW l \in Levels, NEW v \in DateUnits, FiledIn(s, v),
         v[l] = Base * v[l + 1] + (Base - 1), NEW j \in Bytes
  PROVE  Elems(s.buffer[l][s.current[l]][j]) = {}
<1> SUFFICES ASSUME NEW e \in Elems(s.buffer[l][s.current[l]][j]) PROVE FALSE
  OBVIOUS
<1> DEFINE d == dateOf[e]
<1>1. s.current[l] \in {0, 1}
  BY WheelsFields
<1>2. d \in 0..LastDate /\ d \in Nat /\ Place(v, s.current[l], l, s.current[l], j, d)
  BY <1>1, FiledElem
<1>3. U(d, l + 1) = v[l + 1] /\ v[l] < U(d, l)
  BY <1>2 DEF Place
<1>4. U(d, l) = Base * U(d, l + 1) + part(d, l) /\ part(d, l) \in Bytes /\ v[l + 1] \in Nat
  <2>1. l + 1 \in 0..4
    BY DEF Levels
  <2> QED
    BY <1>2, <2>1, UnitsOfDate DEF DateUnits
<1> DEFINE x == Base * v[l + 1]
<1>5. x \in Int /\ U(d, l) = x + part(d, l) /\ v[l] = x + (Base - 1)
  BY <1>3, <1>4, BaseAssumption
<1> HIDE DEF x, d
<1> QED
  BY <1>3, <1>4, <1>5, BaseAssumption DEF Bytes

\* The unit k becomes the next one.
Carried(v, w, k) == \A m \in 0..4 : w[m] = IF m = k THEN v[k] + 1 ELSE v[m]

LEMMA AllFiled ==
  ASSUME NEW s \in Wheels, NEW k \in 1..3, NEW i \in Bytes, NEW n \in Nat,
         NEW v \in DateUnits, FiledIn(s, v), NEW w, Carried(v, w, k),
         n = Len(s.buffer[k][s.current[k]][i]),
         v[k] + 1 = Base * v[k + 1] + i,
         v[k - 1] = Base * v[k] + (Base - 1)
  PROVE  FiledIn(swap(resort(s, k, i, n), k), w)
<1> DEFINE r == resort(s, k, i, n)
           t == swap(r, k)
<1>1. /\ k \in Levels /\ k - 1 \in Levels /\ k - 1 # 3 /\ (k - 1) + 1 = k /\ (k - 1) + 2 = k + 1
      /\ k \in 0..4 /\ k + 1 \in 0..4 /\ k - 1 \in 0..4
  BY DEF Levels
<1>2. r.current = s.current /\ r \in Wheels
  <2>1. r \in Wheels /\ \E first, rest : Resorted(s, r, k, i, first, rest)
    BY Resort
  <2> QED
    BY <2>1 DEF Resorted
<1>3. Moved(s, r, k, i) /\ Elems(r.buffer[k][s.current[k]][i]) = {}
  <2>1. n <= n
    OBVIOUS
  <2>2. Moved(s, r, k, i) /\ (Len(s.buffer[k][s.current[k]][i]) <= n =>
                                Elems(r.buffer[k][s.current[k]][i]) = {})
    BY ResortElems
  <2> QED
    BY <2>1, <2>2
<1> HIDE DEF r
<1>4. t \in Wheels /\ t.buffer = r.buffer
      /\ \A l \in Levels : t.current[l] = IF l = k - 1 THEN 1 - s.current[l] ELSE s.current[l]
  BY <1>2, Swap
<1>5. \A m \in 0..4 : v[m] \in Nat /\ w[m] = IF m = k THEN v[k] + 1 ELSE v[m]
  BY DEF DateUnits, Carried
<1> HIDE DEF t
<1>6. \A l \in Levels : s.current[l] \in {0, 1}
  BY WheelsFields
<1>7. ASSUME NEW l \in Levels, NEW b \in {0, 1}, NEW j \in Bytes,
             NEW e \in Elems(t.buffer[l][b][j])
      PROVE  dateOf[e] \in 0..LastDate /\ Place(w, t.current[l], l, b, j, dateOf[e])
  <2> DEFINE d == dateOf[e]
  <2>1. \/ e \in Elems(s.buffer[l][b][j])
        \/ /\ l = k - 1 /\ b = 1 - s.current[l]
           /\ e \in Elems(s.buffer[k][s.current[k]][i])
           /\ part(d, l) = j
    BY <1>3, <1>4, <1>7 DEF Moved
  <2>2. e \in Elems(s.buffer[l][b][j]) =>
          d \in 0..LastDate /\ d \in Nat /\ Place(v, s.current[l], l, b, j, d)
    BY FiledElem
  <2>3. e \in Elems(s.buffer[k][s.current[k]][i]) =>
          d \in 0..LastDate /\ d \in Nat /\ Place(v, s.current[k], k, s.current[k], i, d)
    BY <1>1, <1>6, FiledElem
  <2>4. d \in 0..LastDate /\ d \in Nat
    BY <2>1, <2>2, <2>3
  <2> HIDE DEF d
  <2>5. \A m \in 0..4 : U(d, m) \in Nat
    BY <2>4, UnitsOfDate
  <2>6. \A m \in Levels : part(d, m) \in Bytes /\ U(d, m) = Base * U(d, m + 1) + part(d, m)
    BY <2>4, UnitsOfDate
  <2>7. Base * (v[k] + 1) = Base * v[k] + Base /\ 0 \in Bytes /\ Base - 1 \in Bytes /\ Base \in Nat
    <3>1. 0 \in Bytes /\ Base - 1 \in Bytes /\ Base \in Nat
      BY BaseAssumption DEF Bytes
    <3> QED
      BY <1>1, <1>5, <3>1, Digits
  <2>8. CASE l = k - 1 /\ b = 1 - s.current[l]
    <3>1. part(d, l) = j /\ U(d, k) = v[k] + 1
      <4>1. CASE e \in Elems(s.buffer[l][b][j])
        BY <1>1, <1>6, <2>2, <2>8, <4>1 DEF Place
      <4>2. CASE e \in Elems(s.buffer[k][s.current[k]][i]) /\ part(d, l) = j
        <5>1. part(d, k) = i /\ U(d, k + 1) = v[k + 1]
          BY <2>3, <4>2 DEF Place
        <5> QED
          BY <1>1, <2>6, <4>2, <5>1
      <4> QED
        BY <2>1, <4>1, <4>2
    <3>2. v[l] < U(d, l)
      <4>1. U(d, l) = Base * U(d, k) + part(d, l) /\ part(d, l) \in Bytes
        BY <1>1, <2>6, <2>8
      <4>2. v[k] \in Nat /\ U(d, k) \in Nat /\ v[k] < U(d, k)
        BY <1>1, <1>5, <3>1
      <4>3. Base * v[k] + (Base - 1) < Base * U(d, k) + part(d, l)
        BY <2>7, <4>1, <4>2, Digits
      <4> QED
        BY <2>8, <4>1, <4>3
    <3>3. w[l] = v[l] /\ w[l + 1] = v[k] + 1
      BY <1>1, <1>5, <2>8
    <3>4. b = t.current[l]
      BY <1>4, <2>8
    <3> QED
      BY <1>1, <2>4, <2>8, <3>1, <3>2, <3>3, <3>4 DEF Place, d
  <2>9. CASE l = k - 1 /\ b # 1 - s.current[l]
    <3>1. b = s.current[l] /\ e \in Elems(s.buffer[l][b][j])
      BY <1>6, <2>1, <2>9
    <3>2. Elems(s.buffer[l][s.current[l]][j]) = {}
      <4>1. v[l] = Base * v[l + 1] + (Base - 1)
        BY <1>1, <2>9
      <4> QED
        BY <4>1, EmptyCurrent
    <3> QED
      BY <3>1, <3>2
  <2>10. CASE l = k /\ b = s.current[k]
    <3>1. l # k - 1 /\ e \in Elems(s.buffer[l][b][j])
      BY <1>1, <2>1, <2>10
    <3>2. part(d, k) = j /\ U(d, k + 1) = v[k + 1] /\ v[k] < U(d, k)
      BY <2>2, <2>10, <3>1 DEF Place
    <3>3. j # i
      BY <1>3, <1>4, <1>7, <2>10
    <3>4. U(d, k) # v[k] + 1
      <4>1. U(d, k) = Base * v[k + 1] + j /\ v[k + 1] \in Nat
        BY <1>1, <1>5, <2>6, <3>2
      <4> QED
        BY <3>3, <4>1, Digits
    <3>5. v[k] + 1 < U(d, k)
      <4>1. v[k] \in Nat /\ U(d, k) \in Nat
        BY <1>1, <1>5, <2>5
      <4> QED
        BY <3>2, <3>4, <4>1
    <3>6. w[l] = v[k] + 1 /\ w[l + 1] = v[k + 1] /\ t.current[l] = b
      BY <1>1, <1>4, <1>5, <2>10
    <3> QED
      BY <2>4, <2>10, <3>2, <3>5, <3>6 DEF Place, d
  <2>11. CASE l = k /\ b # s.current[k]
    <3>1. l # k - 1 /\ e \in Elems(s.buffer[l][b][j])
      BY <1>1, <2>1, <2>11
    <3>2. part(d, k) = j /\ k # 3 /\ U(d, k + 1) = v[k + 1] + 1 /\ U(d, k + 2) = v[k + 2]
      BY <2>2, <2>11, <3>1 DEF Place
    <3>3. k + 2 \in 0..4 /\ k + 2 # k /\ k + 1 # k
      BY <3>2
    <3>4. w[k + 1] = v[k + 1] /\ w[k + 2] = v[k + 2] /\ t.current[l] = s.current[k]
      BY <1>1, <1>4, <1>5, <2>11, <3>1, <3>3
    <3> QED
      BY <2>4, <2>11, <3>2, <3>4 DEF Place, d
  <2>12. CASE l = k - 2 /\ b # s.current[l]
    <3>1. l # k - 1 /\ e \in Elems(s.buffer[l][b][j])
      BY <1>1, <2>1, <2>12
    <3>2. l + 1 = k - 1 /\ l + 2 = k
      BY <2>12
    <3>3. U(d, k - 1) = v[k - 1] + 1 /\ U(d, k) = v[k]
      <4>1. U(d, l + 1) = v[l + 1] + 1 /\ U(d, l + 2) = v[l + 2]
        BY <2>2, <2>12, <3>1 DEF Place
      <4> QED
        BY <3>2, <4>1
    <3>4. U(d, k - 1) = Base * v[k] + part(d, k - 1) /\ part(d, k - 1) \in Bytes
      BY <1>1, <2>6, <3>3
    <3> DEFINE x == Base * v[k]
    <3>5. x \in Int /\ U(d, k - 1) = x + part(d, k - 1) /\ v[k - 1] = x + (Base - 1)
      BY <1>1, <1>5, <2>7, <3>4
    <3> HIDE DEF x
    <3> QED
      BY <2>7, <3>3, <3>4, <3>5 DEF Bytes
  <2>13. CASE l = k - 2 /\ b = s.current[l]
    <3>1. l # k - 1 /\ e \in Elems(s.buffer[l][b][j])
      BY <1>1, <2>1, <2>13
    <3>2. part(d, l) = j /\ U(d, l + 1) = v[l + 1] /\ v[l] < U(d, l)
      BY <2>2, <2>13, <3>1 DEF Place
    <3>3. w[l] = v[l] /\ w[l + 1] = v[l + 1] /\ t.current[l] = s.current[l]
      <4>1. l \in 0..4 /\ l + 1 \in 0..4 /\ l # k /\ l + 1 # k
        BY <2>13 DEF Levels
      <4> QED
        BY <1>4, <1>5, <3>1, <4>1
    <3> QED
      BY <2>4, <2>13, <3>2, <3>3 DEF Place, d
  <2>14. CASE l \notin {k, k - 1, k - 2}
    <3>1. e \in Elems(s.buffer[l][b][j])
      BY <2>1, <2>14
    <3>2. l \in 0..4 /\ l + 1 \in 0..4 /\ l # k /\ l + 1 # k /\ l + 2 # k
          /\ (l # 3 => l + 2 \in 0..4)
      BY <2>14 DEF Levels
    <3>3. w[l] = v[l] /\ w[l + 1] = v[l + 1] /\ t.current[l] = s.current[l]
          /\ (l # 3 => w[l + 2] = v[l + 2])
      BY <1>4, <1>5, <2>14, <3>2
    <3>4. Place(v, s.current[l], l, b, j, d)
      BY <2>2, <3>1
    <3> QED
      BY <2>4, <3>3, <3>4 DEF Place, d
  <2> QED
    BY <2>8, <2>9, <2>10, <2>11, <2>12, <2>13, <2>14
<1> QED
  BY <1>7 DEF FiledIn, t, r

-----------------------------------------------------------------------------
(* The order of the elements of a date: those that were resorted first,    *)
(* in the level below.                                                     *)

Dated(d) == {e \in Elements : dateOf[e] = d}

Cur(s, k, d) == Pick(s.buffer[k][s.current[k]][part(d, k)], Dated(d))
Alt(s, k, d) == Pick(s.buffer[k][1 - s.current[k]][part(d, k)], Dated(d))

Queue(s, d) ==
  Cat(Cur(s, 0, d), Cat(Alt(s, 0, d), Cat(Cur(s, 1, d), Cat(Alt(s, 1, d),
    Cat(Cur(s, 2, d), Cat(Alt(s, 2, d), Cur(s, 3, d)))))))

LEMMA QueueTypes ==
  ASSUME NEW s \in Wheels, NEW d \in Nat, NEW k \in Levels
  PROVE  /\ part(d, k) \in Bytes /\ s.current[k] \in {0, 1} /\ 1 - s.current[k] \in {0, 1}
         /\ \A b \in {0, 1}, j \in Bytes : s.buffer[k][b][j] \in Seq(Elements)
         /\ Cur(s, k, d) \in Seq(Elements) /\ Alt(s, k, d) \in Seq(Elements)
<1>1. part(d, k) \in Bytes
  BY UnitsOfDate
<1>2. s.current[k] \in {0, 1}
  BY WheelsFields
<1>3. 1 - s.current[k] \in {0, 1}
  BY <1>2
<1>4. \A b \in {0, 1}, j \in Bytes : s.buffer[k][b][j] \in Seq(Elements)
  BY WheelsFields DEF Buffers
<1>5. s.buffer[k][s.current[k]][part(d, k)] \in Seq(Elements)
      /\ s.buffer[k][1 - s.current[k]][part(d, k)] \in Seq(Elements)
  BY <1>1, <1>2, <1>3, <1>4
<1> QED
  BY <1>1, <1>2, <1>3, <1>4, <1>5, PickType DEF Cur, Alt

LEMMA LevelFields ==
  ASSUME NEW k \in 1..3
  PROVE  k \in Levels /\ k - 1 \in Levels /\ k \in 0..4 /\ k + 1 \in 0..4 /\ k - 1 \in 0..4
         /\ (k - 1) + 1 = k /\ k # k - 1
BY DEF Levels

\* A resort moves the first elements of a list to the end of the list before it.
KeepsQueue(s, t, k, d) ==
  /\ Cat(Alt(t, k - 1, d), Cur(t, k, d)) = Cat(Alt(s, k - 1, d), Cur(s, k, d))
  /\ \A l \in Levels : l # k => Cur(t, l, d) = Cur(s, l, d)
  /\ \A l \in Levels : l # k - 1 => Alt(t, l, d) = Alt(s, l, d)

LEMMA ResortQueue ==
  ASSUME NEW s \in Wheels, NEW k \in 1..3, NEW i \in Bytes, NEW n \in Nat, NEW v, FiledIn(s, v),
         NEW d \in Nat, NEW t, t = resort(s, k, i, n)
  PROVE  KeepsQueue(s, t, k, d)
<1> DEFINE D == Dated(d)
           from == s.buffer[k][s.current[k]][i]
           j == part(d, k - 1)
           old == s.buffer[k - 1][1 - s.current[k - 1]][j]
           S == Byte(k - 1, j)
<1>1. PICK first, rest \in Seq(Elements) :
        Resorted(s, t, k, i, first, rest) /\ from = Cat(first, rest)
  BY Resort
<1>2. k \in Levels /\ k - 1 \in Levels /\ k # k - 1
  BY LevelFields
<1>3. t.current = s.current
  BY <1>1 DEF Resorted
<1>4. ASSUME NEW l \in Levels
      PROVE  part(d, l) \in Bytes /\ s.current[l] \in {0, 1}
             /\ 1 - s.current[l] \in {0, 1} /\ s.current[l] # 1 - s.current[l]
  <2>1. part(d, l) \in Bytes /\ s.current[l] \in {0, 1} /\ 1 - s.current[l] \in {0, 1}
    BY QueueTypes
  <2> QED
    BY <2>1
<1>5. ASSUME NEW l \in Levels, NEW b \in {0, 1}, NEW m \in Bytes
      PROVE  t.buffer[l][b][m] =
               IF l = k /\ b = s.current[k] /\ m = i THEN rest
               ELSE IF l = k - 1 /\ b = 1 - s.current[k - 1]
                 THEN Cat(s.buffer[l][b][m], Pick(first, Byte(k - 1, m)))
               ELSE s.buffer[l][b][m]
  BY <1>1 DEF Resorted
<1>6. ASSUME NEW l \in Levels, l # k PROVE Cur(t, l, d) = Cur(s, l, d)
  <2> DEFINE b == s.current[l]
             m == part(d, l)
  <2>1. b \in {0, 1} /\ m \in Bytes /\ b # 1 - s.current[l]
    BY <1>4
  <2> HIDE DEF b, m
  <2>2. t.buffer[l][b][m] = s.buffer[l][b][m]
    BY <1>5, <1>6, <2>1
  <2> QED
    BY <1>3, <2>2 DEF Cur, b, m
<1>7. ASSUME NEW l \in Levels, l # k - 1 PROVE Alt(t, l, d) = Alt(s, l, d)
  <2>1. t.buffer[l][1 - s.current[l]][part(d, l)] = s.buffer[l][1 - s.current[l]][part(d, l)]
    BY <1>4, <1>5, <1>7
  <2> QED
    BY <1>3, <2>1 DEF Alt
<1>8. Cat(Alt(t, k - 1, d), Cur(t, k, d)) = Cat(Alt(s, k - 1, d), Cur(s, k, d))
  <2> DEFINE a == Alt(s, k - 1, d)
             f == Pick(first, D)
             q == Pick(rest, D)
  <2>1. a \in Seq(Elements) /\ old \in Seq(Elements)
        /\ f \in Seq(Elements) /\ q \in Seq(Elements)
    BY <1>1, <1>2, QueueTypes, PickType
  <2>2. Alt(t, k - 1, d) = Cat(a, f)
    <3>1. t.buffer[k - 1][1 - s.current[k - 1]][j] = Cat(old, Pick(first, S))
      BY <1>2, <1>4, <1>5
    <3>2. Alt(t, k - 1, d) = Pick(Cat(old, Pick(first, S)), D)
      BY <1>3, <3>1 DEF Alt
    <3>3. Pick(first, S) \in Seq(Elements) /\ Pick(old, D) = a
      BY <1>1, PickType DEF Alt
    <3>4. Pick(Cat(old, Pick(first, S)), D) = Cat(Pick(old, D), Pick(Pick(first, S), D))
      BY <2>1, <3>3, PickCat
    <3>5. Pick(Pick(first, S), D) = Pick(first, S \intersect D)
      BY <1>1, PickPick
    <3>6. S \intersect D = D
      BY DEF Dated, Byte
    <3> QED
      BY <3>2, <3>3, <3>4, <3>5, <3>6
  <2>3. CASE part(d, k) = i
    <3>1. t.buffer[k][s.current[k]][i] = rest
      BY <1>2, <1>4, <1>5
    <3>2. Cur(t, k, d) = q
      BY <1>3, <2>3, <3>1 DEF Cur
    <3>3. Cur(s, k, d) = Cat(f, q)
      <4>1. Cur(s, k, d) = Pick(Cat(first, rest), D)
        BY <1>1, <2>3 DEF Cur
      <4> QED
        BY <1>1, <4>1, PickCat
    <3> HIDE DEF f, q
    <3>4. Cat(Cat(a, f), q) = Cat(a, Cat(f, q))
      BY <2>1, CatAssociative
    <3> QED
      BY <2>2, <3>2, <3>3, <3>4
  <2>4. CASE part(d, k) # i
    <3> DEFINE b == s.current[k]
               m == part(d, k)
    <3>1. b \in {0, 1} /\ m \in Bytes /\ m # i
      BY <1>2, <1>4, <2>4
    <3> HIDE DEF b, m, a, f, q, D, S, old, from, j
    <3>2. t.buffer[k][b][m] = s.buffer[k][b][m]
      BY <1>2, <1>5, <3>1
    <3> USE DEF a, f, q, D, S, old, from, j
    <3>3. t.buffer[k][s.current[k]][part(d, k)] = s.buffer[k][s.current[k]][part(d, k)]
      BY <3>2 DEF b, m
    <3>4. Cur(t, k, d) = Cur(s, k, d)
      BY <1>3, <3>3 DEF Cur
    <3>5. Elems(first) \intersect D = {}
      <4> SUFFICES ASSUME NEW e \in Elems(first), e \in D PROVE FALSE
        OBVIOUS
      <4>1. e \in Elems(from)
        BY <1>1, CatType
      <4>2. Place(v, s.current[k], k, s.current[k], i, dateOf[e])
        BY <1>2, <1>4, <4>1, FiledElem
      <4> QED
        BY <2>4, <4>2 DEF Place, Dated
    <3>6. f = <<>>
      BY <1>1, <3>5, PickNone
    <3>7. Cat(a, f) = a
      BY <2>1, <3>6, CatEmpty
    <3> QED
      BY <2>2, <3>4, <3>7
  <2> QED
    BY <2>3, <2>4
<1> QED
  BY <1>6, <1>7, <1>8 DEF KeepsQueue

\* The swap of two buffers changes nothing when the current one is empty.
LEMMA SwapQueue ==
  ASSUME NEW s \in Wheels, NEW k \in 1..3, NEW d \in Nat, NEW t, t = swap(s, k)
  PROVE  /\ Cur(t, k - 1, d) = Alt(s, k - 1, d) /\ Alt(t, k - 1, d) = Cur(s, k - 1, d)
         /\ \A l \in Levels : l # k - 1 => Cur(t, l, d) = Cur(s, l, d) /\ Alt(t, l, d) = Alt(s, l, d)
<1>1. t.buffer = s.buffer
      /\ \A l \in Levels : t.current[l] = IF l = k - 1 THEN 1 - s.current[l] ELSE s.current[l]
  BY Swap
<1>2. k - 1 \in Levels /\ s.current[k - 1] \in {0, 1}
  BY LevelFields, WheelsFields
<1>3. t.current[k - 1] = 1 - s.current[k - 1] /\ 1 - t.current[k - 1] = s.current[k - 1]
  BY <1>1, <1>2
<1>4. \A l \in Levels : l # k - 1 => t.current[l] = s.current[l]
  BY <1>1
<1> QED
  BY <1>1, <1>3, <1>4 DEF Cur, Alt

LEMMA SameQueue ==
  ASSUME NEW s \in Wheels, NEW t \in Wheels, NEW k \in 1..3, NEW d \in Nat,
         KeepsQueue(s, t, k, d)
  PROVE  Queue(t, d) = Queue(s, d)
<1>1. 0 \in Levels /\ 1 \in Levels /\ 2 \in Levels /\ 3 \in Levels
  BY DEF Levels
<1>2. \A l \in Levels : Cur(s, l, d) \in Seq(Elements) /\ Alt(s, l, d) \in Seq(Elements)
                        /\ Cur(t, l, d) \in Seq(Elements) /\ Alt(t, l, d) \in Seq(Elements)
  BY QueueTypes
<1>3. CASE k = 3
  <2>1. 3 - 1 = 2
    OBVIOUS
  <2>2. Cat(Alt(t, 2, d), Cur(t, 3, d)) = Cat(Alt(s, 2, d), Cur(s, 3, d))
    BY <1>3, <2>1 DEF KeepsQueue
  <2>3. /\ Cur(t, 0, d) = Cur(s, 0, d) /\ Alt(t, 0, d) = Alt(s, 0, d)
        /\ Cur(t, 1, d) = Cur(s, 1, d) /\ Alt(t, 1, d) = Alt(s, 1, d)
        /\ Cur(t, 2, d) = Cur(s, 2, d)
    BY <1>1, <1>3 DEF KeepsQueue
  <2> QED
    BY <2>2, <2>3 DEF Queue
<1>4. CASE k = 2
  <2>1. 2 - 1 = 1
    OBVIOUS
  <2>2. Cat(Alt(t, 1, d), Cur(t, 2, d)) = Cat(Alt(s, 1, d), Cur(s, 2, d))
    BY <1>4, <2>1 DEF KeepsQueue
  <2>3. /\ Cur(t, 0, d) = Cur(s, 0, d) /\ Alt(t, 0, d) = Alt(s, 0, d)
        /\ Cur(t, 1, d) = Cur(s, 1, d)
        /\ Alt(t, 2, d) = Alt(s, 2, d) /\ Cur(t, 3, d) = Cur(s, 3, d)
    BY <1>1, <1>4 DEF KeepsQueue
  <2> DEFINE r == Cat(Alt(s, 2, d), Cur(s, 3, d))
  <2>4. r \in Seq(Elements)
    BY <1>1, <1>2, CatType
  <2> HIDE DEF r
  <2>5. Alt(t, 1, d) \in Seq(Elements) /\ Cur(t, 2, d) \in Seq(Elements)
        /\ Alt(s, 1, d) \in Seq(Elements) /\ Cur(s, 2, d) \in Seq(Elements)
    BY <1>1, <1>2
  <2>6. Cat(Cat(Alt(t, 1, d), Cur(t, 2, d)), r) = Cat(Alt(t, 1, d), Cat(Cur(t, 2, d), r))
    BY <2>4, <2>5, CatAssociative
  <2>7. Cat(Cat(Alt(s, 1, d), Cur(s, 2, d)), r) = Cat(Alt(s, 1, d), Cat(Cur(s, 2, d), r))
    BY <2>4, <2>5, CatAssociative
  <2> QED
    BY <2>2, <2>3, <2>6, <2>7 DEF Queue, r
<1>5. CASE k = 1
  <2>1. 1 - 1 = 0
    OBVIOUS
  <2>2. Cat(Alt(t, 0, d), Cur(t, 1, d)) = Cat(Alt(s, 0, d), Cur(s, 1, d))
    BY <1>5, <2>1 DEF KeepsQueue
  <2>3. /\ Cur(t, 0, d) = Cur(s, 0, d)
        /\ Alt(t, 1, d) = Alt(s, 1, d) /\ Cur(t, 2, d) = Cur(s, 2, d)
        /\ Alt(t, 2, d) = Alt(s, 2, d) /\ Cur(t, 3, d) = Cur(s, 3, d)
    BY <1>1, <1>5 DEF KeepsQueue
  <2> DEFINE r == Cat(Alt(s, 1, d), Cat(Cur(s, 2, d), Cat(Alt(s, 2, d), Cur(s, 3, d))))
  <2>4. r \in Seq(Elements)
    BY <1>1, <1>2, CatType
  <2> HIDE DEF r
  <2>5. Alt(t, 0, d) \in Seq(Elements) /\ Cur(t, 1, d) \in Seq(Elements)
        /\ Alt(s, 0, d) \in Seq(Elements) /\ Cur(s, 1, d) \in Seq(Elements)
    BY <1>1, <1>2
  <2>6. Cat(Cat(Alt(t, 0, d), Cur(t, 1, d)), r) = Cat(Alt(t, 0, d), Cat(Cur(t, 1, d), r))
    BY <2>4, <2>5, CatAssociative
  <2>7. Cat(Cat(Alt(s, 0, d), Cur(s, 1, d)), r) = Cat(Alt(s, 0, d), Cat(Cur(s, 1, d), r))
    BY <2>4, <2>5, CatAssociative
  <2> QED
    BY <2>2, <2>3, <2>6, <2>7 DEF Queue, r
<1> QED
  BY <1>3, <1>4, <1>5

LEMMA SwapSameQueue ==
  ASSUME NEW s \in Wheels, NEW k \in 1..3, NEW d \in Nat, NEW t, t = swap(s, k),
         Cur(s, k - 1, d) = <<>>
  PROVE  Queue(t, d) = Queue(s, d)
<1>1. 0 \in Levels /\ 1 \in Levels /\ 2 \in Levels /\ 3 \in Levels
  BY DEF Levels
<1>2. \A l \in Levels : Cur(s, l, d) \in Seq(Elements) /\ Alt(s, l, d) \in Seq(Elements)
  BY QueueTypes
<1>3. \A r \in Seq(Elements), l \in Levels :
        Cat(<<>>, Cat(Alt(s, l, d), r)) = Cat(Alt(s, l, d), Cat(<<>>, r))
  <2> SUFFICES ASSUME NEW r \in Seq(Elements), NEW l \in Levels
               PROVE  Cat(<<>>, Cat(Alt(s, l, d), r)) = Cat(Alt(s, l, d), Cat(<<>>, r))
    OBVIOUS
  <2>1. Cat(Alt(s, l, d), r) \in Seq(Elements)
    BY <1>2, CatType
  <2> QED
    BY <2>1, CatEmpty
<1>4. /\ Cur(t, k - 1, d) = Alt(s, k - 1, d) /\ Alt(t, k - 1, d) = <<>>
      /\ \A l \in Levels : l # k - 1 => Cur(t, l, d) = Cur(s, l, d) /\ Alt(t, l, d) = Alt(s, l, d)
  BY SwapQueue
<1>5. CASE k = 3
  <2>1. 3 - 1 = 2
    OBVIOUS
  <2>2. Cat(Cur(t, 2, d), Cat(Alt(t, 2, d), Cur(s, 3, d)))
          = Cat(Cur(s, 2, d), Cat(Alt(s, 2, d), Cur(s, 3, d)))
    BY <1>1, <1>2, <1>3, <1>4, <1>5, <2>1
  <2>3. /\ Cur(t, 0, d) = Cur(s, 0, d) /\ Alt(t, 0, d) = Alt(s, 0, d)
        /\ Cur(t, 1, d) = Cur(s, 1, d) /\ Alt(t, 1, d) = Alt(s, 1, d)
        /\ Cur(t, 3, d) = Cur(s, 3, d)
    BY <1>1, <1>4, <1>5
  <2> QED
    BY <2>2, <2>3 DEF Queue
<1>6. CASE k = 2
  <2>1. 2 - 1 = 1
    OBVIOUS
  <2> DEFINE r == Cat(Cur(s, 2, d), Cat(Alt(s, 2, d), Cur(s, 3, d)))
  <2>2. r \in Seq(Elements)
    BY <1>1, <1>2, CatType
  <2> HIDE DEF r
  <2>3. Cat(Cur(t, 1, d), Cat(Alt(t, 1, d), r)) = Cat(Cur(s, 1, d), Cat(Alt(s, 1, d), r))
    BY <1>1, <1>3, <1>4, <1>6, <2>1, <2>2
  <2>4. /\ Cur(t, 0, d) = Cur(s, 0, d) /\ Alt(t, 0, d) = Alt(s, 0, d)
        /\ Cur(t, 2, d) = Cur(s, 2, d) /\ Alt(t, 2, d) = Alt(s, 2, d)
        /\ Cur(t, 3, d) = Cur(s, 3, d)
    BY <1>1, <1>4, <1>6
  <2> QED
    BY <2>3, <2>4 DEF Queue, r
<1>7. CASE k = 1
  <2>1. 1 - 1 = 0
    OBVIOUS
  <2> DEFINE r == Cat(Cur(s, 1, d), Cat(Alt(s, 1, d),
                    Cat(Cur(s, 2, d), Cat(Alt(s, 2, d), Cur(s, 3, d)))))
  <2>2. r \in Seq(Elements)
    BY <1>1, <1>2, CatType
  <2> HIDE DEF r
  <2>3. Cat(Cur(t, 0, d), Cat(Alt(t, 0, d), r)) = Cat(Cur(s, 0, d), Cat(Alt(s, 0, d), r))
    BY <1>1, <1>3, <1>4, <1>7, <2>1, <2>2
  <2>4. /\ Cur(t, 1, d) = Cur(s, 1, d) /\ Alt(t, 1, d) = Alt(s, 1, d)
        /\ Cur(t, 2, d) = Cur(s, 2, d) /\ Alt(t, 2, d) = Alt(s, 2, d)
        /\ Cur(t, 3, d) = Cur(s, 3, d)
    BY <1>1, <1>4, <1>7
  <2> QED
    BY <2>3, <2>4 DEF Queue, r
<1> QED
  BY <1>5, <1>6, <1>7

-----------------------------------------------------------------------------
(* A level of the clock.                                                   *)

\* The units during the clock that follows the date d: those of the levels from k are
\* already the ones of the new date.
Mid(d, k) == [m \in 0..4 |-> IF m >= k THEN U(d + 1, m) ELSE U(d, m)]

LEMMA MidType ==
  ASSUME NEW d \in Nat, NEW k \in 0..4
  PROVE  /\ Mid(d, k) \in DateUnits
         /\ \A m \in 0..4 : Mid(d, k)[m] = IF m >= k THEN U(d + 1, m) ELSE U(d, m)
<1>1. \A m \in 0..4 : U(d, m) \in Nat /\ U(d + 1, m) \in Nat
  BY UnitsOfDate
<1> QED
  BY <1>1 DEF Mid, DateUnits

LEMMA LevelClock ==
  ASSUME NEW s, NEW k, NEW i
  PROVE  /\ i # s.pos[k] => levelClock(s, k, i) = resort(s, k, s.pos[k], SomeCount)
         /\ i = s.pos[k] => levelClock(s, k, i)
                              = swap(resort(s, k, i, Len(s.buffer[k][s.current[k]][i])), k)
BY DEF levelClock

\* The level k changes the unit k, if the bytes below overflow.
LEMMA LevelStep ==
  ASSUME NEW s \in Wheels, NEW k \in 1..3, NEW d \in Nat, FiledIn(s, Mid(d, k + 1)),
         s.pos[k] = (part(d, k) + 1) % Base,
         NEW t, t = levelClock(s, k, part(d + 1, k))
  PROVE  /\ t \in Wheels /\ FiledIn(t, Mid(d, k))
         /\ t.pos[k] = (part(d + 1, k) + 1) % Base
         /\ \A l \in 1..3 : l # k => t.pos[l] = s.pos[l]
         /\ t.current[3] = s.current[3]
         /\ \A e \in Nat : Queue(t, e) = Queue(s, e)
<1> DEFINE i == part(d + 1, k)
           q == part(d, k)
           v == Mid(d, k + 1)
           w == Mid(d, k)
<1>1. k \in Levels /\ k - 1 \in Levels /\ k \in 0..4 /\ k + 1 \in 0..4 /\ k - 1 \in 0..4
      /\ (k - 1) + 1 = k /\ k # k - 1 /\ d + 1 \in Nat
  BY LevelFields
<1>2. i \in Bytes /\ q \in Bytes /\ s.pos[k] \in Bytes
  BY <1>1, UnitsOfDate, WheelsFields
<1>3. /\ v \in DateUnits /\ w \in DateUnits
      /\ \A m \in 0..4 : v[m] = IF m >= k + 1 THEN U(d + 1, m) ELSE U(d, m)
      /\ \A m \in 0..4 : w[m] = IF m >= k THEN U(d + 1, m) ELSE U(d, m)
  BY <1>1, MidType
<1> HIDE DEF v, w, i, q
<1>4. v[k] = U(d, k) /\ v[k - 1] = U(d, k - 1) /\ v[k + 1] = U(d + 1, k + 1) /\ w[k] = U(d + 1, k)
      /\ \A m \in 0..4 : m # k => w[m] = v[m]
  BY <1>1, <1>3
<1>5. U(d + 1, k) = Base * U(d + 1, k + 1) + i /\ U(d, k) \in Nat
  BY <1>1, UnitsOfDate DEF i
<1>6. U(d + 1, k) \in {U(d, k), U(d, k) + 1}
  BY <1>1, Carry
<1>7. i = IF U(d + 1, k) = U(d, k) THEN q ELSE (q + 1) % Base
  BY <1>1, Carry DEF i, q
<1>8. Base \in Nat /\ Base >= 2 /\ q \in Int /\ 0 <= q /\ q <= Base - 1
  BY <1>2, BaseAssumption DEF Bytes
<1>9. CASE U(d + 1, k) = U(d, k)
  <2> DEFINE p == (q + 1) % Base
  <2>1. p # i
    <3>1. CASE q = Base - 1
      <4>1. (q + 1) % Base = 0
        BY <1>8, <3>1
      <4> QED
        BY <1>7, <1>8, <1>9, <3>1, <4>1
    <3>2. CASE q # Base - 1
      <4>1. (q + 1) % Base = q + 1
        BY <1>8, <3>2
      <4> QED
        BY <1>7, <1>8, <1>9, <4>1
    <3> QED
      BY <3>1, <3>2
  <2>2. s.pos[k] = p
    BY DEF q
  <2> HIDE DEF p
  <2>3. t = resort(s, k, p, SomeCount)
    BY <2>1, <2>2, LevelClock DEF i
  <2>4. p \in Bytes
    BY <1>2, <2>2
  <2>5. w = v
    BY <1>3, <1>4, <1>9 DEF DateUnits
  <2>6. FiledIn(s, v)
    BY DEF v
  <2>7. v[k] = Base * v[k + 1] + q
    BY <1>4, <1>5, <1>7, <1>9
  <2>8. FiledIn(t, w)
    BY <1>2, <1>3, <2>3, <2>5, <2>6, <2>7, SomeCountAssumption, SomeFiled DEF p
  <2>9. t \in Wheels /\ \E first, rest : Resorted(s, t, k, p, first, rest)
    BY <2>3, <2>4, Resort, SomeCountAssumption
  <2>10. t.pos = s.pos /\ t.current = s.current
    BY <2>9 DEF Resorted
  <2>11. \A e \in Nat : Queue(t, e) = Queue(s, e)
    BY <2>3, <2>4, <2>6, <2>9, SomeCountAssumption, ResortQueue, SameQueue
  <2> QED
    BY <1>7, <1>9, <2>2, <2>8, <2>9, <2>10, <2>11 DEF w, i, p
<1>10. CASE U(d + 1, k) = U(d, k) + 1
  <2> DEFINE from == s.buffer[k][s.current[k]][i]
             n == Len(from)
             r == resort(s, k, i, n)
  <2>1. s.pos[k] = i
    BY <1>5, <1>7, <1>10 DEF q
  <2>2. n \in Nat
    <3>1. s.current[k] \in {0, 1}
      BY <1>1, WheelsFields
    <3>2. from \in Seq(Elements)
      BY <1>1, <1>2, <3>1, QueueTypes
    <3> HIDE DEF from
    <3> QED
      BY <3>2
  <2>3. t = swap(r, k)
    BY <2>1, LevelClock DEF i
  <2> HIDE DEF n, from
  <2>4. FiledIn(s, v)
    BY DEF v
  <2>5. v[k] + 1 = Base * v[k + 1] + i
    BY <1>4, <1>5, <1>10
  <2>6. v[k - 1] = Base * v[k] + (Base - 1)
    <3>1. part(d, k - 1) = Base - 1
      BY <1>1, <1>10, Carry
    <3>2. U(d, k - 1) = Base * U(d, k) + part(d, k - 1)
      BY <1>1, UnitsOfDate
    <3> QED
      BY <1>4, <3>1, <3>2
  <2>7. Carried(v, w, k)
    BY <1>4, <1>10 DEF Carried
  <2>8. FiledIn(t, w)
    BY <1>2, <1>3, <2>2, <2>3, <2>4, <2>5, <2>6, <2>7, AllFiled DEF n, from
  <2>9. r \in Wheels /\ \E first, rest : Resorted(s, r, k, i, first, rest)
    BY <1>2, <2>2, Resort
  <2> HIDE DEF r
  <2>10. r.pos = s.pos /\ r.current = s.current
    BY <2>9 DEF Resorted
  <2>11. /\ t \in Wheels
         /\ \A l \in 1..3 : t.pos[l] = IF l = k THEN (r.pos[l] + 1) % Base ELSE r.pos[l]
         /\ t.current[3] = r.current[3]
    <3>1. 3 \in Levels /\ 3 # k - 1
      BY DEF Levels
    <3>2. \A l \in Levels : t.current[l] = IF l = k - 1 THEN 1 - r.current[l] ELSE r.current[l]
      BY <2>3, <2>9, Swap
    <3> QED
      BY <2>3, <2>9, <3>1, <3>2, Swap
  <2>12. ASSUME NEW e \in Nat PROVE Queue(t, e) = Queue(s, e)
    <3>1. KeepsQueue(s, r, k, e)
      BY <1>2, <2>2, <2>4, ResortQueue DEF r
    <3>2. Queue(r, e) = Queue(s, e)
      BY <2>9, <3>1, SameQueue
    <3>3. Cur(s, k - 1, e) = <<>>
      <4> DEFINE j == part(e, k - 1)
                 list == s.buffer[k - 1][s.current[k - 1]][j]
      <4>1. j \in Bytes /\ list \in Seq(Elements)
        BY <1>1, QueueTypes
      <4>2. Elems(list) = {}
        BY <1>1, <1>3, <2>4, <2>6, <4>1, EmptyCurrent
      <4> HIDE DEF list
      <4>3. Pick(list, Dated(e)) = <<>>
        BY <4>1, <4>2, PickNone
      <4> QED
        BY <4>3 DEF Cur, list
    <3>4. Cur(r, k - 1, e) = <<>>
      BY <1>1, <3>1, <3>3 DEF KeepsQueue
    <3>5. Queue(t, e) = Queue(r, e)
      BY <2>3, <2>9, <3>4, SwapSameQueue
    <3> QED
      BY <3>2, <3>5
  <2> QED
    BY <2>1, <2>8, <2>10, <2>11, <2>12 DEF w, i
<1> QED
  BY <1>6, <1>9, <1>10

\* The units of the current date, out of a clock.
At(d) == [m \in 0..4 |-> U(d, m)]

LEMMA AtType ==
  ASSUME NEW d \in Nat
  PROVE  At(d) \in DateUnits /\ \A m \in 0..4 : At(d)[m] = U(d, m)
<1>1. \A m \in 0..4 : U(d, m) \in Nat
  BY UnitsOfDate
<1> QED
  BY <1>1 DEF At, DateUnits

\* The last level delivers the elements of the new date, and keeps the others.
Popped(s, t, i) ==
  /\ t.current = s.current /\ t.pos = s.pos
  /\ \A l \in Levels, b \in {0, 1}, j \in Bytes :
       t.buffer[l][b][j] =
         IF l = 0 /\ b = s.current[0] /\ j = i THEN <<>> ELSE s.buffer[l][b][j]

LEMMA PopDates ==
  ASSUME NEW s \in Wheels, NEW d \in Nat, FiledIn(s, Mid(d, 1)),
         NEW e \in Elems(s.buffer[0][s.current[0]][part(d + 1, 0)])
  PROVE  dateOf[e] = d + 1
<1> DEFINE i == part(d + 1, 0)
           v == Mid(d, 1)
           x == dateOf[e]
<1>1. d + 1 \in Nat /\ 0 \in Levels /\ 0 \in 0..4 /\ 1 \in 0..4 /\ 0 + 1 = 1
  BY DEF Levels
<1>2. i \in Bytes /\ s.current[0] \in {0, 1}
  BY <1>1, UnitsOfDate, WheelsFields
<1>3. x \in Nat /\ Place(v, s.current[0], 0, s.current[0], i, x)
  BY <1>1, <1>2, FiledElem
<1>4. v[1] = U(d + 1, 1)
  BY <1>1, MidType
<1>5. part(x, 0) = i /\ U(x, 1) = U(d + 1, 1)
  BY <1>1, <1>3, <1>4 DEF Place
<1>6. x = Base * U(x, 1) + part(x, 0)
  BY <1>1, <1>3, UnitsOfDate
<1>7. d + 1 = Base * U(d + 1, 1) + i
  BY <1>1, UnitsOfDate
<1> HIDE DEF i, x
<1>8. x = d + 1
  BY <1>5, <1>6, <1>7
<1> QED
  BY <1>8 DEF x

LEMMA PopFiled ==
  ASSUME NEW s \in Wheels, NEW t \in Wheels, NEW d \in Nat, FiledIn(s, Mid(d, 1)),
         Popped(s, t, part(d + 1, 0))
  PROVE  FiledIn(t, At(d + 1))
<1> DEFINE i == part(d + 1, 0)
           v == Mid(d, 1)
           w == At(d + 1)
<1>1. d + 1 \in Nat /\ 0 \in Levels /\ 0 \in 0..4 /\ 1 \in 0..4 /\ 0 + 1 = 1
  BY DEF Levels
<1>2. v[0] = d /\ w[0] = d + 1
  <2>1. U(d, 0) = d /\ U(d + 1, 0) = d + 1
    BY <1>1, UnitsOfDate
  <2>2. w[0] = U(d + 1, 0)
    BY <1>1, AtType
  <2>3. v[0] = U(d, 0)
    <3>1. \A m \in 0..4 : v[m] = IF m >= 1 THEN U(d + 1, m) ELSE U(d, m)
      BY <1>1, MidType
    <3> HIDE DEF v
    <3> QED
      BY <1>1, <3>1
  <2> QED
    BY <2>1, <2>2, <2>3
<1>3. \A m \in 1..4 : v[m] = U(d + 1, m) /\ w[m] = U(d + 1, m)
  <2> SUFFICES ASSUME NEW m \in 1..4 PROVE v[m] = U(d + 1, m) /\ w[m] = U(d + 1, m)
    OBVIOUS
  <2>1. m \in 0..4 /\ m >= 1
    OBVIOUS
  <2> QED
    BY <1>1, <2>1, MidType, AtType
<1>4. ASSUME NEW l \in Levels, NEW b \in {0, 1}, NEW j \in Bytes,
             NEW e \in Elems(t.buffer[l][b][j])
      PROVE  dateOf[e] \in 0..LastDate /\ Place(w, t.current[l], l, b, j, dateOf[e])
  <2> DEFINE x == dateOf[e]
  <2>1. /\ ~(l = 0 /\ b = s.current[0] /\ j = i)
        /\ e \in Elems(s.buffer[l][b][j]) /\ t.current = s.current
    <3>1. t.buffer[l][b][j] =
            IF l = 0 /\ b = s.current[0] /\ j = i THEN <<>> ELSE s.buffer[l][b][j]
      BY DEF Popped
    <3> QED
      BY <1>4, <3>1, ElemsEmpty DEF Popped
  <2>2. x \in 0..LastDate /\ x \in Nat /\ Place(v, s.current[l], l, b, j, x)
    BY <2>1, FiledElem
  <2> HIDE DEF v, w, i, x
  <2>3. CASE l = 0 /\ b = s.current[0]
    <3>1. part(x, 0) = j /\ U(x, 1) = U(d + 1, 1) /\ d < U(x, 0)
      BY <1>1, <1>2, <1>3, <2>2, <2>3 DEF Place
    <3>2. U(x, 0) = x /\ U(x, 1) \in Nat /\ j \in Bytes /\ i \in Bytes
          /\ x = Base * U(x, 1) + j /\ d + 1 = Base * U(x, 1) + i
      BY <1>1, <2>2, <3>1, UnitsOfDate DEF i
    <3>3. x # d + 1
      BY <2>1, <2>3, <3>2, Digits
    <3>4. d + 1 < U(x, 0)
      BY <2>2, <3>1, <3>2, <3>3
    <3>5. w[0] = d + 1 /\ w[0 + 1] = U(d + 1, 1)
      BY <1>1, <1>2, <1>3
    <3> QED
      BY <1>1, <2>1, <2>2, <2>3, <3>1, <3>4, <3>5 DEF Place, x
  <2>4. CASE l = 0 /\ b # s.current[0]
    <3>1. part(x, 0) = j /\ U(x, 1) = v[1] + 1 /\ U(x, 2) = v[2]
      <4>1. part(x, 0) = j /\ U(x, 0 + 1) = v[0 + 1] + 1 /\ U(x, 0 + 2) = v[0 + 2]
        BY <2>2, <2>4 DEF Place
      <4> QED
        BY <4>1
    <3>2. w[1] = v[1] /\ w[2] = v[2]
      BY <1>3
    <3>3. part(x, 0) = j /\ U(x, 0 + 1) = w[0 + 1] + 1 /\ U(x, 0 + 2) = w[0 + 2] /\ 0 # 3
      BY <3>1, <3>2
    <3> QED
      BY <2>1, <2>2, <2>4, <3>3 DEF Place, x
  <2>5. CASE l # 0
    <3>1. w[l] = v[l] /\ w[l + 1] = v[l + 1] /\ (l # 3 => w[l + 2] = v[l + 2])
      <4>1. l \in 1..4 /\ l + 1 \in 1..4 /\ (l # 3 => l + 2 \in 1..4)
        BY <2>5 DEF Levels
      <4> QED
        BY <1>3, <4>1
    <3> QED
      BY <2>1, <2>2, <3>1 DEF Place, x
  <2> QED
    BY <2>3, <2>4, <2>5
<1> QED
  BY <1>4 DEF FiledIn

\* An element that is filed after the last level waits for a later date.
LEMMA FiledLater ==
  ASSUME NEW s \in Wheels, NEW d \in Nat, FiledIn(s, At(d)),
         NEW l \in Levels, NEW b \in {0, 1}, NEW j \in Bytes, NEW e \in Elems(s.buffer[l][b][j])
  PROVE  dateOf[e] \in 0..LastDate /\ dateOf[e] > d
<1> DEFINE x == dateOf[e]
           v == At(d)
<1>1. x \in 0..LastDate /\ x \in Nat /\ Place(v, s.current[l], l, b, j, x)
  BY FiledElem
<1>2. l \in 0..4 /\ l + 1 \in 0..4
  BY DEF Levels
<1>3. v[l] = U(d, l) /\ v[l + 1] = U(d, l + 1) /\ U(d, l + 1) \in Nat
  BY <1>2, AtType, UnitsOfDate
<1> HIDE DEF x, v
<1>4. U(d, l) < U(x, l) \/ U(d, l + 1) < U(x, l + 1)
  BY <1>1, <1>3 DEF Place
<1>5. d < x
  BY <1>1, <1>2, <1>4, UnitMonotonic
<1> QED
  BY <1>1, <1>5 DEF x

\* The lists that are not those of the date d have no element of that date.
LEMMA PopQueue ==
  ASSUME NEW s \in Wheels, NEW d \in Nat, FiledIn(s, Mid(d, 1))
  PROVE  Queue(s, d + 1) = s.buffer[0][s.current[0]][part(d + 1, 0)]
<1> DEFINE n == d + 1
           v == Mid(d, 1)
           D == Dated(n)
           now == s.buffer[0][s.current[0]][part(n, 0)]
<1>1. n \in Nat
  OBVIOUS
<1>2. \A m \in 1..4 : v[m] = U(n, m) /\ U(n, m) \in Nat
  <2> SUFFICES ASSUME NEW m \in 1..4 PROVE v[m] = U(n, m) /\ U(n, m) \in Nat
    OBVIOUS
  <2>1. m \in 0..4 /\ m >= 1 /\ 1 \in 0..4
    OBVIOUS
  <2> QED
    BY <1>1, <2>1, MidType, UnitsOfDate
<1> HIDE DEF v
<1>3. FiledIn(s, v)
  BY DEF v
<1>4. Cur(s, 0, n) = now
  <2>1. 0 \in Levels
    BY DEF Levels
  <2>2. now \in Seq(Elements)
    BY <1>1, <2>1, QueueTypes
  <2>3. \A e \in Elems(now) : dateOf[e] = n
    BY PopDates
  <2>4. Elems(now) \subseteq Elements
    BY <2>2, ElemsType
  <2>5. Elems(now) \subseteq D
    BY <2>3, <2>4 DEF Dated
  <2> HIDE DEF now, D
  <2>6. Pick(now, D) = now
    BY <2>2, <2>5, PickAll
  <2> QED
    BY <2>6 DEF Cur, now, D
<1>5. ASSUME NEW l \in Levels, l # 0 PROVE Cur(s, l, n) = <<>>
  <2> DEFINE j == part(n, l)
             list == s.buffer[l][s.current[l]][j]
  <2>1. j \in Bytes /\ list \in Seq(Elements) /\ s.current[l] \in {0, 1}
    BY <1>1, QueueTypes
  <2>2. ASSUME NEW e \in Elems(list), dateOf[e] = n PROVE FALSE
    <3>1. Place(v, s.current[l], l, s.current[l], j, n)
      BY <1>3, <2>1, <2>2, FiledElem
    <3>2. v[l] = U(n, l) /\ U(n, l) \in Nat
      <4>1. l \in 1..4
        BY <1>5 DEF Levels
      <4> QED
        BY <1>2, <4>1
    <3> QED
      BY <3>1, <3>2 DEF Place
  <2> HIDE DEF list
  <2>3. Elems(list) \intersect D = {}
    BY <2>2 DEF Dated
  <2>4. Pick(list, D) = <<>>
    BY <2>1, <2>3, PickNone
  <2> QED
    BY <2>4 DEF Cur, list
<1>6. ASSUME NEW l \in Levels, l # 3 PROVE Alt(s, l, n) = <<>>
  <2> DEFINE j == part(n, l)
             list == s.buffer[l][1 - s.current[l]][j]
  <2>1. j \in Bytes /\ list \in Seq(Elements) /\ 1 - s.current[l] \in {0, 1} /\ s.current[l] \in {0, 1}
    BY <1>1, QueueTypes
  <2>2. ASSUME NEW e \in Elems(list), dateOf[e] = n PROVE FALSE
    <3>1. Place(v, s.current[l], l, 1 - s.current[l], j, n)
      BY <1>3, <2>1, <2>2, FiledElem
    <3>2. s.current[l] # 1 - s.current[l]
      BY <2>1
    <3>3. v[l + 1] = U(n, l + 1) /\ U(n, l + 1) \in Nat
      <4>1. l + 1 \in 1..4
        BY DEF Levels
      <4> QED
        BY <1>2, <4>1
    <3> QED
      BY <3>1, <3>2, <3>3 DEF Place
  <2> HIDE DEF list
  <2>3. Elems(list) \intersect D = {}
    BY <2>2 DEF Dated
  <2>4. Pick(list, D) = <<>>
    BY <2>1, <2>3, PickNone
  <2> QED
    BY <2>4 DEF Alt, list
<1>7. 0 \in Levels /\ 1 \in Levels /\ 2 \in Levels /\ 3 \in Levels
  BY DEF Levels
<1>8. now \in Seq(Elements)
  BY <1>1, <1>7, QueueTypes
<1>9. Cat(<<>>, <<>>) = <<>>
  <2>1. <<>> \in Seq(Elements)
    OBVIOUS
  <2> QED
    BY <2>1, CatEmpty
<1>10. Cat(now, <<>>) = now
  BY <1>8, CatEmpty
<1>11. Cur(s, 1, n) = <<>> /\ Cur(s, 2, n) = <<>> /\ Cur(s, 3, n) = <<>>
       /\ Alt(s, 0, n) = <<>> /\ Alt(s, 1, n) = <<>> /\ Alt(s, 2, n) = <<>>
  BY <1>5, <1>6, <1>7
<1> QED
  BY <1>4, <1>9, <1>10, <1>11 DEF Queue

LEMMA PopSameQueue ==
  ASSUME NEW s \in Wheels, NEW t \in Wheels, NEW d \in Nat, FiledIn(s, Mid(d, 1)),
         Popped(s, t, part(d + 1, 0)), NEW x \in Nat, x # d + 1
  PROVE  Queue(t, x) = Queue(s, x)
<1> DEFINE i == part(d + 1, 0)
           now == s.buffer[0][s.current[0]][i]
<1>1. 0 \in Levels /\ 1 \in Levels /\ 2 \in Levels /\ 3 \in Levels
  BY DEF Levels
<1>2. t.current = s.current
  BY DEF Popped
<1>3. ASSUME NEW l \in Levels, NEW b \in {0, 1}, NEW j \in Bytes, l # 0 \/ b # s.current[0] \/ j # i
      PROVE  t.buffer[l][b][j] = s.buffer[l][b][j]
  BY <1>3 DEF Popped
<1>4. ASSUME NEW l \in Levels
      PROVE  part(x, l) \in Bytes /\ s.current[l] \in {0, 1} /\ 1 - s.current[l] \in {0, 1}
             /\ s.current[l] # 1 - s.current[l]
  <2>1. part(x, l) \in Bytes /\ s.current[l] \in {0, 1} /\ 1 - s.current[l] \in {0, 1}
    BY QueueTypes
  <2> QED
    BY <2>1
<1>5. ASSUME NEW l \in Levels PROVE Alt(t, l, x) = Alt(s, l, x)
  <2> DEFINE b == 1 - s.current[l]
             j == part(x, l)
  <2>1. b \in {0, 1} /\ j \in Bytes /\ (l = 0 => b # s.current[0])
    BY <1>4
  <2> HIDE DEF b, j
  <2>2. t.buffer[l][b][j] = s.buffer[l][b][j]
    BY <1>3, <2>1
  <2> QED
    BY <1>2, <2>2 DEF Alt, b, j
<1>6. ASSUME NEW l \in Levels, l # 0 \/ part(x, l) # i PROVE Cur(t, l, x) = Cur(s, l, x)
  <2> DEFINE b == s.current[l]
             j == part(x, l)
  <2>1. b \in {0, 1} /\ j \in Bytes /\ (l # 0 \/ j # i)
    BY <1>4, <1>6
  <2> HIDE DEF b, j
  <2>2. t.buffer[l][b][j] = s.buffer[l][b][j]
    BY <1>3, <2>1
  <2> QED
    BY <1>2, <2>2 DEF Cur, b, j
<1>7. CASE part(x, 0) = i
  <2>1. now \in Seq(Elements) /\ s.current[0] \in {0, 1} /\ i \in Bytes
    BY <1>1, <1>4, <1>7, QueueTypes
  <2>2. \A e \in Elems(now) : dateOf[e] = d + 1
    BY PopDates
  <2>3. Elems(now) \intersect Dated(x) = {}
    BY <2>2 DEF Dated
  <2> HIDE DEF now
  <2>4. Pick(now, Dated(x)) = <<>>
    BY <2>1, <2>3, PickNone
  <2>5. t.buffer[0][s.current[0]][i] = <<>>
    BY <1>1, <2>1 DEF Popped
  <2>6. Cur(t, 0, x) = <<>> /\ Cur(s, 0, x) = <<>>
    BY <1>2, <1>7, <2>4, <2>5, PickEmpty DEF Cur, now
  <2> QED
    BY <1>1, <1>5, <1>6, <2>6 DEF Queue
<1>8. CASE part(x, 0) # i
  BY <1>1, <1>5, <1>6, <1>8 DEF Queue
<1> QED
  BY <1>7, <1>8

-----------------------------------------------------------------------------
(* The invariant.                                                          *)

Now == [buffer |-> fBuffer, current |-> fCurrent, pos |-> fPos]
Late == {e \in Elements : dateOf[e] <= fDate}

Kept == FiledIn(Now, At(fDate))
Positions == \A k \in 1..3 : fPos[k] = (part(fDate, k) + 1) % Base

\* The elements that wait are those of the ready list, then for each later date those
\* of the lists of that date, in the order of the puts.
Ordered ==
  /\ Elems(order) = Waiting
  /\ fReady = Pick(order, Late)
  /\ \A d \in fDate + 1..LastDate : Pick(order, Dated(d)) = Queue(Now, d)

IInv == TypeOK /\ Kept /\ Positions /\ Ordered

LEMMA NowWheels ==
  ASSUME TypeOK
  PROVE  /\ Now \in Wheels /\ fDate \in Nat /\ Dates
         /\ Now.buffer = fBuffer /\ Now.current = fCurrent /\ Now.pos = fPos
BY LastDateAssumption DEF TypeOK, Now, Wheels, Dates

\* The states of a clock between the levels.
LEMMA ClockLevels ==
  ASSUME TypeOK, Kept, Positions, fDate < LastDate,
         NEW s3, s3 = levelClock(Now, 3, part(fDate + 1, 3)),
         NEW s2, s2 = levelClock(s3, 2, part(fDate + 1, 2)),
         NEW s1, s1 = levelClock(s2, 1, part(fDate + 1, 1))
  PROVE  /\ s1 \in Wheels /\ FiledIn(s1, Mid(fDate, 1)) /\ s1.current[3] = 0
         /\ \A k \in 1..3 : s1.pos[k] = (part(fDate + 1, k) + 1) % Base
         /\ \A d \in Nat : Queue(s1, d) = Queue(Now, d)
<1> DEFINE d == fDate
<1>1. /\ Now \in Wheels /\ d \in Nat
      /\ Now.pos = fPos /\ Now.current = fCurrent
  BY NowWheels
<1>2. Mid(d, 4) = At(d)
  <2>1. d \in 0..LastDate /\ d + 1 \in 0..LastDate
    BY LastDateAssumption DEF TypeOK
  <2>2. U(d, 4) = 0 /\ U(d + 1, 4) = 0
    BY <2>1, LastUnit
  <2>3. \A m \in 0..4 : (IF m >= 4 THEN U(d + 1, m) ELSE U(d, m)) = U(d, m)
    <3> SUFFICES ASSUME NEW m \in 0..4
                 PROVE  (IF m >= 4 THEN U(d + 1, m) ELSE U(d, m)) = U(d, m)
      OBVIOUS
    <3>1. m >= 4 => m = 4
      OBVIOUS
    <3> QED
      BY <2>2, <3>1
  <2> QED
    BY <2>3 DEF Mid, At
<1>3. FiledIn(Now, Mid(d, 3 + 1))
  BY <1>2 DEF Kept
<1>4. \A k \in 1..3 : Now.pos[k] = (part(d, k) + 1) % Base
  BY <1>1 DEF Positions
<1>5. 1 \in 1..3 /\ 2 \in 1..3 /\ 3 \in 1..3
  OBVIOUS
<1> HIDE DEF d
<1>6. /\ s3 \in Wheels /\ FiledIn(s3, Mid(d, 3))
      /\ s3.pos[3] = (part(d + 1, 3) + 1) % Base
      /\ \A l \in 1..3 : l # 3 => s3.pos[l] = Now.pos[l]
      /\ s3.current[3] = Now.current[3]
      /\ \A e \in Nat : Queue(s3, e) = Queue(Now, e)
  <2>1. s3 = levelClock(Now, 3, part(d + 1, 3))
    BY DEF d
  <2> QED
    BY <1>1, <1>3, <1>4, <1>5, <2>1, LevelStep
<1>7. /\ s2 \in Wheels /\ FiledIn(s2, Mid(d, 2))
      /\ s2.pos[2] = (part(d + 1, 2) + 1) % Base
      /\ \A l \in 1..3 : l # 2 => s2.pos[l] = s3.pos[l]
      /\ s2.current[3] = s3.current[3]
      /\ \A e \in Nat : Queue(s2, e) = Queue(s3, e)
  <2>1. s2 = levelClock(s3, 2, part(d + 1, 2)) /\ FiledIn(s3, Mid(d, 2 + 1))
    BY <1>6 DEF d
  <2>2. s3.pos[2] = (part(d, 2) + 1) % Base
    BY <1>4, <1>5, <1>6
  <2> QED
    BY <1>1, <1>5, <1>6, <2>1, <2>2, LevelStep
<1>8. /\ s1 \in Wheels /\ FiledIn(s1, Mid(d, 1))
      /\ s1.pos[1] = (part(d + 1, 1) + 1) % Base
      /\ \A l \in 1..3 : l # 1 => s1.pos[l] = s2.pos[l]
      /\ s1.current[3] = s2.current[3]
      /\ \A e \in Nat : Queue(s1, e) = Queue(s2, e)
  <2>1. s1 = levelClock(s2, 1, part(d + 1, 1)) /\ FiledIn(s2, Mid(d, 1 + 1))
    BY <1>7 DEF d
  <2>2. s2.pos[1] = (part(d, 1) + 1) % Base
    BY <1>4, <1>5, <1>6, <1>7
  <2> QED
    BY <1>1, <1>5, <1>7, <2>1, <2>2, LevelStep
<1>9. s1.pos[2] = (part(d + 1, 2) + 1) % Base /\ s1.pos[3] = (part(d + 1, 3) + 1) % Base
  BY <1>5, <1>6, <1>7, <1>8
<1>10. \A k \in 1..3 : s1.pos[k] = (part(d + 1, k) + 1) % Base
  <2> SUFFICES ASSUME NEW k \in 1..3 PROVE s1.pos[k] = (part(d + 1, k) + 1) % Base
    OBVIOUS
  <2>1. k = 1 \/ k = 2 \/ k = 3
    OBVIOUS
  <2> QED
    BY <1>8, <1>9, <2>1
<1>11. s1.current[3] = 0
  BY <1>1, <1>6, <1>7, <1>8 DEF TypeOK
<1>12. \A e \in Nat : Queue(s1, e) = Queue(Now, e)
  BY <1>6, <1>7, <1>8
<1> QED
  BY <1>8, <1>10, <1>11, <1>12 DEF d

-----------------------------------------------------------------------------
(* The steps.                                                              *)

\* A list is replaced, and no other.
Updated(b, k, c, i, list) == [b EXCEPT ![k][c][i] = list]

Replaced(new, b, k, c, i, list) ==
  \A l \in Levels, a \in {0, 1}, j \in Bytes :
    new[l][a][j] = IF l = k /\ a = c /\ j = i THEN list ELSE b[l][a][j]

LEMMA BufferUpdate ==
  ASSUME NEW b \in Buffers, NEW k \in Levels, NEW c \in {0, 1}, NEW i \in Bytes,
         NEW list \in Seq(Elements), NEW new, new = Updated(b, k, c, i, list)
  PROVE  new \in Buffers /\ Replaced(new, b, k, c, i, list)
<1> DEFINE B == [b[k][c] EXCEPT ![i] = list]
           A == [b[k] EXCEPT ![c] = B]
<1>1. new = [b EXCEPT ![k] = A]
  BY DEF Updated
<1>2. b[k] \in [{0, 1} -> [Bytes -> Seq(Elements)]] /\ b[k][c] \in [Bytes -> Seq(Elements)]
  BY DEF Buffers
<1>3. B \in [Bytes -> Seq(Elements)]
      /\ \A j \in Bytes : B[j] = IF j = i THEN list ELSE b[k][c][j]
  BY <1>2
<1> HIDE DEF B
<1>4. A \in [{0, 1} -> [Bytes -> Seq(Elements)]]
      /\ \A a \in {0, 1} : A[a] = IF a = c THEN B ELSE b[k][a]
  BY <1>2, <1>3
<1> HIDE DEF A
<1>5. new \in Buffers /\ \A l \in Levels : new[l] = IF l = k THEN A ELSE b[l]
  BY <1>1, <1>4 DEF Buffers
<1>6. ASSUME NEW l \in Levels, NEW a \in {0, 1}, NEW j \in Bytes
      PROVE  new[l][a][j] = IF l = k /\ a = c /\ j = i THEN list ELSE b[l][a][j]
  <2>1. CASE l = k /\ a = c
    BY <1>3, <1>4, <1>5, <2>1
  <2>2. CASE l = k /\ a # c
    BY <1>4, <1>5, <2>2
  <2>3. CASE l # k
    BY <1>5, <2>3
  <2> QED
    BY <2>1, <2>2, <2>3
<1> QED
  BY <1>5, <1>6 DEF Replaced

\* What a clock does, on the lists of the dates.
LEMMA ClockStep ==
  ASSUME IInv, clock, NEW t, t = Now'
  PROVE  /\ t \in Wheels /\ t.current[3] = 0
         /\ fDate < LastDate /\ fDate' = fDate + 1
         /\ FiledIn(t, At(fDate + 1))
         /\ \A k \in 1..3 : t.pos[k] = (part(fDate + 1, k) + 1) % Base
         /\ \A x \in Nat : x # fDate + 1 => Queue(t, x) = Queue(Now, x)
         /\ out' = Cat(Pick(order, Late), Pick(order, Dated(fDate + 1)))
         /\ dateOf' = [e \in Elements |-> IF e \in Elements \ Elems(out') THEN dateOf[e] ELSE Never]
         /\ order' = Pick(order, Elements \ Elems(out'))
         /\ fReady' = <<>>
<1> DEFINE d == fDate
           i == part(d + 1, 0)
           s3 == levelClock(Now, 3, part(d + 1, 3))
           s2 == levelClock(s3, 2, part(d + 1, 2))
           s1 == levelClock(s2, 1, part(d + 1, 1))
           c == s1.current[0]
           now == s1.buffer[0][c][i]
           b == s1.buffer
           popped == [b EXCEPT ![0][c][i] = <<>>]
<1>1. /\ d < LastDate /\ fDate' = d + 1 /\ fReady' = <<>>
      /\ out' = fReady \o now
      /\ fBuffer' = popped /\ fCurrent' = s1.current /\ fPos' = s1.pos
      /\ dateOf' = [e \in Elements |->
                      IF e \in Elements \ Elems(fReady \o now) THEN dateOf[e] ELSE Never]
      /\ order' = Pick(order, Elements \ Elems(fReady \o now))
  BY Zenon DEF clock, Now
<1>2. /\ s1 \in Wheels /\ FiledIn(s1, Mid(d, 1)) /\ s1.current[3] = 0
      /\ \A k \in 1..3 : s1.pos[k] = (part(d + 1, k) + 1) % Base
      /\ \A x \in Nat : Queue(s1, x) = Queue(Now, x)
  <2> HIDE DEF s1, s2, s3
  <2>1. s3 = levelClock(Now, 3, part(fDate + 1, 3))
    BY DEF s3
  <2>2. s2 = levelClock(s3, 2, part(fDate + 1, 2))
    BY DEF s2
  <2>3. s1 = levelClock(s2, 1, part(fDate + 1, 1))
    BY DEF s1
  <2> QED
    BY <1>1, <2>1, <2>2, <2>3, ClockLevels DEF IInv
<1> HIDE DEF s1, s2, s3
<1>3. d \in Nat /\ d + 1 \in Nat /\ d + 1 \in fDate + 1..LastDate
  <2>1. d \in 0..LastDate
    BY DEF IInv, TypeOK
  <2>2. LastDate \in Nat
    BY LastDateAssumption
  <2>3. d < LastDate
    BY <1>1
  <2> HIDE DEF d
  <2>4. d \in Nat /\ d + 1 \in Nat /\ d + 1 \in d + 1..LastDate
    BY <2>1, <2>2, <2>3
  <2> QED
    BY <2>4 DEF d
<1>4. 0 \in Levels /\ c \in {0, 1} /\ i \in Bytes /\ b \in Buffers
  <2>1. 0 \in Levels
    BY DEF Levels
  <2> QED
    BY <1>2, <1>3, <2>1, UnitsOfDate, WheelsFields
<1>5. t = [buffer |-> popped, current |-> s1.current, pos |-> s1.pos]
  BY <1>1 DEF Now
<1>6. t.buffer = popped /\ t.current = s1.current /\ t.pos = s1.pos
  BY <1>5
<1> HIDE DEF i, c, b
<1>7. popped \in Buffers
      /\ \A l \in Levels, a \in {0, 1}, j \in Bytes :
           popped[l][a][j] = IF l = 0 /\ a = c /\ j = i THEN <<>> ELSE b[l][a][j]
  <2> DEFINE none == <<>>
             k == 0
  <2>1. none \in Seq(Elements) /\ popped = Updated(b, k, c, i, none)
    BY DEF Updated
  <2>2. k \in Levels
    BY <1>4
  <2> HIDE DEF popped, none, k
  <2>3. popped \in Buffers /\ Replaced(popped, b, k, c, i, none)
    BY <1>4, <2>1, <2>2, BufferUpdate
  <2> QED
    BY <2>3 DEF none, k, Replaced
<1> HIDE DEF popped
<1>8. t \in Wheels
  BY <1>2, <1>5, <1>7, WheelsFields DEF Wheels, Buffers
<1>9. Popped(s1, t, i)
  BY <1>6, <1>7 DEF Popped, b, c
<1>10. FiledIn(t, At(d + 1))
  BY <1>2, <1>3, <1>8, <1>9, PopFiled DEF i
<1>11. ASSUME NEW x \in Nat, x # d + 1 PROVE Queue(t, x) = Queue(Now, x)
  BY <1>2, <1>3, <1>8, <1>9, <1>11, PopSameQueue DEF i
<1>12. now = Pick(order, Dated(d + 1))
  <2>1. Queue(s1, d + 1) = now
    BY <1>2, <1>3, PopQueue DEF i, c
  <2>2. Queue(s1, d + 1) = Queue(Now, d + 1)
    BY <1>2, <1>3
  <2>3. Pick(order, Dated(d + 1)) = Queue(Now, d + 1)
    BY <1>3 DEF IInv, Ordered
  <2> QED
    BY <2>1, <2>2, <2>3
<1> HIDE DEF now
<1>13. out' = Cat(Pick(order, Late), Pick(order, Dated(d + 1)))
  BY <1>1, <1>12 DEF Cat, IInv, Ordered
<1>14. out' = fReady \o now
  BY <1>1
<1>15. /\ dateOf' = [e \in Elements |-> IF e \in Elements \ Elems(out') THEN dateOf[e] ELSE Never]
       /\ order' = Pick(order, Elements \ Elems(out'))
  BY <1>1, <1>14
<1> QED
  BY <1>1, <1>2, <1>6, <1>8, <1>10, <1>11, <1>13, <1>15

\* What is delivered: what was put too late, and the elements of the new date.
LEMMA ClockDelivers ==
  ASSUME IInv, clock
  PROVE  /\ out' \in Seq(Elements)
         /\ Elems(out') = {e \in Waiting : dateOf[e] <= fDate + 1}
         /\ order \in Seq(Elements) /\ Elems(order) = Waiting
         /\ Pick(order, Late) \in Seq(Elements) /\ Pick(order, Dated(fDate + 1)) \in Seq(Elements)
<1> DEFINE a == Pick(order, Late)
           n == Pick(order, Dated(fDate + 1))
<1>1. order \in Seq(Elements) /\ Elems(order) = Waiting
  <2>1. Waiting \subseteq Elements
    BY DEF Waiting
  <2>2. order \in Seq(Waiting)
    BY DEF IInv, TypeOK
  <2> HIDE DEF Waiting
  <2>3. order \in Seq(Elements)
    BY <2>1, <2>2
  <2> QED
    BY <2>3 DEF IInv, Ordered
<1>2. /\ a \in Seq(Elements) /\ Elems(a) = Waiting \intersect Late
      /\ n \in Seq(Elements) /\ Elems(n) = Waiting \intersect Dated(fDate + 1)
  BY <1>1, PickType
<1>3. out' = Cat(a, n)
  <2>1. \E t : t = Now'
    OBVIOUS
  <2> QED
    BY <2>1, ClockStep
<1> HIDE DEF a, n
<1>4. out' \in Seq(Elements) /\ Elems(out') = Elems(a) \union Elems(n)
  BY <1>2, <1>3, CatType
<1>5. \A e \in Waiting : dateOf[e] \in 0..LastDate /\ e \in Elements
  BY DEF Waiting, IInv, TypeOK
<1>6. \A e \in Waiting : (e \in Late \/ e \in Dated(fDate + 1)) <=> dateOf[e] <= fDate + 1
  <2>1. fDate \in Nat
    BY DEF IInv, TypeOK
  <2> QED
    BY <1>5, <2>1 DEF Late, Dated
<1> QED
  BY <1>1, <1>2, <1>4, <1>6 DEF a, n

\* The clock: the elements that it leaves wait for later dates.
LEMMA ClockInductive ==
  ASSUME IInv, clock
  PROVE  IInv'
<1> DEFINE d == fDate
           n == fDate + 1
           gone == Elems(out')
           left == Elements \ gone
<1>1. PICK t : t = Now'
  OBVIOUS
<1>2. /\ t \in Wheels /\ t.current[3] = 0
      /\ d < LastDate /\ fDate' = n
      /\ FiledIn(t, At(n))
      /\ \A k \in 1..3 : t.pos[k] = (part(n, k) + 1) % Base
      /\ \A x \in Nat : x # n => Queue(t, x) = Queue(Now, x)
      /\ dateOf' = [e \in Elements |-> IF e \in left THEN dateOf[e] ELSE Never]
      /\ order' = Pick(order, left)
      /\ fReady' = <<>>
  BY <1>1, ClockStep
<1>3. /\ out' \in Seq(Elements) /\ gone = {e \in Waiting : dateOf[e] <= n}
      /\ order \in Seq(Elements) /\ Elems(order) = Waiting
  BY ClockDelivers
<1>4. t.buffer = fBuffer' /\ t.current = fCurrent' /\ t.pos = fPos'
  BY <1>1 DEF Now
<1>5. /\ dateOf \in [Elements -> 0..LastDate \union {Never}]
      /\ d \in 0..LastDate /\ LastDate \in Nat
  BY LastDateAssumption DEF IInv, TypeOK
<1> HIDE DEF left, gone
<1>6. Waiting' = Waiting \ gone
  <2>1. Waiting' = {e \in Elements : dateOf'[e] # Never}
    BY DEF Waiting
  <2>2. gone \subseteq Waiting
    BY <1>3
  <2>3. \A e \in Elements : dateOf'[e] # Never <=> e \in left /\ dateOf[e] # Never
    BY <1>2, <1>5
  <2> QED
    BY <2>1, <2>2, <2>3 DEF Waiting, left
<1>7. order' \in Seq(Elements) /\ Elems(order') = Waiting'
  <2>1. order' \in Seq(Elements) /\ Elems(order') = Elems(order) \intersect left
    BY <1>2, <1>3, PickType
  <2>2. Waiting \subseteq Elements
    BY DEF Waiting
  <2> QED
    BY <1>3, <1>6, <2>1, <2>2 DEF left
<1>8. n \in 0..LastDate /\ n \in Nat
  <2>1. d < LastDate
    BY <1>2
  <2> QED
    BY <1>5, <2>1
<1>9. TypeOK'
  <2>1. fDate' \in 0..LastDate
    BY <1>2, <1>8
  <2>2. fBuffer' \in [Levels -> [{0, 1} -> [Bytes -> Seq(Elements)]]]
        /\ fCurrent' \in [Levels -> {0, 1}] /\ fCurrent'[3] = 0
        /\ fPos' \in [1..3 -> Bytes]
    BY <1>2, <1>4, WheelsFields DEF Buffers
  <2>3. dateOf' \in [Elements -> 0..LastDate \union {Never}]
    BY <1>2, <1>5
  <2>4. order' \in Seq(Waiting')
    BY <1>7, ElemsType
  <2>5. fReady' \in Seq(Waiting')
    BY <1>2
  <2>6. out' \in Seq(Elements \ Waiting')
    <3>1. out' \in Seq(gone)
      BY <1>3, ElemsType DEF gone
    <3>2. gone \subseteq Elements \ Waiting'
      BY <1>3, <1>6 DEF Waiting
    <3> HIDE DEF Waiting
    <3> QED
      BY <3>1, <3>2
  <2> QED
    BY <2>1, <2>2, <2>3, <2>4, <2>5, <2>6 DEF TypeOK
<1>10. \A x \in Nat : x > n => Dated(x)' = Dated(x) /\ Dated(x) \subseteq left
  <2> SUFFICES ASSUME NEW x \in Nat, x > n PROVE Dated(x)' = Dated(x) /\ Dated(x) \subseteq left
    OBVIOUS
  <2>1. \A e \in Elements : dateOf[e] = x => e \in left
    BY <1>3, <1>8 DEF left
  <2>2. x # Never
    BY DEF Never
  <2>3. \A e \in Elements : dateOf'[e] = x <=> dateOf[e] = x
    BY <1>2, <2>1, <2>2
  <2> QED
    BY <2>1, <2>3 DEF Dated
<1>11. Kept'
  <2>1. ASSUME NEW l \in Levels, NEW b \in {0, 1}, NEW j \in Bytes,
               NEW e \in Elems(fBuffer'[l][b][j])
        PROVE  dateOf'[e] \in 0..LastDate /\ Place(At(n), fCurrent'[l], l, b, j, dateOf'[e])
    <3>1. e \in Elems(t.buffer[l][b][j])
      BY <1>4, <2>1
    <3>2. dateOf[e] \in 0..LastDate /\ dateOf[e] > n
      BY <1>2, <1>8, <3>1, FiledLater
    <3>3. Place(At(n), t.current[l], l, b, j, dateOf[e])
      BY <1>2, <3>1, FiledElem
    <3>4. e \in Elements
      <4>1. t.buffer[l][b][j] \in Seq(Elements)
        BY <1>2, WheelsFields DEF Buffers
      <4> QED
        BY <3>1, <4>1, ElemsType
    <3>5. dateOf'[e] = dateOf[e]
      BY <1>2, <1>3, <1>8, <3>2, <3>4 DEF left
    <3> QED
      BY <1>4, <3>2, <3>3, <3>5
  <2>2. At(fDate)' = At(n)
    BY <1>2 DEF At, U
  <2>3. Now'.buffer = fBuffer' /\ Now'.current = fCurrent'
    BY <1>1, <1>4
  <2> QED
    BY <2>1, <2>2, <2>3 DEF Kept, FiledIn
<1>12. Positions'
  BY <1>2, <1>4 DEF Positions
<1>13. fReady' = Pick(order', Late')
  <2>1. Elems(order') \intersect Late' = {}
    <3>1. ASSUME NEW e \in Waiting \ gone PROVE e \notin Late'
      <4>1. e \in Elements /\ e \in left /\ dateOf[e] # Never
        BY DEF Waiting, left
      <4>2. dateOf'[e] = dateOf[e] /\ dateOf[e] \in 0..LastDate
        BY <1>2, <1>5, <4>1
      <4>3. ~ (dateOf'[e] <= n)
        BY <1>3, <3>1, <4>2
      <4> QED
        BY <1>2, <4>3 DEF Late
    <3> QED
      BY <1>6, <1>7, <3>1
  <2> QED
    BY <1>2, <1>7, <2>1, PickNone
<1>14. ASSUME NEW x \in n + 1..LastDate
       PROVE  Pick(order', Dated(x)') = Queue(Now, x)'
  <2>1. x \in Nat /\ x > n /\ x # n /\ x \in d + 1..LastDate
    BY <1>5, <1>8
  <2>2. Dated(x)' = Dated(x) /\ left \intersect Dated(x) = Dated(x)
    BY <1>10, <2>1
  <2>3. Queue(Now, x)' = Queue(t, x)
    BY <1>1, <2>2 DEF Queue, Cur, Alt
  <2>4. Pick(order', Dated(x)) = Pick(order, Dated(x))
    BY <1>2, <1>3, <2>2, PickPick
  <2>5. Pick(order, Dated(x)) = Queue(Now, x)
    BY <2>1 DEF IInv, Ordered
  <2> QED
    BY <1>2, <2>1, <2>2, <2>3, <2>4, <2>5
<1>15. Ordered'
  BY <1>2, <1>7, <1>13, <1>14 DEF Ordered
<1> QED
  BY <1>9, <1>11, <1>12, <1>15 DEF IInv

\* Two dates that have a unit in common have those above it in common.
LEMMA SameAbove ==
  ASSUME NEW c \in Nat, NEW d \in Nat, NEW k \in Levels, U(c, k) = U(d, k)
  PROVE  U(c, k + 1) = U(d, k + 1) /\ part(c, k) = part(d, k)
<1>1. /\ U(c, k) = Base * U(c, k + 1) + part(c, k)
      /\ U(d, k) = Base * U(d, k + 1) + part(d, k)
      /\ part(c, k) \in Bytes /\ part(d, k) \in Bytes
  BY UnitsOfDate
<1>2. U(c, k + 1) \in Nat /\ U(d, k + 1) \in Nat
  <2>1. k + 1 \in 0..4
    BY DEF Levels
  <2> QED
    BY <2>1, UnitsOfDate
<1> DEFINE x == U(c, k + 1)
           y == U(d, k + 1)
           p == part(c, k)
           q == part(d, k)
<1>3. Base * x + p = Base * y + q /\ x \in Nat /\ y \in Nat /\ p \in Bytes /\ q \in Bytes
  BY <1>1, <1>2
<1> HIDE DEF x, y, p, q
<1>4. x = y /\ p = q
  BY <1>3, Digits
<1> QED
  BY <1>4 DEF x, y, p, q

\* A later date has a level: that of its first byte which is not the one of the current date.
LEMMA LevelOfDate ==
  ASSUME fDate \in 0..LastDate, NEW d \in 0..LastDate, fDate < d
  PROVE  /\ Above(d) # {} /\ Level(d) \in Levels
         /\ U(fDate, Level(d)) < U(d, Level(d))
         /\ \A m \in 0..4 : m > Level(d) => U(d, m) = U(fDate, m)
<1> DEFINE f == fDate
           Same(k) == U(d, k) = U(f, k)
<1>1. d \in Nat /\ f \in Nat /\ Same(4)
  BY LastUnit
<1>2. ~ Same(0)
  <2>1. U(d, 0) = d /\ U(f, 0) = f
    BY <1>1, UnitsOfDate
  <2> QED
    BY <1>1, <2>1
<1>3. PICK k \in Levels : ~ Same(k) /\ \A m \in 0..4 : m > k => Same(m)
  <2>1. 0 \in Levels /\ 1 \in Levels /\ 2 \in Levels /\ 3 \in Levels
    BY DEF Levels
  <2>2. \A k \in 0..3 : \A m \in 0..4 : m > k => m \in {j \in {1, 2, 3, 4} : j > k}
    OBVIOUS
  <2> HIDE DEF Same
  <2>3. CASE ~ Same(3)
    <3>1. \A m \in 0..4 : m > 3 => m = 4
      OBVIOUS
    <3> QED
      BY <1>1, <2>1, <2>3, <3>1
  <2>4. CASE Same(3) /\ ~ Same(2)
    <3>1. \A m \in 0..4 : m > 2 => m = 3 \/ m = 4
      OBVIOUS
    <3> QED
      BY <1>1, <2>1, <2>4, <3>1
  <2>5. CASE Same(3) /\ Same(2) /\ ~ Same(1)
    <3>1. \A m \in 0..4 : m > 1 => m = 2 \/ m = 3 \/ m = 4
      OBVIOUS
    <3> QED
      BY <1>1, <2>1, <2>5, <3>1
  <2>6. CASE Same(3) /\ Same(2) /\ Same(1)
    <3>1. \A m \in 0..4 : m > 0 => m = 1 \/ m = 2 \/ m = 3 \/ m = 4
      OBVIOUS
    <3> QED
      BY <1>1, <1>2, <2>1, <2>6, <3>1
  <2> QED
    BY <2>3, <2>4, <2>5, <2>6
<1>4. k \in 0..4 /\ k + 1 \in 0..4 /\ k + 1 > k /\ k \in Nat
  BY DEF Levels
<1>5. U(d, k) \in Nat /\ U(f, k) \in Nat
  BY <1>1, <1>4, UnitsOfDate
<1>6. U(f, k) < U(d, k)
  <2>1. ~ (U(d, k) < U(f, k))
    <3>1. ~ (d < f)
      BY <1>1
    <3> HIDE DEF f
    <3> QED
      BY <1>1, <1>4, <3>1, UnitMonotonic
  <2> QED
    BY <1>3, <1>5, <2>1
<1>7. k \in Above(d)
  <2>1. U(d, k + 1) = U(f, k + 1)
    BY <1>3, <1>4
  <2>2. /\ U(d, k) = Base * U(d, k + 1) + part(d, k)
        /\ U(f, k) = Base * U(f, k + 1) + part(f, k)
        /\ part(d, k) \in Bytes /\ part(f, k) \in Bytes
    BY <1>1, UnitsOfDate
  <2>3. U(f, k + 1) \in Nat
    BY <1>1, <1>4, UnitsOfDate
  <2> HIDE DEF f
  <2>4. part(f, k) < part(d, k)
    BY <1>6, <2>1, <2>2, <2>3, Digits
  <2>5. part(f, k) \in Int /\ part(d, k) \in Int
    BY <2>2 DEF Bytes
  <2>6. part(d, k) > part(f, k)
    BY <2>4, <2>5
  <2> QED
    BY <2>6 DEF Above, f
<1>8. \A j \in Above(d) : j <= k
  <2> SUFFICES ASSUME NEW j \in Levels, j > k PROVE j \notin Above(d)
    BY <1>4 DEF Above, Levels
  <2>1. Same(j)
    <3>1. j \in 0..4
      BY DEF Levels
    <3> QED
      BY <1>3, <3>1
  <2>2. part(d, j) = part(f, j)
    BY <1>1, <2>1, SameAbove
  <2>3. part(f, j) \in Nat
    BY <1>1, UnitsOfDate DEF Bytes
  <2> HIDE DEF f
  <2>4. ~ (part(d, j) > part(f, j))
    BY <2>2, <2>3
  <2> QED
    BY <2>4 DEF Above, f
<1>9. Level(d) = k
  <2>1. /\ Level(d) \in Above(d) /\ \A j \in Above(d) : j <= Level(d)
    BY <1>7, <1>8 DEF Level
  <2>2. Level(d) \in Nat
    BY <2>1 DEF Above, Levels
  <2> QED
    BY <1>4, <1>7, <1>8, <2>1, <2>2
<1> QED
  BY <1>3, <1>6, <1>7, <1>9

\* The end of a queue: when the lists that follow one are empty, what is appended to it is
\* appended to the queue.
LEMMA CatFront ==
  ASSUME NEW x \in Seq(Elements), NEW y \in Seq(Elements), NEW r \in Seq(Elements),
         NEW z \in Seq(Elements)
  PROVE  /\ Cat(x, Cat(y, Cat(r, z))) = Cat(Cat(x, Cat(y, r)), z)
         /\ Cat(x, Cat(y, r)) \in Seq(Elements)
         /\ Cat(x, Cat(<<>>, <<>>)) = x
<1>1. Cat(y, r) \in Seq(Elements)
  BY CatType
<1>2. Cat(y, Cat(r, z)) = Cat(Cat(y, r), z)
  BY CatAssociative
<1>3. Cat(x, Cat(Cat(y, r), z)) = Cat(Cat(x, Cat(y, r)), z)
  BY <1>1, CatAssociative
<1>4. Cat(x, Cat(y, r)) \in Seq(Elements)
  BY <1>1, CatType
<1>5. <<>> \in Seq(Elements)
  OBVIOUS
<1>6. Cat(<<>>, <<>>) = <<>> /\ Cat(x, <<>>) = x
  BY <1>5, CatEmpty
<1> QED
  BY <1>2, <1>3, <1>4, <1>6

Chain(c, a) ==
  Cat(c[0], Cat(a[0], Cat(c[1], Cat(a[1], Cat(c[2], Cat(a[2], c[3]))))))

LEMMA ChainType ==
  ASSUME NEW c0 \in Seq(Elements), NEW c1 \in Seq(Elements), NEW c2 \in Seq(Elements),
         NEW c3 \in Seq(Elements), NEW a0 \in Seq(Elements), NEW a1 \in Seq(Elements),
         NEW a2 \in Seq(Elements)
  PROVE  Cat(c0, Cat(a0, Cat(c1, Cat(a1, Cat(c2, Cat(a2, c3)))))) \in Seq(Elements)
<1>1. Cat(c2, Cat(a2, c3)) \in Seq(Elements)
  BY CatFront
<1> DEFINE r2 == Cat(c2, Cat(a2, c3))
           r1 == Cat(c1, Cat(a1, r2))
<1> HIDE DEF r2, r1
<1>2. r1 \in Seq(Elements)
  BY <1>1, CatFront DEF r1, r2
<1>3. Cat(c0, Cat(a0, r1)) \in Seq(Elements)
  BY <1>2, CatFront
<1> QED
  BY <1>3 DEF r1, r2

LEMMA ChainEnd ==
  ASSUME NEW c \in [Levels -> Seq(Elements)], NEW n \in [Levels -> Seq(Elements)],
         NEW a \in [Levels -> Seq(Elements)], NEW k \in Levels, NEW z \in Seq(Elements),
         n[k] = Cat(c[k], z),
         \A m \in Levels : m > k => c[m] = <<>>,
         \A m \in Levels : m >= k => a[m] = <<>>,
         \A m \in Levels : m # k => n[m] = c[m]
  PROVE  Chain(n, a) = Cat(Chain(c, a), z)
<1> DEFINE r3 == c[3]
           r2 == Cat(c[2], Cat(a[2], r3))
           r1 == Cat(c[1], Cat(a[1], r2))
           r0 == Cat(c[0], Cat(a[0], r1))
           s3 == n[3]
           s2 == Cat(n[2], Cat(a[2], s3))
           s1 == Cat(n[1], Cat(a[1], s2))
           s0 == Cat(n[0], Cat(a[0], s1))
           Same(m) == n[m] = c[m]
           Here(m) == n[m] = Cat(c[m], z)
           NoneLeft(m) == n[m] = <<>> /\ c[m] = <<>>
           Out(m) == a[m] = <<>>
<1>1. 0 \in Levels /\ 1 \in Levels /\ 2 \in Levels /\ 3 \in Levels
  BY DEF Levels
<1>2. /\ c[0] \in Seq(Elements) /\ c[1] \in Seq(Elements) /\ c[2] \in Seq(Elements)
      /\ c[3] \in Seq(Elements) /\ a[0] \in Seq(Elements) /\ a[1] \in Seq(Elements)
      /\ a[2] \in Seq(Elements)
  BY <1>1
<1>3. r3 \in Seq(Elements) /\ r2 \in Seq(Elements) /\ r1 \in Seq(Elements)
  <2> HIDE DEF r1, r2, r3
  <2>1. r3 \in Seq(Elements)
    BY <1>2 DEF r3
  <2>2. r2 \in Seq(Elements)
    BY <1>2, <2>1, CatFront DEF r2
  <2>3. r1 \in Seq(Elements)
    BY <1>2, <2>2, CatFront DEF r1
  <2> QED
    BY <2>1, <2>2, <2>3
<1> HIDE DEF r0, r1, r2, r3, s0, s1, s2, s3
<1>4. s3 = Cat(r3, z) /\ Same(2) => s2 = Cat(r2, z)
  <2> DEFINE x == c[2]
             y == a[2]
  <2>1. x \in Seq(Elements) /\ y \in Seq(Elements) /\ r3 \in Seq(Elements)
    BY <1>2, <1>3
  <2> HIDE DEF x, y
  <2>2. Cat(x, Cat(y, Cat(r3, z))) = Cat(Cat(x, Cat(y, r3)), z)
    BY <2>1, CatFront
  <2> QED
    BY <2>2 DEF r2, s2, x, y
<1>5. s2 = Cat(r2, z) /\ Same(1) => s1 = Cat(r1, z)
  <2> DEFINE x == c[1]
             y == a[1]
  <2>1. x \in Seq(Elements) /\ y \in Seq(Elements) /\ r2 \in Seq(Elements)
    BY <1>2, <1>3
  <2> HIDE DEF x, y
  <2>2. Cat(x, Cat(y, Cat(r2, z))) = Cat(Cat(x, Cat(y, r2)), z)
    BY <2>1, CatFront
  <2> QED
    BY <2>2 DEF r1, s1, x, y
<1>6. s1 = Cat(r1, z) /\ Same(0) => s0 = Cat(r0, z)
  <2> DEFINE x == c[0]
             y == a[0]
  <2>1. x \in Seq(Elements) /\ y \in Seq(Elements) /\ r1 \in Seq(Elements)
    BY <1>2, <1>3
  <2> HIDE DEF x, y
  <2>2. Cat(x, Cat(y, Cat(r1, z))) = Cat(Cat(x, Cat(y, r1)), z)
    BY <2>1, CatFront
  <2> QED
    BY <2>2 DEF r0, s0, x, y
<1>7. Here(3) => s3 = Cat(r3, z)
  BY DEF r3, s3
<1>8. /\ NoneLeft(3) /\ Out(2) /\ Here(2) => s2 = Cat(r2, z)
      /\ NoneLeft(3) /\ Out(2) /\ NoneLeft(2) => s2 = <<>> /\ r2 = <<>>
  <2>1. <<>> \in Seq(Elements)
    OBVIOUS
  <2>2. Cat(c[2], z) \in Seq(Elements)
    BY <1>2, CatType
  <2>3. NoneLeft(3) /\ Out(2) => s2 = n[2] /\ r2 = c[2]
    <3>1. n[2] \in Seq(Elements)
      BY <1>1
    <3> QED
      BY <1>2, <2>1, <3>1, CatFront DEF r2, s2, r3, s3
  <2> QED
    BY <2>3
<1>9. /\ s2 = <<>> /\ r2 = <<>> /\ Out(1) /\ Here(1) => s1 = Cat(r1, z)
      /\ s2 = <<>> /\ r2 = <<>> /\ Out(1) /\ NoneLeft(1) => s1 = <<>> /\ r1 = <<>>
  <2>1. <<>> \in Seq(Elements) /\ n[1] \in Seq(Elements)
    BY <1>1
  <2>2. s2 = <<>> /\ r2 = <<>> /\ Out(1) => s1 = n[1] /\ r1 = c[1]
    BY <1>2, <2>1, CatFront DEF r1, s1
  <2> QED
    BY <2>2
<1>10. s1 = <<>> /\ r1 = <<>> /\ Out(0) /\ Here(0) => s0 = Cat(r0, z)
  <2>1. <<>> \in Seq(Elements) /\ n[0] \in Seq(Elements)
    BY <1>1
  <2>2. s1 = <<>> /\ r1 = <<>> /\ Out(0) => s0 = n[0] /\ r0 = c[0]
    BY <1>2, <2>1, CatFront DEF r0, s0
  <2> QED
    BY <2>2
<1>11. \/ Here(3) /\ Same(2) /\ Same(1) /\ Same(0)
       \/ NoneLeft(3) /\ Out(2) /\ Here(2) /\ Same(1) /\ Same(0)
       \/ NoneLeft(3) /\ Out(2) /\ NoneLeft(2) /\ Out(1) /\ Here(1) /\ Same(0)
       \/ NoneLeft(3) /\ Out(2) /\ NoneLeft(2) /\ Out(1) /\ NoneLeft(1) /\ Out(0) /\ Here(0)
  <2>1. CASE k = 3
    <3>1. Here(3) /\ Same(2) /\ Same(1) /\ Same(0)
      BY <1>1, <2>1
    <3> QED
      BY <3>1
  <2>2. CASE k = 2
    <3>1. NoneLeft(3) /\ Out(2) /\ Here(2) /\ Same(1) /\ Same(0)
      BY <1>1, <2>2
    <3> QED
      BY <3>1
  <2>3. CASE k = 1
    <3>1. NoneLeft(3) /\ Out(2) /\ NoneLeft(2) /\ Out(1) /\ Here(1) /\ Same(0)
      BY <1>1, <2>3
    <3> QED
      BY <3>1
  <2>4. CASE k = 0
    <3>1. NoneLeft(3) /\ Out(2) /\ NoneLeft(2) /\ Out(1) /\ NoneLeft(1) /\ Out(0) /\ Here(0)
      BY <1>1, <2>4
    <3> QED
      BY <3>1
  <2>5. k = 0 \/ k = 1 \/ k = 2 \/ k = 3
    BY DEF Levels
  <2> HIDE DEF Same, Here, NoneLeft, Out
  <2> QED
    BY <2>1, <2>2, <2>3, <2>4, <2>5
<1> HIDE DEF Same, Here, NoneLeft, Out
<1>12. s0 = Cat(r0, z)
  BY <1>4, <1>5, <1>6, <1>7, <1>8, <1>9, <1>10, <1>11
<1>13. Chain(n, a) = s0 /\ Chain(c, a) = r0
  BY DEF Chain, r0, r1, r2, r3, s0, s1, s2, s3
<1> QED
  BY <1>12, <1>13

\* An element that is not in a list does not change what is picked from it.
LEMMA PickMore ==
  ASSUME NEW T, NEW list \in Seq(T), NEW e, e \notin Elems(list), NEW S, NEW R,
         R \in {S, S \union {e}, S \ {e}}
  PROVE  Pick(list, R) = Pick(list, S)
<1>1. \A x \in Elems(list) : x \in R <=> x \in S
  OBVIOUS
<1> QED
  BY <1>1, PickSame

LEMMA AppendCat ==
  ASSUME NEW T, NEW list \in Seq(T), NEW e \in T
  PROVE  Append(list, e) = Cat(list, <<e>>) /\ <<e>> \in Seq(T)
BY DEF Cat

\* What a put changes, beside the lists: the date of an element that was in none.
LEMMA PutStep ==
  ASSUME IInv, NEW e \in Elements, NEW date \in 0..LastDate, put(e, date)
  PROVE  /\ dateOf[e] = Never /\ e \notin Waiting /\ Waiting' = Waiting \union {e}
         /\ order \in Seq(Elements) /\ Elems(order) = Waiting
         /\ order' = Append(order, e) /\ order' \in Seq(Elements) /\ Elems(order') = Waiting'
         /\ dateOf' = [dateOf EXCEPT ![e] = date]
         /\ dateOf' \in [Elements -> 0..LastDate \union {Never}]
         /\ fDate' = fDate /\ fCurrent' = fCurrent /\ fPos' = fPos /\ out' = <<>>
         /\ date \in Nat /\ fDate \in 0..LastDate /\ LastDate \in Nat
<1>1. /\ dateOf[e] = Never /\ dateOf' = [dateOf EXCEPT ![e] = date]
      /\ order' = Append(order, e) /\ out' = <<>>
      /\ fDate' = fDate /\ fCurrent' = fCurrent /\ fPos' = fPos
  BY Zenon DEF put
<1>2. /\ dateOf \in [Elements -> 0..LastDate \union {Never}] /\ order \in Seq(Waiting)
      /\ fDate \in 0..LastDate
  BY DEF IInv, TypeOK
<1>3. LastDate \in Nat
  BY LastDateAssumption
<1>4. date \in Nat /\ date # Never
  BY <1>3 DEF Never
<1>5. dateOf' \in [Elements -> 0..LastDate \union {Never}]
      /\ \A x \in Elements : dateOf'[x] = IF x = e THEN date ELSE dateOf[x]
  BY <1>1, <1>2
<1>6. e \notin Waiting /\ Waiting' = Waiting \union {e} /\ Waiting \subseteq Elements
  BY <1>1, <1>4, <1>5 DEF Waiting
<1> HIDE DEF Waiting
<1>7. order \in Seq(Elements) /\ Elems(order) = Waiting
  BY <1>2, <1>6 DEF IInv, Ordered
<1>8. order' \in Seq(Elements) /\ Elems(order') = Waiting'
  <2>1. Append(order, e) \in Seq(Elements) /\ Elems(Append(order, e)) = Waiting \union {e}
    BY <1>7, ElemsAppend
  <2> QED
    BY <1>1, <1>6, <2>1
<1> QED
  BY <1>1, <1>2, <1>3, <1>4, <1>5, <1>6, <1>7, <1>8

\* Where an element that is put for a later date goes, and the lists that follow.
LEMMA PutPlace ==
  ASSUME IInv, NEW date \in 0..LastDate, fDate < date, NEW k, k = Level(date)
  PROVE  /\ k \in Levels /\ part(date, k) \in Bytes /\ fCurrent[k] \in {0, 1}
         /\ Place(At(fDate), fCurrent[k], k, fCurrent[k], part(date, k), date)
         /\ \A m \in Levels : m > k => Cur(Now, m, date) = <<>>
         /\ \A m \in Levels : m >= k => Alt(Now, m, date) = <<>>
<1> DEFINE f == fDate
           v == At(fDate)
           c(m) == fCurrent[m]
           j(m) == part(date, m)
<1>1. /\ k \in Levels /\ U(f, k) < U(date, k)
      /\ \A m \in 0..4 : m > k => U(date, m) = U(f, m)
  <2>1. fDate \in 0..LastDate
    BY DEF IInv, TypeOK
  <2> QED
    BY <2>1, LevelOfDate
<1>2. date \in Nat /\ f \in Nat
  BY LastDateAssumption DEF IInv, TypeOK
<1>3. Now \in Wheels /\ Now.buffer = fBuffer /\ Now.current = fCurrent
  BY NowWheels DEF IInv
<1>4. ASSUME NEW m \in Levels
      PROVE  /\ j(m) \in Bytes /\ c(m) \in {0, 1} /\ 1 - c(m) \in {0, 1} /\ c(m) # 1 - c(m)
             /\ fBuffer[m][c(m)][j(m)] \in Seq(Elements)
             /\ fBuffer[m][1 - c(m)][j(m)] \in Seq(Elements)
             /\ m \in 0..4 /\ m + 1 \in 0..4 /\ v[m] = U(f, m) /\ v[m + 1] = U(f, m + 1)
             /\ v[m] \in Nat /\ v[m + 1] \in Nat
  <2>1. j(m) \in Bytes /\ c(m) \in {0, 1} /\ 1 - c(m) \in {0, 1}
        /\ \A b \in {0, 1}, i \in Bytes : fBuffer[m][b][i] \in Seq(Elements)
    BY <1>2, <1>3, QueueTypes
  <2>2. c(m) # 1 - c(m)
    BY <2>1
  <2>3. m \in 0..4 /\ m + 1 \in 0..4
    BY DEF Levels
  <2>4. v[m] = U(f, m) /\ v[m + 1] = U(f, m + 1) /\ U(f, m) \in Nat /\ U(f, m + 1) \in Nat
    BY <1>2, <2>3, AtType, UnitsOfDate
  <2> QED
    BY <2>1, <2>2, <2>3, <2>4
<1>5. Place(v, c(k), k, c(k), j(k), date)
  <2>1. k + 1 > k
    BY <1>1 DEF Levels
  <2> QED
    BY <1>1, <1>4, <2>1 DEF Place
<1>6. FiledIn(Now, v)
  BY DEF IInv, Kept
<1> HIDE DEF v, f
<1>7. ASSUME NEW m \in Levels, m > k PROVE Cur(Now, m, date) = <<>>
  <2> DEFINE list == fBuffer[m][c(m)][j(m)]
  <2>1. ASSUME NEW x \in Elems(list), dateOf[x] = date PROVE FALSE
    <3>1. Place(v, c(m), m, c(m), j(m), date)
      BY <1>3, <1>4, <1>6, <2>1, FiledElem
    <3>2. U(date, m) = v[m]
      BY <1>1, <1>4, <1>7
    <3> QED
      BY <1>4, <3>1, <3>2 DEF Place
  <2>2. list \in Seq(Elements)
    BY <1>4
  <2> HIDE DEF list
  <2>3. Elems(list) \intersect Dated(date) = {}
    BY <2>1 DEF Dated
  <2>4. Pick(list, Dated(date)) = <<>>
    BY <2>2, <2>3, PickNone
  <2> QED
    BY <1>3, <2>4 DEF Cur, list
<1>8. ASSUME NEW m \in Levels, m >= k PROVE Alt(Now, m, date) = <<>>
  <2> DEFINE list == fBuffer[m][1 - c(m)][j(m)]
  <2>1. ASSUME NEW x \in Elems(list), dateOf[x] = date PROVE FALSE
    <3>1. Place(v, c(m), m, 1 - c(m), j(m), date)
      BY <1>3, <1>4, <1>6, <2>1, FiledElem
    <3>2. U(date, m + 1) = v[m + 1]
      <4>1. m + 1 > k
        BY <1>1, <1>8 DEF Levels
      <4> QED
        BY <1>1, <1>4, <4>1
    <3> QED
      BY <1>4, <3>1, <3>2 DEF Place
  <2>2. list \in Seq(Elements)
    BY <1>4
  <2> HIDE DEF list
  <2>3. Elems(list) \intersect Dated(date) = {}
    BY <2>1 DEF Dated
  <2>4. Pick(list, Dated(date)) = <<>>
    BY <2>2, <2>3, PickNone
  <2> QED
    BY <1>3, <2>4 DEF Alt, list
<1>9. j(k) \in Bytes /\ c(k) \in {0, 1}
  BY <1>1, <1>4
<1> QED
  BY <1>1, <1>5, <1>7, <1>8, <1>9 DEF v

\* The lists after a put, by its two cases.
PutReady(e, date) == date <= fDate /\ fReady' = Append(fReady, e) /\ fBuffer' = fBuffer
PutFiled(e, date) ==
  LET k == Level(date)
      i == part(date, k)
      list == Append(fBuffer[k][fCurrent[k]][i], e)
  IN  /\ fDate < date /\ fReady' = fReady
      /\ Replaced(fBuffer', fBuffer, k, fCurrent[k], i, list)

LEMMA PutCases ==
  ASSUME IInv, NEW e \in Elements, NEW date \in 0..LastDate, put(e, date)
  PROVE  fBuffer' \in Buffers /\ (PutReady(e, date) \/ PutFiled(e, date))
<1> DEFINE k == Level(date)
           i == part(date, k)
           c == fCurrent[k]
           old == fBuffer[k][c][i]
           list == Append(old, e)
<1>1. fDate \in 0..LastDate /\ LastDate \in Nat /\ fBuffer \in Buffers
  BY LastDateAssumption DEF IInv, TypeOK, Buffers
<1>2. CASE date <= fDate \/ Above(date) = {}
  <2>1. fReady' = Append(fReady, e) /\ fBuffer' = fBuffer
    BY <1>2, Zenon DEF put
  <2>2. ~ (fDate < date)
    <3>1. CASE date <= fDate
      BY <1>1, <3>1
    <3>2. CASE Above(date) = {}
      BY <1>1, <3>2, LevelOfDate
    <3> QED
      BY <1>2, <3>1, <3>2
  <2>3. date <= fDate
    BY <1>1, <2>2
  <2> QED
    BY <1>1, <2>1, <2>3 DEF PutReady
<1>3. CASE ~ (date <= fDate \/ Above(date) = {})
  <2>1. fBuffer' = [fBuffer EXCEPT ![k][c][i] = list] /\ fReady' = fReady
    BY <1>3, Zenon DEF put
  <2>2. fDate < date
    BY <1>1, <1>3
  <2>3. k \in Levels /\ i \in Bytes /\ c \in {0, 1}
    BY <2>2, PutPlace
  <2>4. fBuffer' = Updated(fBuffer, k, c, i, list)
    BY <2>1, Zenon DEF Updated
  <2> HIDE DEF k, i, c
  <2>5. old \in Seq(Elements)
    BY <1>1, <2>3 DEF Buffers
  <2> HIDE DEF old
  <2>6. list \in Seq(Elements)
    BY <2>5
  <2> HIDE DEF list
  <2>7. fBuffer' \in Buffers /\ Replaced(fBuffer', fBuffer, k, c, i, list)
    BY <1>1, <2>3, <2>4, <2>6, BufferUpdate
  <2>8. PutFiled(e, date)
    BY <2>1, <2>2, <2>7, Zenon DEF PutFiled, k, c, i, list, old
  <2> QED
    BY <2>7, <2>8
<1> QED
  BY <1>2, <1>3

\* What each list becomes: the one of the element is longer, the others are the same.
ListOf(l, b, j, date) ==
  fDate < date /\ l = Level(date) /\ b = fCurrent[l] /\ j = part(date, l)

ListStep(l, b, j, e, date) ==
  fBuffer'[l][b][j] = IF ListOf(l, b, j, date) THEN Append(fBuffer[l][b][j], e)
                      ELSE fBuffer[l][b][j]

LEMMA PutLists ==
  ASSUME IInv, NEW e \in Elements, NEW date \in 0..LastDate, put(e, date),
         NEW l \in Levels, NEW b \in {0, 1}, NEW j \in Bytes
  PROVE  /\ fBuffer[l][b][j] \in Seq(Elements) /\ e \notin Elems(fBuffer[l][b][j])
         /\ ListStep(l, b, j, e, date)
<1> DEFINE old == fBuffer[l][b][j]
<1>1. Now \in Wheels /\ Now.buffer = fBuffer /\ FiledIn(Now, At(fDate))
  BY NowWheels DEF IInv, Kept
<1>2. old \in Seq(Elements)
  BY <1>1, WheelsFields DEF Buffers
<1>3. e \notin Elems(old)
  <2>1. \A x \in Elems(old) : dateOf[x] \in 0..LastDate
    BY <1>1, FiledElem
  <2>2. dateOf[e] = Never /\ Never \notin 0..LastDate
    <3>1. dateOf[e] = Never
      BY PutStep
    <3> QED
      BY <3>1, LastDateAssumption DEF Never
  <2> QED
    BY <2>1, <2>2
<1>4. PutReady(e, date) \/ PutFiled(e, date)
  BY PutCases
<1>5. CASE PutReady(e, date)
  <2>1. ~ (fDate < date) /\ fBuffer' = fBuffer
    <3>1. fDate \in Nat /\ date \in Nat
      BY PutStep
    <3> QED
      BY <1>5, <3>1 DEF PutReady
  <2> QED
    BY <1>2, <1>3, <2>1 DEF ListOf, ListStep
<1>6. CASE PutFiled(e, date)
  <2> DEFINE k == Level(date)
             i == part(date, k)
             list == Append(fBuffer[k][fCurrent[k]][i], e)
  <2>1. fDate < date /\ Replaced(fBuffer', fBuffer, k, fCurrent[k], i, list)
    BY <1>6, Zenon DEF PutFiled
  <2> HIDE DEF k, old
  <2>2. fBuffer'[l][b][j] = IF l = k /\ b = fCurrent[k] /\ j = i THEN list ELSE old
    <3> HIDE DEF list, i
    <3> QED
      BY <2>1 DEF Replaced, old
  <2>3. l = k /\ b = fCurrent[k] /\ j = i => list = Append(old, e)
    BY DEF old
  <2> HIDE DEF list
  <2>4. fBuffer'[l][b][j] = IF l = k /\ b = fCurrent[l] /\ j = part(date, l) THEN Append(old, e) ELSE old
    BY <2>2, <2>3
  <2> QED
    BY <1>2, <1>3, <2>1, <2>4 DEF old, k, ListOf, ListStep
<1> QED
  BY <1>4, <1>5, <1>6

LEMMA PutDated ==
  ASSUME IInv, NEW e \in Elements, NEW date \in 0..LastDate, put(e, date), NEW x \in Nat
  PROVE  /\ Dated(x)' = IF x = date THEN Dated(x) \union {e} ELSE Dated(x)
         /\ e \notin Dated(x) /\ Dated(x)' \in {Dated(x), Dated(x) \union {e}, Dated(x) \ {e}}
<1>1. /\ dateOf[e] = Never /\ dateOf' = [dateOf EXCEPT ![e] = date]
      /\ dateOf \in [Elements -> 0..LastDate \union {Never}]
  BY PutStep DEF IInv, TypeOK
<1>2. \A y \in Elements : dateOf'[y] = IF y = e THEN date ELSE dateOf[y]
  BY <1>1
<1>3. e \notin Dated(x)
  BY <1>1 DEF Dated, Never
<1>4. Dated(x)' = {y \in Elements : dateOf'[y] = x}
  BY DEF Dated
<1>5. CASE x = date
  BY <1>2, <1>3, <1>4, <1>5 DEF Dated
<1>6. CASE x # date
  BY <1>1, <1>2, <1>3, <1>4, <1>6 DEF Dated, Never
<1> QED
  BY <1>3, <1>5, <1>6

\* The queues after a put: the one of its date is longer, the others are the same.
LEMMA PutQueue ==
  ASSUME IInv, NEW e \in Elements, NEW date \in 0..LastDate, put(e, date),
         NEW x \in Nat, fDate < x
  PROVE  Queue(Now, x)' = IF x = date THEN Append(Queue(Now, x), e) ELSE Queue(Now, x)
<1> DEFINE D == Dated(x)
           k == Level(date)
<1>1. /\ Now \in Wheels /\ Now.buffer = fBuffer /\ Now.current = fCurrent
      /\ Now'.buffer = fBuffer' /\ Now'.current = fCurrent
  <2>1. fCurrent' = fCurrent
    BY PutStep
  <2>2. Now \in Wheels /\ Now.buffer = fBuffer /\ Now.current = fCurrent
    BY NowWheels DEF IInv
  <2>3. Now' = [buffer |-> fBuffer', current |-> fCurrent', pos |-> fPos']
    BY DEF Now
  <2> QED
    BY <2>1, <2>2, <2>3
<1>2. /\ D' = IF x = date THEN D \union {e} ELSE D
      /\ e \notin D /\ D' \in {D, D \union {e}, D \ {e}}
  BY PutDated
<1>3. ASSUME NEW l \in Levels
      PROVE  /\ part(x, l) \in Bytes /\ fCurrent[l] \in {0, 1} /\ 1 - fCurrent[l] \in {0, 1}
             /\ fCurrent[l] # 1 - fCurrent[l]
             /\ Cur(Now, l, x) \in Seq(Elements) /\ Alt(Now, l, x) \in Seq(Elements)
  <2>1. part(x, l) \in Bytes /\ fCurrent[l] \in {0, 1} /\ 1 - fCurrent[l] \in {0, 1}
        /\ Cur(Now, l, x) \in Seq(Elements) /\ Alt(Now, l, x) \in Seq(Elements)
    BY <1>1, QueueTypes
  <2> QED
    BY <2>1
<1> HIDE DEF D
<1>4. ASSUME NEW l \in Levels, NEW b \in {0, 1}, NEW j \in Bytes
      PROVE  Pick(fBuffer[l][b][j], D') = Pick(fBuffer[l][b][j], D)
  <2>1. fBuffer[l][b][j] \in Seq(Elements) /\ e \notin Elems(fBuffer[l][b][j])
    BY PutLists
  <2> QED
    BY <1>2, <2>1, PickMore
<1>5. ASSUME NEW l \in Levels PROVE Alt(Now, l, x)' = Alt(Now, l, x)
  <2> DEFINE b == 1 - fCurrent[l]
             j == part(x, l)
  <2>1. b \in {0, 1} /\ j \in Bytes /\ b # fCurrent[l]
    BY <1>3
  <2>2. Alt(Now, l, x)' = Pick(fBuffer'[l][b][j], D') /\ Alt(Now, l, x) = Pick(fBuffer[l][b][j], D)
    BY <1>1 DEF Alt, D
  <2> HIDE DEF b, j
  <2>3. fBuffer'[l][b][j] = fBuffer[l][b][j]
    <3>1. ListStep(l, b, j, e, date) /\ ~ ListOf(l, b, j, date)
      BY <2>1, PutLists DEF ListOf
    <3> QED
      BY <3>1 DEF ListStep
  <2> QED
    BY <1>4, <2>1, <2>2, <2>3
<1>6. ASSUME NEW l \in Levels
      PROVE  Cur(Now, l, x)' = IF x = date /\ l = k THEN Append(Cur(Now, l, x), e)
                               ELSE Cur(Now, l, x)
  <2> DEFINE b == fCurrent[l]
             j == part(x, l)
             old == fBuffer[l][b][j]
             new == fBuffer'[l][b][j]
  <2>1. b \in {0, 1} /\ j \in Bytes
    BY <1>3
  <2>2. Cur(Now, l, x)' = Pick(new, D') /\ Cur(Now, l, x) = Pick(old, D)
    BY <1>1 DEF Cur, D
  <2> HIDE DEF b, j
  <2>3. /\ old \in Seq(Elements)
        /\ ListOf(l, b, j, date) => new = Append(old, e)
        /\ ~ ListOf(l, b, j, date) => new = old
    <3>1. old \in Seq(Elements) /\ ListStep(l, b, j, e, date)
      BY <2>1, PutLists
    <3> QED
      BY <3>1 DEF ListStep
  <2>4. Pick(old, D') = Pick(old, D)
    BY <1>4, <2>1
  <2> HIDE DEF old, new
  <2>5. Pick(Append(old, e), D') = IF x = date THEN Append(Pick(old, D), e) ELSE Pick(old, D)
    <3>1. Pick(Append(old, e), D') = IF e \in D' THEN Append(Pick(old, D'), e) ELSE Pick(old, D')
      BY <2>3, PickAppend
    <3>2. e \in D' <=> x = date
      BY <1>2
    <3> QED
      BY <2>4, <3>1, <3>2
  <2>6. CASE x = date /\ l = k
    <3>1. new = Append(old, e)
      BY <2>3, <2>6 DEF b, j, k, ListOf
    <3> QED
      BY <2>2, <2>5, <2>6, <3>1
  <2>7. CASE x = date /\ l # k
    BY <2>2, <2>3, <2>4, <2>7 DEF ListOf, k
  <2>8. CASE x # date
    BY <2>2, <2>3, <2>4, <2>5, <2>8
  <2> QED
    BY <2>6, <2>7, <2>8
<1>7. 0 \in Levels /\ 1 \in Levels /\ 2 \in Levels /\ 3 \in Levels
  BY DEF Levels
<1> HIDE DEF k
<1>8. CASE x # date
  <2>1. /\ Cur(Now, 0, x)' = Cur(Now, 0, x) /\ Cur(Now, 1, x)' = Cur(Now, 1, x)
        /\ Cur(Now, 2, x)' = Cur(Now, 2, x) /\ Cur(Now, 3, x)' = Cur(Now, 3, x)
        /\ Alt(Now, 0, x)' = Alt(Now, 0, x) /\ Alt(Now, 1, x)' = Alt(Now, 1, x)
        /\ Alt(Now, 2, x)' = Alt(Now, 2, x)
    BY <1>5, <1>6, <1>7, <1>8
  <2>2. Queue(Now, x)' = Queue(Now, x)
    BY <2>1 DEF Queue
  <2> QED
    BY <1>8, <2>2
<1>9. CASE x = date
  <2> DEFINE c == [l \in Levels |-> Cur(Now, l, x)]
             n == [l \in Levels |-> Cur(Now, l, x)']
             a == [l \in Levels |-> Alt(Now, l, x)]
             z == <<e>>
  <2>1. /\ k \in Levels
        /\ \A m \in Levels : m > k => Cur(Now, m, x) = <<>>
        /\ \A m \in Levels : m >= k => Alt(Now, m, x) = <<>>
    <3>1. fDate < date
      BY <1>9
    <3> QED
      BY <1>9, <3>1, PutPlace DEF k
  <2>2. ASSUME NEW l \in Levels
        PROVE  Cur(Now, l, x)' = IF l = k THEN Cat(Cur(Now, l, x), z) ELSE Cur(Now, l, x)
    <3>1. Cur(Now, l, x) \in Seq(Elements)
      BY <1>3
    <3>2. Append(Cur(Now, l, x), e) = Cat(Cur(Now, l, x), z)
      BY <3>1, AppendCat
    <3> QED
      BY <1>6, <1>9, <3>2
  <2>3. z \in Seq(Elements)
    OBVIOUS
  <2> HIDE DEF z
  <2>4. /\ c \in [Levels -> Seq(Elements)] /\ a \in [Levels -> Seq(Elements)]
        /\ \A l \in Levels : c[l] = Cur(Now, l, x) /\ a[l] = Alt(Now, l, x)
    BY <1>3
  <2>5. /\ n \in [Levels -> Seq(Elements)]
        /\ \A l \in Levels : n[l] = Cur(Now, l, x)'
    <3>1. ASSUME NEW l \in Levels PROVE Cur(Now, l, x)' \in Seq(Elements)
      <4>1. Cur(Now, l, x) \in Seq(Elements)
        BY <1>3
      <4>2. Cat(Cur(Now, l, x), z) \in Seq(Elements)
        BY <2>3, <4>1, CatType
      <4> QED
        BY <2>2, <4>1, <4>2
    <3> QED
      BY <3>1
  <2> HIDE DEF c, n, a
  <2>6. /\ n[k] = Cat(c[k], z)
        /\ \A m \in Levels : m > k => c[m] = <<>>
        /\ \A m \in Levels : m >= k => a[m] = <<>>
        /\ \A m \in Levels : m # k => n[m] = c[m]
    BY <2>1, <2>2, <2>4, <2>5
  <2>7. Chain(n, a) = Cat(Chain(c, a), z)
    BY <2>1, <2>3, <2>4, <2>5, <2>6, ChainEnd
  <2>8. Chain(c, a) = Queue(Now, x)
    BY <1>7, <2>4 DEF Chain, Queue
  <2>9. Chain(n, a) = Queue(Now, x)'
    <3>1. /\ n[0] = Cur(Now, 0, x)' /\ n[1] = Cur(Now, 1, x)'
          /\ n[2] = Cur(Now, 2, x)' /\ n[3] = Cur(Now, 3, x)'
          /\ a[0] = Alt(Now, 0, x)' /\ a[1] = Alt(Now, 1, x)' /\ a[2] = Alt(Now, 2, x)'
      BY <1>5, <1>7, <2>4, <2>5
    <3> QED
      BY <3>1 DEF Chain, Queue
  <2>10. Queue(Now, x) \in Seq(Elements)
    <3>1. /\ c[0] \in Seq(Elements) /\ c[1] \in Seq(Elements) /\ c[2] \in Seq(Elements)
          /\ c[3] \in Seq(Elements) /\ a[0] \in Seq(Elements) /\ a[1] \in Seq(Elements)
          /\ a[2] \in Seq(Elements)
      BY <1>7, <2>4
    <3>2. Chain(c, a) \in Seq(Elements)
      BY <3>1, ChainType DEF Chain
    <3> QED
      BY <2>8, <3>2
  <2>11. Append(Queue(Now, x), e) = Cat(Queue(Now, x), z)
    BY <2>10, AppendCat DEF z
  <2> QED
    BY <1>9, <2>7, <2>8, <2>9, <2>11
<1> QED
  BY <1>8, <1>9

\* A put: the lists that are not those of the element keep what they had.
LEMMA PutInductive ==
  ASSUME IInv, NEW e \in Elements, NEW date \in 0..LastDate, put(e, date)
  PROVE  IInv'
<1>1. /\ dateOf[e] = Never /\ e \notin Waiting /\ Waiting' = Waiting \union {e}
      /\ order \in Seq(Elements) /\ Elems(order) = Waiting
      /\ order' = Append(order, e) /\ order' \in Seq(Elements) /\ Elems(order') = Waiting'
      /\ dateOf' = [dateOf EXCEPT ![e] = date]
      /\ dateOf' \in [Elements -> 0..LastDate \union {Never}]
      /\ fDate' = fDate /\ fCurrent' = fCurrent /\ fPos' = fPos /\ out' = <<>>
      /\ date \in Nat /\ fDate \in 0..LastDate /\ LastDate \in Nat
  BY PutStep
<1>2. fBuffer' \in Buffers /\ (PutReady(e, date) \/ PutFiled(e, date))
  BY PutCases
<1>3. /\ dateOf \in [Elements -> 0..LastDate \union {Never}] /\ fReady = Pick(order, Late)
      /\ fCurrent \in [Levels -> {0, 1}] /\ fCurrent[3] = 0 /\ fPos \in [1..3 -> Bytes]
  BY DEF IInv, TypeOK, Ordered
<1>4. \A x \in Elements : dateOf'[x] = IF x = e THEN date ELSE dateOf[x]
  BY <1>1, <1>3
<1>5. fReady' = Pick(order', Late')
  <2>1. Late' = {x \in Elements : dateOf'[x] <= fDate}
    BY <1>1 DEF Late
  <2>2. e \in Late' <=> date <= fDate
    BY <1>4, <2>1
  <2>3. \A x \in Elems(order) : x \in Late' <=> x \in Late
    BY <1>1, <1>4, <2>1 DEF Late, Waiting
  <2>4. Pick(order, Late') = Pick(order, Late)
    BY <1>1, <2>3, PickSame
  <2>5. Pick(order', Late') = IF e \in Late' THEN Append(Pick(order, Late'), e)
                              ELSE Pick(order, Late')
    BY <1>1, PickAppend
  <2>6. CASE PutReady(e, date)
    BY <1>3, <2>2, <2>4, <2>5, <2>6 DEF PutReady
  <2>7. CASE PutFiled(e, date)
    <3>1. fDate < date /\ fReady' = fReady
      BY <2>7, Zenon DEF PutFiled
    <3>2. ~ (date <= fDate)
      BY <1>1, <3>1
    <3> QED
      BY <1>3, <2>2, <2>4, <2>5, <3>1, <3>2
  <2> QED
    BY <1>2, <2>6, <2>7
<1>6. TypeOK'
  <2>1. order' \in Seq(Waiting')
    BY <1>1, ElemsType
  <2>2. fReady' \in Seq(Waiting')
    <3>1. fReady' \in Seq(Elements) /\ Elems(fReady') = Elems(order') \intersect Late'
      BY <1>1, <1>5, PickType
    <3>2. fReady' \in Seq(Elems(fReady'))
      BY <3>1, ElemsType
    <3>3. Elems(fReady') \subseteq Waiting'
      BY <1>1, <3>1
    <3> QED
      BY <3>2, <3>3
  <2>3. out' \in Seq(Elements \ Waiting')
    BY <1>1
  <2>4. fBuffer' \in [Levels -> [{0, 1} -> [Bytes -> Seq(Elements)]]]
    BY <1>2 DEF Buffers
  <2> QED
    BY <1>1, <1>3, <2>1, <2>2, <2>3, <2>4 DEF TypeOK
<1>7. Kept'
  <2>1. FiledIn(Now, At(fDate)) /\ Now \in Wheels /\ Now.buffer = fBuffer /\ Now.current = fCurrent
    BY NowWheels DEF IInv, Kept
  <2>2. ASSUME NEW l \in Levels, NEW b \in {0, 1}, NEW j \in Bytes,
               NEW x \in Elems(fBuffer'[l][b][j])
        PROVE  dateOf'[x] \in 0..LastDate /\ Place(At(fDate), fCurrent[l], l, b, j, dateOf'[x])
    <3> DEFINE old == fBuffer[l][b][j]
               new == fBuffer'[l][b][j]
    <3>1. /\ old \in Seq(Elements) /\ e \notin Elems(old)
          /\ ListOf(l, b, j, date) => new = Append(old, e)
          /\ ~ ListOf(l, b, j, date) => new = old
      <4>1. old \in Seq(Elements) /\ e \notin Elems(old) /\ ListStep(l, b, j, e, date)
        BY PutLists
      <4> QED
        BY <4>1 DEF ListStep
    <3>2. ASSUME x \in Elems(old)
          PROVE  dateOf'[x] \in 0..LastDate /\ Place(At(fDate), fCurrent[l], l, b, j, dateOf'[x])
      <4>1. dateOf[x] \in 0..LastDate /\ Place(At(fDate), fCurrent[l], l, b, j, dateOf[x])
        BY <2>1, <3>2, FiledElem
      <4>2. x \in Elements /\ x # e
        BY <3>1, <3>2, ElemsType
      <4> QED
        BY <1>4, <4>1, <4>2
    <3>3. ASSUME x \notin Elems(old)
          PROVE  dateOf'[x] \in 0..LastDate /\ Place(At(fDate), fCurrent[l], l, b, j, dateOf'[x])
      <4>1. x \in Elems(new)
        BY <2>2
      <4> HIDE DEF old, new
      <4>2. /\ new = Append(old, e) /\ fDate < date /\ l = Level(date)
            /\ b = fCurrent[l] /\ j = part(date, l)
        BY <3>1, <3>3, <4>1 DEF ListOf
      <4>3. x = e
        <5>1. Elems(Append(old, e)) = Elems(old) \union {e}
          BY <3>1, ElemsAppend
        <5> QED
          BY <3>3, <4>1, <4>2, <5>1
      <4>4. Place(At(fDate), fCurrent[l], l, fCurrent[l], part(date, l), date)
        BY <4>2, PutPlace
      <4>5. dateOf'[x] = date
        BY <1>4, <4>3
      <4> QED
        BY <4>2, <4>4, <4>5
    <3> QED
      BY <3>2, <3>3
  <2>3. At(fDate)' = At(fDate)
    BY <1>1 DEF At, U
  <2>4. Now'.buffer = fBuffer' /\ Now'.current = fCurrent
    <3>1. Now' = [buffer |-> fBuffer', current |-> fCurrent', pos |-> fPos']
      BY DEF Now
    <3> QED
      BY <1>1, <3>1
  <2> QED
    BY <2>2, <2>3, <2>4 DEF Kept, FiledIn
<1>8. Positions'
  BY <1>1 DEF Positions, IInv
<1>9. ASSUME NEW x \in fDate + 1..LastDate
      PROVE  Pick(order', Dated(x)') = Queue(Now, x)'
  <2>1. x \in Nat /\ fDate < x
    BY <1>1
  <2>2. /\ e \in Dated(x)' <=> x = date
        /\ Dated(x)' \in {Dated(x), Dated(x) \union {e}, Dated(x) \ {e}}
    BY <2>1, PutDated
  <2>3. Pick(order, Dated(x)') = Pick(order, Dated(x))
    BY <1>1, <2>2, PickMore
  <2>4. Pick(order', Dated(x)') = IF e \in Dated(x)' THEN Append(Pick(order, Dated(x)'), e)
                                  ELSE Pick(order, Dated(x)')
    BY <1>1, PickAppend
  <2>5. Pick(order, Dated(x)) = Queue(Now, x)
    BY DEF IInv, Ordered
  <2>6. Queue(Now, x)' = IF x = date THEN Append(Queue(Now, x), e) ELSE Queue(Now, x)
    BY <2>1, PutQueue
  <2> QED
    BY <2>2, <2>3, <2>4, <2>5, <2>6
<1>10. Ordered'
  BY <1>1, <1>5, <1>9 DEF Ordered
<1> QED
  BY <1>6, <1>7, <1>8, <1>10 DEF IInv

-----------------------------------------------------------------------------
(* The theorems.                                                           *)

LEMMA InitInductive ==
  ASSUME Init
  PROVE  IInv
<1>1. /\ fDate = 0 /\ fReady = <<>> /\ order = <<>> /\ out = <<>>
      /\ fBuffer = [k \in Levels |-> [b \in {0, 1} |-> [i \in Bytes |-> <<>>]]]
      /\ fCurrent = [k \in Levels |-> 0] /\ fPos = [k \in 1..3 |-> 1]
      /\ dateOf = [e \in Elements |-> Never]
  BY DEF Init
<1>2. LastDate \in Nat /\ Base \in Nat /\ Base >= 2
  BY LastDateAssumption, BaseAssumption
<1>3. Waiting = {}
  BY <1>1 DEF Waiting
<1>4. TypeOK
  <2>1. 1 \in Bytes /\ 3 \in Levels
    BY <1>2 DEF Bytes, Levels
  <2>2. fBuffer \in [Levels -> [{0, 1} -> [Bytes -> Seq(Elements)]]]
    <3> DEFINE none == <<>>
    <3>1. none \in Seq(Elements)
      OBVIOUS
    <3>2. fBuffer = [k \in Levels |-> [b \in {0, 1} |-> [i \in Bytes |-> none]]]
      BY <1>1
    <3> HIDE DEF none
    <3> QED
      BY <3>1, <3>2
  <2>3. fDate \in 0..LastDate /\ dateOf \in [Elements -> 0..LastDate \union {Never}]
    BY <1>1, <1>2
  <2>4. fCurrent \in [Levels -> {0, 1}] /\ fCurrent[3] = 0 /\ fPos \in [1..3 -> Bytes]
    BY <1>1, <2>1
  <2>5. fReady \in Seq(Waiting) /\ order \in Seq(Waiting) /\ out \in Seq(Elements \ Waiting)
    BY <1>1
  <2> QED
    BY <2>2, <2>3, <2>4, <2>5 DEF TypeOK
<1>5. Now \in Wheels /\ Now.buffer = fBuffer /\ Now.current = fCurrent
  BY <1>4, NowWheels
<1>6. ASSUME NEW l \in Levels, NEW b \in {0, 1}, NEW j \in Bytes PROVE Now.buffer[l][b][j] = <<>>
  BY <1>1, <1>5
<1>7. Kept
  BY <1>6, ElemsEmpty DEF Kept, FiledIn
<1>8. Positions
  <2>1. ASSUME NEW k \in 1..3 PROVE part(fDate, k) = 0
    <3> DEFINE u == Unit[k]
    <3>1. u \in Nat \ {0}
      BY Units
    <3> HIDE DEF u
    <3>2. 0 \div u = 0 /\ 0 % Base = 0
      BY <1>2, <3>1
    <3> QED
      BY <1>1, <3>2 DEF part, u
  <2>2. (0 + 1) % Base = 1
    BY <1>2
  <2> QED
    BY <1>1, <2>1, <2>2 DEF Positions
<1>9. Ordered
  <2>1. Elems(order) = Waiting /\ fReady = Pick(order, Late)
    BY <1>1, <1>3, ElemsEmpty, PickEmpty
  <2>2. ASSUME NEW d \in fDate + 1..LastDate PROVE Pick(order, Dated(d)) = Queue(Now, d)
    <3>1. d \in Nat
      BY <1>1, <1>2
    <3>2. ASSUME NEW l \in Levels PROVE Cur(Now, l, d) = <<>> /\ Alt(Now, l, d) = <<>>
      <4>1. part(d, l) \in Bytes /\ Now.current[l] \in {0, 1} /\ 1 - Now.current[l] \in {0, 1}
        BY <1>5, <3>1, QueueTypes
      <4>2. Now.buffer[l][Now.current[l]][part(d, l)] = <<>>
            /\ Now.buffer[l][1 - Now.current[l]][part(d, l)] = <<>>
        BY <1>6, <4>1
      <4> QED
        BY <4>2, PickEmpty DEF Cur, Alt
    <3>3. 0 \in Levels /\ 1 \in Levels /\ 2 \in Levels /\ 3 \in Levels
      BY DEF Levels
    <3>4. Cat(<<>>, <<>>) = <<>>
      <4>1. <<>> \in Seq(Elements)
        OBVIOUS
      <4> QED
        BY <4>1, CatEmpty
    <3>5. Queue(Now, d) = <<>>
      BY <3>2, <3>3, <3>4 DEF Queue
    <3> QED
      BY <1>1, <3>5, PickEmpty
  <2> QED
    BY <2>1, <2>2 DEF Ordered
<1> QED
  BY <1>4, <1>7, <1>8, <1>9 DEF IInv

LEMMA StepInductive ==
  ASSUME IInv, [Next]_vars
  PROVE  IInv'
<1>1. CASE clock
  BY <1>1, ClockInductive
<1>2. CASE Put(Elements)
  BY <1>2, PutInductive DEF Put
<1>3. CASE UNCHANGED vars
  <2>1. UNCHANGED <<fDate, fReady, fBuffer, fCurrent, fPos, dateOf, order, out>>
    BY <1>3 DEF vars
  <2>2. Now' = Now /\ Late' = Late /\ Waiting' = Waiting
    BY <2>1 DEF Now, Late, Waiting
  <2>3. TypeOK' /\ Positions'
    BY <2>1, <2>2 DEF IInv, TypeOK, Positions
  <2>4. Kept'
    <3>1. FiledIn(Now, At(fDate))' = FiledIn(Now, At(fDate))
      BY <2>1, <2>2 DEF FiledIn, At, U
    <3> QED
      BY <3>1 DEF IInv, Kept
  <2>5. Ordered'
    <3>1. ASSUME NEW d PROVE Dated(d)' = Dated(d) /\ Queue(Now, d)' = Queue(Now, d)
      <4>1. Dated(d)' = Dated(d)
        BY <2>1 DEF Dated
      <4> QED
        BY <2>2, <4>1 DEF Queue, Cur, Alt
    <3> QED
      BY <2>1, <2>2, <3>1 DEF IInv, Ordered
  <2> QED
    BY <2>3, <2>4, <2>5 DEF IInv
<1>4. CASE Stop
  BY <1>3, <1>4 DEF Stop
<1> QED
  BY <1>1, <1>2, <1>3, <1>4 DEF Next

LEMMA Inductive == Spec => []IInv
<1>1. Init => IInv
  BY InitInductive
<1>2. IInv /\ [Next]_vars => IInv'
  BY StepInductive
<1> QED
  BY <1>1, <1>2, PTL DEF Spec

\* What put and clock leave is a set of lists of elements, and each waiting element has a
\* date (TScheduler.h, TSorter).
THEOREM TypesCorrect == Spec => []TypeOK
<1>1. IInv => TypeOK
  BY DEF IInv
<1> QED
  BY <1>1, Inductive, PTL

\* Every element waits where the clock of its date will find it, whatever was resorted
\* before, for any base, any number of elements that a clock resorts, and any dates
\* (TScheduler::put, TLevel::clock, resortSome, resortAll).
THEOREM ElementsFiled == Spec => []Filed
<1>1. IInv => Filed
  <2> SUFFICES ASSUME IInv PROVE Filed
    OBVIOUS
  <2>1. /\ Now \in Wheels /\ FiledIn(Now, At(fDate)) /\ fDate \in Nat
        /\ Now.buffer = fBuffer /\ Now.current = fCurrent
    BY NowWheels DEF IInv, Kept
  <2>2. ASSUME NEW k \in Levels, NEW b \in {0, 1}, NEW i \in Bytes,
               NEW e \in Elems(fBuffer[k][b][i])
        PROVE  FiledAt(k, b, i, e)
    <3> DEFINE x == dateOf[e]
               v == At(fDate)
    <3>1. x \in 0..LastDate /\ x \in Nat /\ Place(v, fCurrent[k], k, b, i, x)
      BY <2>1, <2>2, FiledElem
    <3>2. /\ k \in 0..4 /\ k + 1 \in 0..4 /\ (k # 3 => k + 2 \in 0..4 /\ (k + 1) + 1 = k + 2)
      BY DEF Levels
    <3>3. /\ v[k] = U(fDate, k) /\ v[k + 1] = U(fDate, k + 1)
          /\ (k # 3 => v[k + 2] = U(fDate, k + 2))
      BY <2>1, <3>2, AtType
    <3> HIDE DEF x, v
    <3>4. CASE b = fCurrent[k]
      <4>1. part(x, k) = i /\ U(x, k + 1) = U(fDate, k + 1) /\ U(fDate, k) < U(x, k)
        BY <3>1, <3>3, <3>4 DEF Place
      <4>2. /\ U(x, k) = Base * U(x, k + 1) + part(x, k)
            /\ U(fDate, k) = Base * U(fDate, k + 1) + part(fDate, k)
            /\ part(x, k) \in Bytes /\ part(fDate, k) \in Bytes /\ U(x, k + 1) \in Nat
        BY <2>1, <3>1, <3>2, UnitsOfDate
      <4>3. part(fDate, k) < i
        BY <4>1, <4>2, Digits
      <4> QED
        BY <3>4, <4>1, <4>3 DEF FiledAt, High, U, x
    <3>5. CASE b # fCurrent[k]
      <4>1. part(x, k) = i /\ k # 3 /\ U(x, k + 1) = U(fDate, k + 1) + 1
            /\ U(x, k + 2) = U(fDate, k + 2)
        BY <3>1, <3>3, <3>5 DEF Place
      <4>2. /\ High(x, k) = U(x, k + 1) /\ High(fDate, k) = U(fDate, k + 1)
            /\ High(x, k + 1) = U(x, k + 2) /\ High(fDate, k + 1) = U(fDate, k + 2)
        BY <3>2, <4>1 DEF High, U
      <4> QED
        BY <3>5, <4>1, <4>2 DEF FiledAt, x
    <3> QED
      BY <3>4, <3>5
  <2> QED
    BY <2>2 DEF Filed, Elems, IInv, Positions
<1> QED
  BY <1>1, Inductive, PTL

\* No element waits beyond its date: one that is late is delivered by the next clock.
THEOREM AlwaysOnTime == Spec => []OnTime
<1>1. IInv => OnTime
  <2> SUFFICES ASSUME IInv, NEW e \in Waiting, ~ (dateOf[e] > fDate) PROVE e \in Elems(fReady)
    BY DEF OnTime
  <2>1. fDate \in Nat /\ dateOf[e] \in 0..LastDate /\ e \in Elements /\ order \in Seq(Waiting)
    BY DEF IInv, TypeOK, Waiting
  <2>2. e \in Late
    BY <2>1, LastDateAssumption DEF Late
  <2>3. e \in Elems(order) /\ fReady = Pick(order, Late)
    BY DEF IInv, Ordered
  <2>4. Elems(Pick(order, Late)) = Elems(order) \intersect Late
    BY <2>1, PickType
  <2> QED
    BY <2>2, <2>3, <2>4
<1> QED
  BY <1>1, Inductive, PTL

-----------------------------------------------------------------------------
(* The levels implement a list of dated elements.                          *)

LEMMA AgendaLists ==
  ASSUME NEW list, NEW S
  PROVE  Implemented!Pick(list, S) = Pick(list, S) /\ Implemented!Elems(list) = Elems(list)
<1>1. Implemented!Pick(list, S) = Pick(list, S)
  BY Zenon DEF Implemented!Pick, Pick
<1>2. Implemented!Elems(list) = Elems(list)
  BY DEF Implemented!Elems, Elems
<1> QED
  BY <1>1, <1>2

\* The entries of a list of elements that have these dates.
Entry(dates) == [e \in Elements |-> [element |-> e, due |-> dates[e]]]
Entries(list, dates) ==
  [i \in 1..Len(list) |-> [element |-> list[i], due |-> dates[list[i]]]]
AllEntries == [element : Elements, due : Int]
Pending == Entries(order, dateOf)

LEMMA EntriesType ==
  ASSUME NEW list \in Seq(Elements), NEW dates \in [Elements -> Int]
  PROVE  /\ Entry(dates) \in MapsTo(Elements, AllEntries)
         /\ \A e \in Elements : Entry(dates)[e] = [element |-> e, due |-> dates[e]]
         /\ Entries(list, dates) = Image(Entry(dates), list)
<1>1. /\ Entry(dates) \in MapsTo(Elements, AllEntries)
      /\ \A e \in Elements : Entry(dates)[e] = [element |-> e, due |-> dates[e]]
  BY DEF Entry, AllEntries, MapsTo
<1>2. \A i \in 1..Len(list) : list[i] \in Elements
  OBVIOUS
<1>3. Entries(list, dates) = Image(Entry(dates), list)
  BY <1>1, <1>2 DEF Entries, Image
<1> QED
  BY <1>1, <1>3

LEMMA TypedDates ==
  TypeOK => order \in Seq(Elements) /\ dateOf \in [Elements -> Int]
<1> SUFFICES ASSUME TypeOK PROVE order \in Seq(Elements) /\ dateOf \in [Elements -> Int]
  OBVIOUS
<1>1. order \in Seq(Elements)
  <2>1. Waiting \subseteq Elements /\ order \in Seq(Waiting)
    BY DEF TypeOK, Waiting
  <2> HIDE DEF Waiting
  <2> QED
    BY <2>1
<1>2. dateOf \in [Elements -> Int]
  <2>1. dateOf \in [Elements -> 0..LastDate \union {Never}]
    BY DEF TypeOK
  <2> QED
    BY <2>1, LastDateAssumption DEF Never
<1> QED
  BY <1>1, <1>2

\* The clock, on the entries.
LEMMA ClockRefines ==
  ASSUME IInv, clock
  PROVE  Implemented!Clock
<1> DEFINE P == Pending
           g == Entry(dateOf)
           n == fDate + 1
           late == {m \in Elems(P) : m.due <= fDate}
           due == {m \in Elems(P) : m.due = n}
           later == {m \in Elems(P) : m.due > n}
           a == Pick(order, Late)
           b == Pick(order, Dated(n))
           left == Elements \ Elems(out')
           D == Pick(P, late) \o Pick(P, due)
<1>1. /\ fDate < LastDate /\ fDate' = n
      /\ out' = Cat(a, b)
      /\ dateOf' = [e \in Elements |-> IF e \in left THEN dateOf[e] ELSE Never]
      /\ order' = Pick(order, left)
  <2>1. \E t : t = Now'
    OBVIOUS
  <2> QED
    BY <2>1, ClockStep
<1>2. /\ out' \in Seq(Elements) /\ Elems(out') = {e \in Waiting : dateOf[e] <= n}
      /\ order \in Seq(Elements) /\ Elems(order) = Waiting
      /\ a \in Seq(Elements) /\ b \in Seq(Elements)
  BY ClockDelivers
<1>3. /\ g \in MapsTo(Elements, AllEntries) /\ P = Image(g, order)
      /\ \A e \in Elements : g[e] = [element |-> e, due |-> dateOf[e]]
  <2>1. order \in Seq(Elements) /\ dateOf \in [Elements -> Int]
    BY TypedDates DEF IInv
  <2> QED
    BY <2>1, EntriesType DEF Pending
<1> HIDE DEF P, g
<1>fields. \A e \in Elements : g[e].element = e /\ g[e].due = dateOf[e]
  <2> SUFFICES ASSUME NEW e \in Elements PROVE g[e].element = e /\ g[e].due = dateOf[e]
    OBVIOUS
  <2>1. g[e] = [element |-> e, due |-> dateOf[e]]
    BY <1>3
  <2> QED
    BY <2>1
<1>4. Elems(P) = {g[e] : e \in Waiting}
  BY <1>2, <1>3, ImageElems
<1>5. \A e \in Waiting : e \in Elements /\ dateOf[e] \in 0..LastDate /\ fDate \in Nat /\ LastDate \in Nat
  <2>1. fDate \in Nat /\ LastDate \in Nat /\ dateOf \in [Elements -> 0..LastDate \union {Never}]
    BY LastDateAssumption DEF IInv, TypeOK
  <2> QED
    BY <2>1 DEF Waiting
<1> HIDE DEF left, Waiting
<1>6. ASSUME NEW e \in Elems(order) PROVE g[e] \in late <=> e \in Late
  <2>1. g[e] \in Elems(P) /\ e \in Elements /\ e \in Waiting
    BY <1>2, <1>4, <1>5
  <2>2. g[e] \in late <=> g[e].due <= fDate
    BY <2>1
  <2>3. g[e].due = dateOf[e] /\ dateOf[e] \in Int /\ fDate \in Int
    BY <1>fields, <1>5, <2>1
  <2> HIDE DEF late
  <2> QED
    BY <1>2, <2>1, <2>2, <2>3 DEF Late
<1>7. ASSUME NEW e \in Elems(order) PROVE g[e] \in due <=> e \in Dated(n)
  <2>1. g[e] \in Elems(P) /\ e \in Elements /\ e \in Waiting
    BY <1>2, <1>4, <1>5
  <2>2. g[e] \in due <=> g[e].due = n
    BY <2>1
  <2>3. g[e].due = dateOf[e] /\ dateOf[e] \in Int /\ fDate \in Int
    BY <1>fields, <1>5, <2>1
  <2> HIDE DEF due
  <2> QED
    BY <1>2, <2>1, <2>2, <2>3 DEF Dated
<1>8. ASSUME NEW e \in Elems(order) PROVE g[e] \in later <=> e \in left
  <2>1. g[e] \in Elems(P) /\ e \in Elements /\ e \in Waiting
    BY <1>2, <1>4, <1>5
  <2>2. g[e] \in later <=> g[e].due > n
    BY <2>1
  <2>3. g[e].due = dateOf[e] /\ dateOf[e] \in Int /\ fDate \in Int
    BY <1>fields, <1>5, <2>1
  <2> HIDE DEF later
  <2> QED
    BY <1>2, <2>1, <2>2, <2>3 DEF left
<1> HIDE DEF late, due, later, a, b
<1>9. Pick(P, late) = Image(g, a)
  BY <1>2, <1>3, <1>6, PickImage DEF a
<1>10. Pick(P, due) = Image(g, b)
  BY <1>2, <1>3, <1>7, PickImage DEF b
<1>11. Pick(P, later) = Image(g, order')
  BY <1>1, <1>2, <1>3, <1>8, PickImage
<1>12. D = Image(g, out')
  <2>1. Image(g, Cat(a, b)) = Cat(Image(g, a), Image(g, b))
    BY <1>2, <1>3, ImageCat
  <2> QED
    BY <1>1, <1>9, <1>10, <2>1 DEF Cat
<1>13. out' = [i \in 1..Len(D) |-> D[i].element]
  <2> DEFINE o == out'
  <2>1. Len(D) = Len(o) /\ Len(o) \in Nat
    BY <1>2, <1>3, <1>12, ImageType
  <2>2. \A i \in 1..Len(o) : o[i] \in Elements
    BY <1>2
  <2>3. \A i \in 1..Len(o) : D[i] = g[o[i]]
    BY <1>12, <2>1 DEF Image
  <2> HIDE DEF D
  <2>4. \A i \in 1..Len(o) : D[i].element = o[i]
    BY <1>fields, <2>2, <2>3
  <2>5. o = [i \in 1..Len(o) |-> o[i]]
    BY <1>2
  <2> HIDE DEF o
  <2>6. [i \in 1..Len(D) |-> D[i].element] = [i \in 1..Len(o) |-> o[i]]
    BY <2>1, <2>4
  <2> QED
    BY <2>5, <2>6 DEF o
<1>14. P' = Pick(P, later)
  <2> DEFINE q == order'
             h == Entry(dateOf')
  <2>1. q \in Seq(Elements) /\ dateOf' \in [Elements -> Int]
    <3>1. TypeOK'
      BY ClockInductive DEF IInv
    <3>2. (TypeOK => order \in Seq(Elements) /\ dateOf \in [Elements -> Int])'
      BY TypedDates, PTL
    <3> QED
      BY <3>1, <3>2
  <2>2. P' = Entries(q, dateOf')
    BY DEF P, Pending
  <2>3. /\ P' = Image(h, q)
        /\ \A e \in Elements : h[e] = [element |-> e, due |-> dateOf'[e]]
    BY <2>1, <2>2, EntriesType
  <2> HIDE DEF h
  <2>4. \A e \in Elems(q) : h[e] = g[e]
    <3>1. Elems(q) = Elems(order) \intersect left
      BY <1>1, <1>2, PickType
    <3>2. \A e \in left : e \in Elements /\ dateOf'[e] = dateOf[e]
      BY <1>1 DEF left
    <3> QED
      BY <1>3, <2>3, <3>1, <3>2
  <2>5. \A i \in 1..Len(q) : q[i] \in Elems(q)
    BY DEF Elems
  <2>6. Image(h, q) = Image(g, q)
    <3> HIDE DEF q
    <3> QED
      BY <2>4, <2>5 DEF Image
  <2> QED
    BY <1>11, <2>3, <2>6
<1>15. \A S : Implemented!Pick(P, S) = Pick(P, S)
  BY AgendaLists
<1>16. Implemented!Elems(P) = Elems(P)
  BY AgendaLists
<1> DEFINE alate == {m \in Implemented!Elems(P) : m.due <= fDate}
           adue == {m \in Implemented!Elems(P) : m.due = fDate + 1}
           alater == {m \in Implemented!Elems(P) : m.due > fDate + 1}
           aD == Implemented!Pick(P, alate) \o Implemented!Pick(P, adue)
<1>17. alate = late /\ adue = due /\ alater = later
  BY <1>16 DEF late, due, later
<1> HIDE DEF alate, adue, alater
<1>18. aD = D /\ P' = Implemented!Pick(P, alater)
  BY <1>14, <1>15, <1>17
<1> HIDE DEF aD, D
<1>19. out' = [i \in 1..Len(aD) |-> aD[i].element] /\ P' = Implemented!Pick(P, alater)
  BY <1>13, <1>18
<1>20. fDate < LastDate /\ fDate' = fDate + 1
  BY <1>1
<1> QED
  BY <1>19, <1>20, Zenon DEF Implemented!Clock, P, Pending, Entries, aD, alate, adue, alater

LEMMA PutRefines ==
  ASSUME IInv, NEW e \in Elements, NEW date \in 0..LastDate, put(e, date)
  PROVE  Implemented!Put(e, date)
<1>1. /\ dateOf[e] = Never /\ e \notin Waiting
      /\ order \in Seq(Elements) /\ Elems(order) = Waiting
      /\ order' = Append(order, e) /\ fDate' = fDate /\ out' = <<>>
      /\ dateOf' = [dateOf EXCEPT ![e] = date]
  BY PutStep
<1> DEFINE g == Entry(dateOf)
           h == Entry(dateOf')
           new == [element |-> e, due |-> date]
<1>2. /\ g \in MapsTo(Elements, AllEntries) /\ Pending = Image(g, order)
      /\ \A x \in Elements : g[x] = [element |-> x, due |-> dateOf[x]]
  <2>1. order \in Seq(Elements) /\ dateOf \in [Elements -> Int]
    BY TypedDates DEF IInv
  <2> QED
    BY <2>1, EntriesType DEF Pending
<1>3. /\ h \in MapsTo(Elements, AllEntries) /\ Pending' = Image(h, order')
      /\ \A x \in Elements : h[x] = [element |-> x, due |-> dateOf'[x]]
  <2>1. order' \in Seq(Elements) /\ dateOf' \in [Elements -> Int]
    <3>1. TypeOK'
      BY PutInductive DEF IInv
    <3>2. (TypeOK => order \in Seq(Elements) /\ dateOf \in [Elements -> Int])'
      BY TypedDates, PTL
    <3> QED
      BY <3>1, <3>2
  <2>2. Pending' = Entries(order', dateOf')
    BY DEF Pending
  <2> QED
    BY <2>1, <2>2, EntriesType
<1> HIDE DEF g, h
<1>4. (\A x \in Elements : x # e => h[x] = g[x]) /\ h[e] = new
  <2>1. dateOf'[e] = date /\ \A x \in Elements : x # e => dateOf'[x] = dateOf[x]
    BY <1>1 DEF IInv, TypeOK
  <2> QED
    BY <1>2, <1>3, <2>1
<1>5. \A i \in 1..Len(order) : order[i] \in Elements /\ order[i] # e
  <2>1. \A i \in 1..Len(order) : order[i] \in Elems(order)
    BY DEF Elems
  <2> QED
    BY <1>1, <2>1
<1>6. Image(h, order) = Image(g, order)
  BY <1>4, <1>5 DEF Image
<1>7. Image(h, Append(order, e)) = Append(Image(h, order), h[e])
  BY <1>1, <1>3, ImageAppend
<1> HIDE DEF new
<1>8. Pending' = Append(Pending, new)
  BY <1>1, <1>2, <1>3, <1>4, <1>6, <1>7
<1>9. \A i \in 1..Len(Pending) : Pending[i].element # e
  <2>1. Len(Pending) = Len(order)
    BY <1>1, <1>2, ImageType
  <2>2. \A i \in 1..Len(order) : Pending[i] = g[order[i]]
    BY <1>2 DEF Image
  <2>3. ASSUME NEW x \in Elements PROVE g[x].element = x
    <3>1. g[x] = [element |-> x, due |-> dateOf[x]]
      BY <1>2
    <3> QED
      BY <3>1
  <2> QED
    BY <1>5, <2>1, <2>2, <2>3
<1> QED
  BY <1>1, <1>8, <1>9, Zenon DEF Implemented!Put, Pending, Entries, new

\* The scheduler delivers what a plain list of dated elements would: each element once, by
\* the clock of its date or the next one when it is late, the late ones first, and otherwise
\* in the order of the puts (TScheduler::put, TScheduler::clock).
THEOREM SchedulerImplementsAgenda == Spec => AgendaSpec
<1>1. Init => Implemented!Init
  <2> SUFFICES ASSUME Init PROVE Implemented!Init
    OBVIOUS
  <2>1. fDate = 0 /\ out = <<>> /\ order = <<>>
    BY DEF Init
  <2>2. Pending = <<>>
    BY <2>1 DEF Pending, Entries
  <2> QED
    BY <2>1, <2>2, Zenon DEF Implemented!Init, Pending, Entries
<1>2. IInv /\ [Next]_vars => [Implemented!Next]_<<fDate, Pending, out>>
  <2> SUFFICES ASSUME IInv, [Next]_vars PROVE [Implemented!Next]_<<fDate, Pending, out>>
    OBVIOUS
  <2>1. CASE clock
    BY <2>1, ClockRefines DEF Implemented!Next
  <2>2. CASE Put(Elements)
    <3>1. PICK e \in Elements, date \in 0..LastDate : put(e, date)
      BY <2>2 DEF Put
    <3>2. Implemented!Put(e, date)
      BY <3>1, PutRefines
    <3> QED
      BY <3>2 DEF Implemented!Next
  <2>3. CASE UNCHANGED vars \/ Stop
    <3>1. fDate' = fDate /\ out' = out /\ order' = order /\ dateOf' = dateOf
      BY <2>3 DEF Stop, vars
    <3> QED
      BY <3>1 DEF Pending, Entries
  <2> QED
    BY <2>1, <2>2, <2>3 DEF Next
<1>3. Spec => Implemented!Init /\ [][Implemented!Next]_<<fDate, Pending, out>>
  BY <1>1, <1>2, Inductive, PTL DEF Spec
<1> QED
  BY <1>3, PTL DEF AgendaSpec, Implemented!Spec, Pending, Entries

-----------------------------------------------------------------------------
(* The player of the scripts.                                              *)

\* What is sent: the messages, without delay; an element that waits holds one of them.
Sendable == {Undelayed(m) : m \in Message} \union {None}
Mail == [message : Sendable, date : Nat]
LoadTimes == {date + lag : date \in LoadDates, lag \in 0..MaxLag}

\* The types, and when nothing is loaded.
PlayTypes ==
  /\ session \in Programs \union {None}
  /\ loaded \in LoadTimes \union {Never}
  /\ todo \in Seq(Message)
  /\ held \in [Elements -> Sendable]
  /\ sent \in Seq(Mail)
  /\ session = None => loaded = Never
  /\ loaded = Never /\ session # None => order = <<>>
  /\ loaded = Never => todo = <<>> /\ sent = <<>>

LEMMA LoadTime ==
  ASSUME NEW l \in LoadTimes
  PROVE  /\ l \in Nat /\ l # Never
         /\ \A m \in Message : m.delay \in Nat /\ l + m.delay \in 0..LastDate
<1>1. PICK date \in LoadDates, lag \in 0..MaxLag : l = date + lag
  BY DEF LoadTimes
<1>2. date \in Nat /\ MaxLag \in Nat /\ LastDate \in Int
  BY LoadAssumption, MaxLagAssumption, LastDateAssumption, BaseAssumption
<1>3. ASSUME NEW m \in Message PROVE m.delay \in Nat /\ date + MaxLag + m.delay <= LastDate
  BY LoadAssumption, MessageAssumption
<1> QED
  BY <1>1, <1>2, <1>3 DEF Never

\* The messages of a script that are due at a date.
DueAt(list, x) == Pick(list, {m \in Message : Due(m) = x})

LEMMA UnusedElement ==
  Unused # {} => (CHOOSE x \in Unused : TRUE) \in Elements
BY DEF Unused

\* A step of the player is a step of the scheduler.
LEMMA PlayerStep ==
  ASSUME PlayTypes, [PlayerNext]_playerVars
  PROVE  [Next]_vars
<1>1. CASE session = None /\ (clock \/ Stop \/ Put(Free)) /\ UNCHANGED play
  BY <1>1, FreeAssumption DEF Next, Put
<1>2. CASE \E lag \in 0..MaxLag : Load(fDate + lag)
  BY <1>2 DEF Load
<1>3. CASE Process
  BY <1>3 DEF Process
<1>4. CASE Schedule
  <2> DEFINE e == CHOOSE x \in Unused : TRUE
             date == loaded + Head(todo).delay
  <2>1. put(e, date) /\ e \in Elements /\ todo # <<>>
    BY <1>4, UnusedElement DEF Schedule
  <2>2. date \in 0..LastDate
    <3>1. Head(todo) \in Message /\ loaded \in LoadTimes
      BY <2>1 DEF PlayTypes
    <3> QED
      BY <3>1, LoadTime
  <2> HIDE DEF e, date
  <2> QED
    BY <2>1, <2>2 DEF Next, Put
<1>5. CASE Tick
  BY <1>5 DEF Tick, Next
<1>6. CASE UNCHANGED playerVars
  BY <1>6 DEF playerVars
<1> QED
  BY <1>1, <1>2, <1>3, <1>4, <1>5, <1>6 DEF PlayerNext

\* The messages that are sent, or that wait, with a date.
Stamp(x) == [m \in Sendable |-> [message |-> m, date |-> x]]
Zeroed == [m \in Message |-> Undelayed(m)]
SentAt(x) == Pick(sent, {s \in Mail : s.date = x})
Waits(x) == Image(held, Pick(order, Dated(x)))

LEMMA StampType ==
  ASSUME NEW x \in Nat
  PROVE  /\ Stamp(x) \in MapsTo(Sendable, Mail)
         /\ \A m \in Sendable : Stamp(x)[m] = [message |-> m, date |-> x]
         /\ \A list \in Seq(Sendable) :
              /\ Sent(list, x) = Image(Stamp(x), list)
              /\ Image(Stamp(x), list) \in Seq(Mail)
              /\ \A s \in Elems(Image(Stamp(x), list)) : s \in Mail /\ s.date = x
<1>1. \A m \in Sendable : [message |-> m, date |-> x] \in Mail
  BY DEF Mail
<1>2. /\ Stamp(x) \in MapsTo(Sendable, Mail)
      /\ \A m \in Sendable : Stamp(x)[m] = [message |-> m, date |-> x]
  BY <1>1 DEF Stamp, MapsTo
<1>3. ASSUME NEW list \in Seq(Sendable)
      PROVE  /\ Sent(list, x) = Image(Stamp(x), list)
             /\ Image(Stamp(x), list) \in Seq(Mail)
             /\ \A s \in Elems(Image(Stamp(x), list)) : s \in Mail /\ s.date = x
  <2>1. \A i \in 1..Len(list) : list[i] \in Sendable
    OBVIOUS
  <2>2. \A i \in 1..Len(list) : Stamp(x)[list[i]] = [message |-> list[i], date |-> x]
    BY <1>2, <2>1
  <2>3. Sent(list, x) = Image(Stamp(x), list)
    BY <2>2, Zenon DEF Sent, Image
  <2>4. Image(Stamp(x), list) \in Seq(Mail)
    BY <1>2, ImageType
  <2>5. \A s \in Elems(Image(Stamp(x), list)) : \E m \in Sendable : s = Stamp(x)[m]
    <3>1. Elems(list) \subseteq Sendable
      BY ElemsType
    <3>2. Elems(Image(Stamp(x), list)) = {Stamp(x)[m] : m \in Elems(list)}
      BY <1>2, ImageElems
    <3> QED
      BY <3>1, <3>2
  <2>6. ASSUME NEW m \in Sendable PROVE Stamp(x)[m] \in Mail /\ Stamp(x)[m].date = x
    <3>1. [message |-> m, date |-> x].date = x
      OBVIOUS
    <3> QED
      BY <1>1, <1>2, <3>1, Zenon
  <2> QED
    BY <2>3, <2>4, <2>5, <2>6, Zenon
<1> QED
  BY <1>2, <1>3

LEMMA ZeroedType ==
  /\ Zeroed \in MapsTo(Message, Sendable)
  /\ \A m \in Message : /\ Zeroed[m] = Undelayed(m) /\ m.delay \in Nat
                        /\ m.delay = 0 => Zeroed[m] = m
<1>1. \A m \in Message : Undelayed(m) \in Sendable
  BY DEF Sendable
<1>2. \A m \in Message : Zeroed[m] = Undelayed(m)
  BY DEF Zeroed
<1>3. ASSUME NEW m \in Message PROVE m.delay \in Nat /\ (m.delay = 0 => Undelayed(m) = m)
  <2>1. m = [field \in DOMAIN m |-> m[field]] /\ m.delay \in Nat
    BY MessageAssumption
  <2>2. ASSUME m.delay = 0 PROVE Undelayed(m) = m
    <3>1. Undelayed(m) = [field \in DOMAIN m |-> IF field = "delay" THEN 0 ELSE m[field]]
      BY <2>1 DEF Undelayed
    <3>2. \A field \in DOMAIN m : (IF field = "delay" THEN 0 ELSE m[field]) = m[field]
      BY <2>2
    <3> QED
      BY <2>1, <3>1, <3>2
  <2> QED
    BY <2>1, <2>2
<1> QED
  BY <1>1, <1>2, <1>3 DEF Zeroed, MapsTo

LEMMA ImageSame ==
  ASSUME NEW T, NEW list \in Seq(T), NEW g, NEW h, \A e \in Elems(list) : g[e] = h[e]
  PROVE  Image(g, list) = Image(h, list)
BY DEF Image, Elems

LEMMA ImageEmpty == ASSUME NEW g PROVE Image(g, <<>>) = <<>>
BY DEF Image

LEMMA CatLast ==
  ASSUME NEW T, NEW a \in Seq(T), NEW b \in Seq(T), NEW e \in T
  PROVE  Cat(a, Append(b, e)) = Append(Cat(a, b), e)
<1>1. Append(b, e) = Cat(b, <<e>>) /\ <<e>> \in Seq(T) /\ Cat(a, b) \in Seq(T)
  BY AppendCat, CatType
<1>2. Append(Cat(a, b), e) = Cat(Cat(a, b), <<e>>)
  BY <1>1, AppendCat
<1> DEFINE u == <<e>>
<1>3. u \in Seq(T)
  BY <1>1
<1> HIDE DEF u
<1>4. Cat(Cat(a, b), u) = Cat(a, Cat(b, u))
  BY <1>3, CatAssociative
<1> QED
  BY <1>1, <1>2, <1>4 DEF u

-----------------------------------------------------------------------------
\* When a part of the script is played, each of its messages was sent, or waits for its
\* date, in the order of the script.
Played1(done, x) ==
  Cat(SentAt(x), Image(Stamp(x), Waits(x))) = Image(Stamp(x), Image(Zeroed, DueAt(done, x)))

\* What waits is due later, and what was sent was due.
Ahead == \A e \in Waiting : dateOf[e] > fDate /\ dateOf[e] > loaded
Past == \A s \in Elems(sent) : s.date <= fDate \/ s.date = loaded
InOrder == \A i, j \in 1..Len(sent) : i < j => sent[i].date <= sent[j].date

Playing(done) ==
  /\ MessagesOf[session] = Cat(done, todo)
  /\ \A x \in Nat : Played1(done, x)
  /\ Ahead /\ Past /\ InOrder
  /\ todo # <<>> => fDate <= loaded

PlayInv == loaded # Never => \E done \in Seq(Message) : Playing(done)

\* The lists of the invariant.
LEMMA PlayLists ==
  ASSUME IInv, PlayTypes, NEW x \in Nat, NEW done \in Seq(Message)
  PROVE  /\ order \in Seq(Elements) /\ Elems(order) = Waiting
         /\ Pick(order, Dated(x)) \in Seq(Elements)
         /\ Elems(Pick(order, Dated(x))) = Waiting \intersect Dated(x)
         /\ Waits(x) \in Seq(Sendable) /\ Image(Stamp(x), Waits(x)) \in Seq(Mail)
         /\ SentAt(x) \in Seq(Mail)
         /\ DueAt(done, x) \in Seq(Message)
         /\ Image(Zeroed, DueAt(done, x)) \in Seq(Sendable)
<1>1. order \in Seq(Elements) /\ Elems(order) = Waiting
  <2>1. order \in Seq(Waiting) /\ Waiting \subseteq Elements
    BY DEF IInv, TypeOK, Waiting
  <2> QED
    BY <2>1 DEF IInv, Ordered
<1>2. /\ Pick(order, Dated(x)) \in Seq(Elements)
      /\ Elems(Pick(order, Dated(x))) = Waiting \intersect Dated(x)
  BY <1>1, PickType
<1>3. held \in MapsTo(Elements, Sendable)
  BY DEF PlayTypes, MapsTo
<1>4. Waits(x) \in Seq(Sendable)
  BY <1>2, <1>3, ImageType DEF Waits
<1>5. Image(Stamp(x), Waits(x)) \in Seq(Mail)
  BY <1>4, StampType
<1>6. SentAt(x) \in Seq(Mail)
  BY PickType DEF SentAt, PlayTypes
<1>7. DueAt(done, x) \in Seq(Message)
  BY PickType DEF DueAt
<1>8. Image(Zeroed, DueAt(done, x)) \in Seq(Sendable)
  BY <1>7, ZeroedType, ImageType
<1> QED
  BY <1>1, <1>2, <1>4, <1>5, <1>6, <1>7, <1>8

\* The invariant, when the last message of the script is played.
LEMMA PlayInvSent ==
  ASSUME IInv, PlayTypes, PlayInv
  PROVE  SentInOrder
<1> SUFFICES ASSUME loaded # Never, todo = <<>> PROVE SentInOrder
  BY DEF SentInOrder
<1> DEFINE script == MessagesOf[session]
           due(x) == Pick(script, {m \in Elems(script) : Due(m) = x})
           dates == {Due(m) : m \in Elems(script)} \union {s.date : s \in Elems(sent)}
<1>1. loaded \in LoadTimes /\ loaded \in Nat /\ session \in Programs /\ script \in Seq(Message)
  BY LoadTime, MessageAssumption DEF PlayTypes
<1>2. PICK done \in Seq(Message) : Playing(done)
  BY DEF PlayInv
<1>3. done = script
  BY <1>2, CatEmpty DEF Playing
<1>4. Elems(script) \subseteq Message /\ sent \in Seq(Mail) /\ Elems(sent) \subseteq Mail
  <2>1. sent \in Seq(Mail)
    BY DEF PlayTypes
  <2> QED
    BY <1>1, <2>1, ElemsType
<1>5. dates \subseteq Nat
  <2>1. \A m \in Elems(script) : Due(m) \in Nat
    BY <1>1, <1>4, MessageAssumption DEF Due
  <2>2. \A s \in Elems(sent) : s.date \in Nat
    BY <1>4 DEF Mail
  <2> HIDE DEF script
  <2> QED
    BY <2>1, <2>2
<1>6. ASSUME NEW x \in Nat
      PROVE  Pick(sent, {s \in Elems(sent) : s.date = x}) =
               IF x = loaded \/ x <= fDate
                 THEN Sent([i \in 1..Len(due(x)) |-> Undelayed(due(x)[i])], x)
                 ELSE <<>>
  <2>1. SentAt(x) = Pick(sent, {s \in Elems(sent) : s.date = x})
    <3>1. \A s \in Elems(sent) : s \in {q \in Mail : q.date = x} <=> s \in {q \in Elems(sent) : q.date = x}
      BY <1>4
    <3> QED
      BY <1>4, <3>1, PickSame DEF SentAt
  <2>2. DueAt(script, x) = due(x)
    <3>1. \A m \in Elems(script) : m \in {q \in Message : Due(q) = x} <=> m \in {q \in Elems(script) : Due(q) = x}
      BY <1>4
    <3> QED
      BY <1>1, <3>1, PickSame DEF DueAt
  <2>3. due(x) \in Seq(Message) /\ Image(Zeroed, due(x)) \in Seq(Sendable)
    BY <1>1, <2>2, PlayLists
  <2>4. [i \in 1..Len(due(x)) |-> Undelayed(due(x)[i])] = Image(Zeroed, due(x))
    <3>1. \A i \in 1..Len(due(x)) : due(x)[i] \in Message
      BY <2>3
    <3>2. \A i \in 1..Len(due(x)) : Zeroed[due(x)[i]] = Undelayed(due(x)[i])
      BY <3>1, ZeroedType
    <3> HIDE DEF due
    <3> QED
      BY <3>2, Zenon DEF Image
  <2> HIDE DEF due, script
  <2>5. CASE x = loaded \/ x <= fDate
    <3>1. Waiting \intersect Dated(x) = {}
      <4>1. fDate \in Int /\ x \in Int
        BY NowWheels DEF IInv
      <4> QED
        BY <1>1, <1>2, <2>5, <4>1 DEF Playing, Ahead, Dated
    <3>2. Pick(order, Dated(x)) = <<>>
      <4>1. order \in Seq(Elements) /\ Elems(order) = Waiting
        BY <1>2, PlayLists
      <4> QED
        BY <3>1, <4>1, PickNone
    <3>3. Image(Stamp(x), Waits(x)) = <<>>
      BY <3>2, ImageEmpty DEF Waits
    <3>4. SentAt(x) = Image(Stamp(x), Image(Zeroed, due(x)))
      <4>1. SentAt(x) \in Seq(Mail) /\ Played1(script, x)
        BY <1>2, <1>3, PlayLists DEF Playing
      <4>2. Cat(SentAt(x), <<>>) = SentAt(x)
        BY <4>1, CatEmpty
      <4> QED
        BY <2>2, <3>3, <4>1, <4>2 DEF Played1
    <3> QED
      BY <2>1, <2>3, <2>4, <2>5, <3>4, StampType
  <2>6. CASE ~(x = loaded \/ x <= fDate)
    <3>1. Elems(sent) \intersect {s \in Elems(sent) : s.date = x} = {}
      BY <1>2, <2>6 DEF Playing, Past
    <3>2. Pick(sent, {s \in Elems(sent) : s.date = x}) = <<>>
      BY <1>4, <3>1, PickNone
    <3> QED
      BY <2>6, <3>2
  <2> QED
    BY <2>5, <2>6
<1>7. InOrder
  BY <1>2 DEF Playing
<1> HIDE DEF dates, script
<1>8. \A x \in dates :
        Pick(sent, {s \in Elems(sent) : s.date = x}) =
          IF x = loaded \/ x <= fDate
            THEN Sent([i \in 1..Len(due(x)) |-> Undelayed(due(x)[i])], x)
            ELSE <<>>
  BY <1>5, <1>6
<1> QED
  BY <1>7, <1>8 DEF SentInOrder, InOrder, dates, script

-----------------------------------------------------------------------------
(* The steps of the player.                                                *)

\* A script is loaded: nothing was sent, and nothing waits.
LEMMA LoadPlays ==
  ASSUME IInv, PlayTypes, NEW lag \in 0..MaxLag, Load(fDate + lag)
  PROVE  PlayTypes' /\ PlayInv'
<1>1. /\ session # None /\ loaded = Never /\ fDate \in LoadDates
      /\ loaded' = fDate + lag /\ todo' = MessagesOf[session]
      /\ UNCHANGED <<fDate, dateOf, order, session, held, sent>>
  BY DEF Load, vars
<1>2. session \in Programs /\ MessagesOf[session] \in Seq(Message)
  BY <1>1, MessageAssumption DEF PlayTypes
<1>3. loaded' \in LoadTimes
  BY <1>1 DEF LoadTimes
<1>4. loaded' # Never /\ order = <<>> /\ sent = <<>>
  BY <1>1, <1>3, LoadTime DEF PlayTypes
<1>5. PlayTypes'
  BY <1>1, <1>2, <1>3, <1>4 DEF PlayTypes
<1> DEFINE none == <<>>
<1>6. none \in Seq(Message) /\ \A S : Pick(none, S) = none
  BY PickEmpty
<1>7. MessagesOf[session] = Cat(none, MessagesOf[session])
  BY <1>2, CatEmpty
<1>8. ASSUME NEW x \in Nat PROVE Played1(none, x)'
  <2>1. Pick(order', Dated(x)') = none /\ SentAt(x)' = none /\ DueAt(none, x)' = none
    BY <1>1, <1>4, <1>6 DEF SentAt, DueAt
  <2>2. Waits(x)' = none
    BY <2>1, ImageEmpty DEF Waits
  <2>3. \A g : Image(g, none) = none
    BY ImageEmpty
  <2>4. Cat(none, none) = none
    BY <1>6, CatEmpty
  <2> HIDE DEF none
  <2> QED
    BY <2>1, <2>2, <2>3, <2>4 DEF Played1
<1>9. Ahead'
  <2>1. Waiting = {}
    <3>1. Elems(order) = Waiting
      BY DEF IInv, Ordered
    <3> QED
      BY <1>4, <3>1, ElemsEmpty
  <2>2. Waiting' = Waiting
    BY <1>1 DEF Waiting
  <2> QED
    BY <2>1, <2>2 DEF Ahead
<1>10. Past' /\ InOrder'
  <2>1. sent' = <<>> /\ Elems(<<>>) = {} /\ 1..Len(<<>>) = {}
    BY <1>1, <1>4, ElemsEmpty
  <2> QED
    BY <2>1 DEF Past, InOrder
<1>11. fDate' <= loaded'
  BY <1>1, MaxLagAssumption, NowWheels DEF IInv
<1>12. Playing(none)'
  <2> HIDE DEF none
  <2> QED
    BY <1>1, <1>7, <1>8, <1>9, <1>10, <1>11 DEF Playing
<1> QED
  BY <1>5, <1>6, <1>12 DEF PlayInv

\* A message is played: one more of the script, one less to play.
LEMMA OneMore ==
  ASSUME NEW script, NEW done \in Seq(Message), NEW rest \in Seq(Message), rest # <<>>,
         script = Cat(done, rest)
  PROVE  /\ Head(rest) \in Message /\ Tail(rest) \in Seq(Message)
         /\ Append(done, Head(rest)) \in Seq(Message)
         /\ script = Cat(Append(done, Head(rest)), Tail(rest))
<1> DEFINE m == Head(rest)
           u == <<m>>
           t == Tail(rest)
<1>1. m \in Message /\ t \in Seq(Message) /\ rest = u \o t /\ u \in Seq(Message)
  <2>1. m \in Message /\ t \in Seq(Message) /\ u \in Seq(Message) /\ Len(u) = 1
    OBVIOUS
  <2> DEFINE w == u \o t
  <2>2. w \in Seq(Message) /\ Len(w) = Len(rest) /\ \A i \in 1..Len(rest) : w[i] = rest[i]
    OBVIOUS
  <2>3. w = rest
    <3> HIDE DEF w
    <3> QED
      BY <2>2, SeqEqual
  <2> QED
    BY <2>1, <2>3
<1>2. Append(done, m) \in Seq(Message)
  BY <1>1
<1>3. Append(done, m) = Cat(done, u)
  BY <1>1, AppendCat
<1> HIDE DEF u, t, m
<1>4. Cat(Cat(done, u), t) = Cat(done, Cat(u, t))
  BY <1>1, CatAssociative
<1>5. rest = Cat(u, t)
  BY <1>1 DEF Cat
<1>6. script = Cat(Append(done, m), t)
  BY <1>3, <1>4, <1>5
<1> QED
  BY <1>1, <1>2, <1>6 DEF t, m

\* The messages due at a date, with one more message.
LEMMA DueMore ==
  ASSUME NEW done \in Seq(Message), NEW m \in Message, NEW x \in Nat
  PROVE  Image(Stamp(x), Image(Zeroed, DueAt(Append(done, m), x))) =
           IF Due(m) = x
             THEN Append(Image(Stamp(x), Image(Zeroed, DueAt(done, x))),
                         [message |-> Undelayed(m), date |-> x])
             ELSE Image(Stamp(x), Image(Zeroed, DueAt(done, x)))
<1> DEFINE list == DueAt(done, x)
<1>1. list \in Seq(Message)
  BY PickType DEF DueAt
<1>2. DueAt(Append(done, m), x) = IF Due(m) = x THEN Append(list, m) ELSE list
  BY PickAppend DEF DueAt
<1> HIDE DEF list
<1>3. /\ Image(Zeroed, list) \in Seq(Sendable)
      /\ Image(Zeroed, Append(list, m)) = Append(Image(Zeroed, list), Zeroed[m])
      /\ Zeroed[m] = Undelayed(m) /\ Zeroed[m] \in Sendable
  <2>1. Zeroed[m] \in Sendable
    BY ZeroedType DEF MapsTo
  <2> QED
    BY <1>1, <2>1, ZeroedType, ImageType, ImageAppend
<1>4. Image(Stamp(x), Append(Image(Zeroed, list), Zeroed[m])) =
        Append(Image(Stamp(x), Image(Zeroed, list)), [message |-> Undelayed(m), date |-> x])
  <2>1. Stamp(x) \in MapsTo(Sendable, Mail) /\ Stamp(x)[Zeroed[m]] = [message |-> Undelayed(m), date |-> x]
    BY <1>3, StampType
  <2> QED
    BY <1>3, <2>1, ImageAppend
<1> QED
  BY <1>2, <1>3, <1>4 DEF list

\* A message without delay is sent at once.
LEMMA ProcessPlays ==
  ASSUME IInv, PlayTypes, PlayInv, Process
  PROVE  PlayTypes' /\ PlayInv'
<1>0. PICK m : m = Head(todo)
  OBVIOUS
<1> DEFINE mail == [message |-> m, date |-> loaded]
<1>1. /\ todo # <<>> /\ m.delay = 0
      /\ sent' = sent \o Sent(<<m>>, loaded) /\ todo' = Tail(todo)
      /\ UNCHANGED <<fDate, dateOf, order, session, loaded, held>>
  BY <1>0 DEF Process, vars
<1>2. loaded \in LoadTimes /\ loaded \in Nat /\ loaded # Never
  BY <1>1, LoadTime DEF PlayTypes
<1>3. PICK done \in Seq(Message) : Playing(done)
  BY <1>2 DEF PlayInv
<1> DEFINE more == Append(done, m)
<1>4. /\ m \in Message /\ todo' \in Seq(Message) /\ more \in Seq(Message)
      /\ MessagesOf[session] = Cat(more, todo')
  BY <1>0, <1>1, <1>3, OneMore DEF Playing, PlayTypes
<1>5. /\ Undelayed(m) = m /\ m \in Sendable /\ mail \in Mail /\ Due(m) = loaded
  <2>1. Undelayed(m) = m /\ m \in Sendable
    BY <1>1, <1>4, ZeroedType DEF Sendable
  <2> QED
    BY <1>1, <1>2, <1>4, <2>1 DEF Mail, Due
<1>6. sent' = Append(sent, mail)
  <2>1. Sent(<<m>>, loaded) = <<mail>>
    BY DEF Sent
  <2>2. sent \in Seq(Mail)
    BY DEF PlayTypes
  <2> HIDE DEF mail
  <2> QED
    BY <1>1, <1>5, <2>1, <2>2, AppendCat DEF Cat
<1>7. sent \in Seq(Mail) /\ sent' \in Seq(Mail)
  BY <1>5, <1>6 DEF PlayTypes
<1> HIDE DEF more
<1>8. PlayTypes'
  BY <1>1, <1>2, <1>4, <1>7 DEF PlayTypes
<1>9. ASSUME NEW x \in Nat PROVE Played1(more, x)'
  <2>1. Waits(x)' = Waits(x) /\ DueAt(more, x)' = DueAt(more, x)
    BY <1>1 DEF Waits, Dated, DueAt, Due
  <2>2. SentAt(x)' = IF x = loaded THEN Append(SentAt(x), mail) ELSE SentAt(x)
    <3>1. mail \in {s \in Mail : s.date = x} <=> x = loaded
      BY <1>5
    <3> HIDE DEF mail
    <3> QED
      BY <1>5, <1>6, <1>7, <3>1, PickAppend DEF SentAt
  <2>3. Image(Stamp(x), Image(Zeroed, DueAt(more, x))) =
          IF x = loaded THEN Append(Image(Stamp(x), Image(Zeroed, DueAt(done, x))), mail)
                        ELSE Image(Stamp(x), Image(Zeroed, DueAt(done, x)))
    BY <1>4, <1>5, DueMore DEF more
  <2>4. Cat(SentAt(x), Image(Stamp(x), Waits(x))) = Image(Stamp(x), Image(Zeroed, DueAt(done, x)))
    BY <1>3 DEF Playing, Played1
  <2> HIDE DEF mail
  <2>5. CASE x = loaded
    <3>1. Waiting \intersect Dated(x) = {}
      BY <1>2, <1>3, <2>5 DEF Playing, Ahead, Dated, Waiting, IInv, TypeOK
    <3>2. Pick(order, Dated(x)) = <<>>
      <4>1. order \in Seq(Elements) /\ Elems(order) = Waiting
        BY <1>3, PlayLists
      <4> QED
        BY <3>1, <4>1, PickNone
    <3>3. Image(Stamp(x), Waits(x)) = <<>>
      BY <3>2, ImageEmpty DEF Waits
    <3>4. SentAt(x) \in Seq(Mail) /\ Append(SentAt(x), mail) \in Seq(Mail)
      BY <1>3, <1>5, PlayLists
    <3>5. Cat(SentAt(x), <<>>) = SentAt(x) /\ Cat(Append(SentAt(x), mail), <<>>) = Append(SentAt(x), mail)
      BY <3>4, CatEmpty
    <3> QED
      BY <2>1, <2>2, <2>3, <2>4, <2>5, <3>3, <3>5 DEF Played1, Stamp
  <2>6. CASE x # loaded
    BY <2>1, <2>2, <2>3, <2>4, <2>6 DEF Played1, Stamp
  <2> QED
    BY <2>5, <2>6
<1>10. Ahead'
  BY <1>1, <1>3 DEF Playing, Ahead, Waiting
<1>11. Past'
  <2>1. Elems(sent') = Elems(sent) \union {mail} /\ mail.date = loaded
    <3>1. Elems(Append(sent, mail)) = Elems(sent) \union {mail}
      <4> HIDE DEF mail
      <4> QED
        BY <1>5, <1>7, ElemsAppend
    <3> QED
      BY <1>6, <3>1
  <2> HIDE DEF mail
  <2> QED
    BY <1>1, <1>3, <2>1 DEF Playing, Past
<1>12. InOrder'
  <2>1. mail.date = loaded
    OBVIOUS
  <2> HIDE DEF mail
  <2>2. fDate <= loaded /\ fDate \in Int
    BY <1>1, <1>3, NowWheels DEF Playing, IInv
  <2>3. \A i \in 1..Len(sent) : sent[i].date <= loaded /\ sent[i] \in Elems(sent)
    <3> SUFFICES ASSUME NEW i \in 1..Len(sent)
                 PROVE  sent[i].date <= loaded /\ sent[i] \in Elems(sent)
      OBVIOUS
    <3>1. sent[i] \in Elems(sent) /\ sent[i] \in Mail
      BY <1>7 DEF Elems
    <3>2. sent[i].date \in Nat
      BY <3>1 DEF Mail
    <3> QED
      BY <1>2, <1>3, <2>2, <3>1, <3>2 DEF Playing, Past
  <2>4. InOrder
    BY <1>3 DEF Playing
  <2>5. /\ Len(sent) \in Nat /\ Len(sent') = Len(sent) + 1 /\ sent'[Len(sent) + 1] = mail
        /\ \A i \in 1..Len(sent) : sent'[i] = sent[i]
    BY <1>5, <1>6, <1>7
  <2> SUFFICES ASSUME NEW i \in 1..Len(sent'), NEW j \in 1..Len(sent'), i < j
               PROVE  sent'[i].date <= sent'[j].date
    BY DEF InOrder
  <2>6. i \in 1..Len(sent) /\ (j \in 1..Len(sent) \/ j = Len(sent) + 1)
    BY <2>5
  <2> QED
    BY <2>1, <2>3, <2>4, <2>5, <2>6 DEF InOrder
<1>13. fDate' <= loaded'
  BY <1>1, <1>3 DEF Playing
<1>14. Playing(more)'
  BY <1>1, <1>4, <1>9, <1>10, <1>11, <1>12, <1>13 DEF Playing
<1> QED
  BY <1>4, <1>8, <1>14 DEF PlayInv

\* A delayed message waits for its date, in an element of its own.
LEMMA SchedulePlays ==
  ASSUME IInv, PlayTypes, PlayInv, Schedule
  PROVE  PlayTypes' /\ PlayInv'
<1>0. PICK m, e, date : /\ m = Head(todo) /\ e = (CHOOSE x \in Unused : TRUE)
                        /\ date = loaded + Head(todo).delay
  OBVIOUS
<1>1. /\ todo # <<>> /\ m.delay # 0 /\ e \in Elements
      /\ put(e, date) /\ held' = [held EXCEPT ![e] = Undelayed(m)]
      /\ todo' = Tail(todo)
      /\ UNCHANGED <<session, loaded, sent>>
  BY <1>0, UnusedElement DEF Schedule
<1>2. loaded \in LoadTimes /\ loaded \in Nat /\ loaded # Never
  BY <1>1, LoadTime DEF PlayTypes
<1>3. PICK done \in Seq(Message) : Playing(done)
  BY <1>2 DEF PlayInv
<1> DEFINE more == Append(done, m)
<1>4. /\ m \in Message /\ todo' \in Seq(Message) /\ more \in Seq(Message)
      /\ MessagesOf[session] = Cat(more, todo')
  BY <1>0, <1>1, <1>3, OneMore DEF Playing, PlayTypes
<1>5. /\ date \in 0..LastDate /\ date \in Nat /\ Due(m) = date
      /\ loaded < date /\ fDate < date /\ fDate \in Nat
  <2>1. m.delay \in Nat /\ loaded + m.delay \in 0..LastDate
    BY <1>2, <1>4, LoadTime
  <2>2. fDate <= loaded /\ fDate \in Nat
    BY <1>1, <1>3, NowWheels DEF Playing, IInv
  <2> QED
    BY <1>0, <1>1, <1>2, <2>1, <2>2 DEF Due
<1>6. /\ e \notin Waiting /\ Waiting' = Waiting \union {e}
      /\ order \in Seq(Elements) /\ Elems(order) = Waiting
      /\ order' = Append(order, e)
      /\ dateOf' = [dateOf EXCEPT ![e] = date] /\ dateOf \in [Elements -> Int]
      /\ fDate' = fDate
  BY <1>1, <1>5, PutStep, TypedDates DEF IInv
<1>7. /\ Undelayed(m) \in Sendable /\ held' \in [Elements -> Sendable]
      /\ held'[e] = Undelayed(m) /\ \A x \in Elements : x # e => held'[x] = held[x]
  <2>1. Undelayed(m) \in Sendable
    BY <1>4 DEF Sendable
  <2> HIDE DEF Sendable
  <2> QED
    BY <1>1, <2>1 DEF PlayTypes
<1> HIDE DEF more
<1>8. PlayTypes'
  BY <1>1, <1>2, <1>4, <1>7 DEF PlayTypes
<1>9. ASSUME NEW x \in Nat PROVE Played1(more, x)'
  <2> DEFINE mail == [message |-> Undelayed(m), date |-> x]
             list == Pick(order, Dated(x))
  <2>1. SentAt(x)' = SentAt(x) /\ DueAt(more, x)' = DueAt(more, x) /\ Stamp(x)' = Stamp(x)
    BY <1>1 DEF SentAt, DueAt, Due, Stamp
  <2>2. Image(Stamp(x), Image(Zeroed, DueAt(more, x))) =
          IF x = date THEN Append(Image(Stamp(x), Image(Zeroed, DueAt(done, x))), mail)
                      ELSE Image(Stamp(x), Image(Zeroed, DueAt(done, x)))
    BY <1>4, <1>5, DueMore DEF more
  <2>3. Cat(SentAt(x), Image(Stamp(x), Waits(x))) = Image(Stamp(x), Image(Zeroed, DueAt(done, x)))
    BY <1>3 DEF Playing, Played1
  <2>4. /\ list \in Seq(Elements) /\ Elems(list) = Waiting \intersect Dated(x)
        /\ Waits(x) \in Seq(Sendable) /\ Image(Stamp(x), Waits(x)) \in Seq(Mail)
        /\ SentAt(x) \in Seq(Mail)
    BY <1>3, PlayLists
  <2>5. Waits(x) = Image(held, list) /\ Image(held', list) = Image(held, list)
    <3>1. \A d \in Elems(list) : held'[d] = held[d]
      BY <1>6, <1>7, <2>4 DEF Dated
    <3> HIDE DEF list
    <3>2. Image(held', list) = Image(held, list)
      BY <2>4, <3>1, ImageSame
    <3> QED
      BY <3>2 DEF Waits, list
  <2>6. Pick(order, Dated(x)') = list
    <3>1. Dated(x)' \in {Dated(x), Dated(x) \union {e}, Dated(x) \ {e}}
      BY <1>1, <1>5, PutDated
    <3> QED
      BY <1>6, <3>1, PickMore
  <2>7. Pick(order', Dated(x)') = IF x = date THEN Append(list, e) ELSE list
    <3>1. e \in Dated(x)' <=> x = date
      BY <1>1, <1>6 DEF Dated
    <3>2. Pick(Append(order, e), Dated(x)') =
            IF e \in Dated(x)' THEN Append(Pick(order, Dated(x)'), e) ELSE Pick(order, Dated(x)')
      BY <1>1, <1>6, PickAppend
    <3> QED
      BY <1>6, <2>6, <3>1, <3>2
  <2>8. Waits(x)' = IF x = date THEN Append(Waits(x), Undelayed(m)) ELSE Waits(x)
    <3>1. held' \in MapsTo(Elements, Sendable)
      BY <1>7 DEF MapsTo
    <3>2. Image(held', Append(list, e)) = Append(Image(held', list), held'[e])
      <4> DEFINE then == held'
      <4>1. then \in MapsTo(Elements, Sendable) /\ list \in Seq(Elements) /\ e \in Elements
        BY <1>1, <2>4, <3>1
      <4> HIDE DEF list, then
      <4>2. Image(then, Append(list, e)) = Append(Image(then, list), then[e])
        BY <4>1, ImageAppend
      <4> QED
        BY <4>2 DEF then
    <3>3. Waits(x)' = Image(held', Pick(order', Dated(x)'))
      BY DEF Waits
    <3> HIDE DEF list
    <3> QED
      BY <1>7, <2>5, <2>7, <3>2, <3>3
  <2>9. CASE x = date
    <3>1. Image(Stamp(x), Append(Waits(x), Undelayed(m))) = Append(Image(Stamp(x), Waits(x)), mail)
      <4>1. Stamp(x) \in MapsTo(Sendable, Mail) /\ Stamp(x)[Undelayed(m)] = mail
        BY <1>7, StampType
      <4> HIDE DEF mail
      <4> QED
        BY <1>7, <2>4, <4>1, ImageAppend
    <3>2. mail \in Mail
      BY <1>7 DEF Mail
    <3> HIDE DEF mail, list
    <3>3. Cat(SentAt(x), Append(Image(Stamp(x), Waits(x)), mail))
            = Append(Cat(SentAt(x), Image(Stamp(x), Waits(x))), mail)
      BY <2>4, <3>2, CatLast
    <3> QED
      BY <2>1, <2>2, <2>3, <2>8, <2>9, <3>1, <3>3 DEF Played1
  <2>10. CASE x # date
    BY <2>1, <2>2, <2>3, <2>8, <2>10 DEF Played1
  <2> QED
    BY <2>9, <2>10
<1>10. Ahead'
  <2>1. ASSUME NEW d \in Waiting' PROVE dateOf'[d] > fDate' /\ dateOf'[d] > loaded'
    <3>1. CASE d = e
      BY <1>1, <1>5, <1>6, <3>1
    <3>2. CASE d # e
      <4>1. d \in Waiting /\ dateOf'[d] = dateOf[d]
        BY <1>6, <2>1, <3>2 DEF Waiting
      <4> QED
        BY <1>1, <1>3, <1>6, <4>1 DEF Playing, Ahead
    <3> QED
      BY <3>1, <3>2
  <2> QED
    BY <2>1 DEF Ahead
<1>11. Past' /\ InOrder' /\ (todo' # <<>> => fDate' <= loaded')
  BY <1>1, <1>3, <1>6 DEF Playing, Past, InOrder
<1>12. Playing(more)'
  BY <1>1, <1>4, <1>9, <1>10, <1>11 DEF Playing
<1> QED
  BY <1>4, <1>8, <1>12 DEF PlayInv

-----------------------------------------------------------------------------
\* What a clock sends: what waits for the new date.
LEMMA TickSends ==
  ASSUME IInv, PlayTypes, Ahead, clock, NEW y, y = fDate + 1
  PROVE  /\ y \in Nat /\ fDate \in Nat /\ fDate' = y
         /\ out' = Pick(order, Dated(y)) /\ out' \in Seq(Elements)
         /\ Elems(out') = {e \in Waiting : dateOf[e] <= y}
         /\ Elems(out') = Waiting \intersect Dated(y)
         /\ dateOf' = [e \in Elements |-> IF e \in Elements \ Elems(out') THEN dateOf[e] ELSE Never]
         /\ order' = Pick(order, Elements \ Elems(out'))
         /\ order \in Seq(Elements) /\ Elems(order) = Waiting
<1>1. PICK t : t = Now'
  OBVIOUS
<1>2. /\ fDate' = fDate + 1
      /\ out' = Cat(Pick(order, Late), Pick(order, Dated(fDate + 1)))
      /\ dateOf' = [e \in Elements |-> IF e \in Elements \ Elems(out') THEN dateOf[e] ELSE Never]
      /\ order' = Pick(order, Elements \ Elems(out'))
  BY <1>1, ClockStep
<1>3. /\ out' \in Seq(Elements) /\ Elems(out') = {e \in Waiting : dateOf[e] <= fDate + 1}
      /\ order \in Seq(Elements) /\ Elems(order) = Waiting
      /\ Pick(order, Dated(fDate + 1)) \in Seq(Elements)
  BY ClockDelivers
<1>4. fDate \in Nat /\ y \in Nat /\ \A e \in Waiting : dateOf[e] \in Int
  BY NowWheels, TypedDates DEF IInv, Waiting
<1>5. Waiting \intersect Late = {}
  BY <1>4 DEF Ahead, Late
<1>6. Pick(order, Late) = <<>>
  BY <1>3, <1>5, PickNone
<1>7. out' = Pick(order, Dated(y))
  BY <1>2, <1>3, <1>6, CatEmpty
<1>8. Elems(out') = Waiting \intersect Dated(y)
  BY <1>3, <1>7, PickType
<1> QED
  BY <1>2, <1>3, <1>4, <1>7, <1>8

\* What is sent of a list, date by date.
LEMMA SentParts ==
  ASSUME NEW x \in Nat, NEW y \in Nat, NEW list \in Seq(Sendable)
  PROVE  Pick(Image(Stamp(y), list), {s \in Mail : s.date = x}) =
           IF x = y THEN Image(Stamp(y), list) ELSE <<>>
<1> DEFINE sents == Image(Stamp(y), list)
           S == {s \in Mail : s.date = x}
<1>1. sents \in Seq(Mail) /\ \A s \in Elems(sents) : s \in Mail /\ s.date = y
  BY StampType
<1> HIDE DEF sents
<1>2. CASE x = y
  <2>1. Elems(sents) \subseteq S
    BY <1>1, <1>2
  <2>2. Pick(sents, S) = sents
    BY <1>1, <2>1, PickAll
  <2> QED
    BY <1>2, <2>2 DEF sents
<1>3. CASE x # y
  <2>1. Elems(sents) \intersect S = {}
    BY <1>1, <1>3
  <2>2. Pick(sents, S) = <<>>
    BY <1>1, <2>1, PickNone
  <2> QED
    BY <1>3, <2>2 DEF sents
<1> QED
  BY <1>2, <1>3

\* A clock sends the messages that wait for its date.
LEMMA TickPlays ==
  ASSUME IInv, IInv', PlayTypes, PlayInv, Tick
  PROVE  PlayTypes' /\ PlayInv'
<1>0. PICK y, now : y = fDate + 1 /\ now = out'
  OBVIOUS
<1> DEFINE told == Image(held, now)
<1>1. /\ session # None /\ todo = <<>> /\ clock
      /\ sent' = sent \o Sent([i \in 1..Len(now) |-> held[now[i]]], fDate')
      /\ held' = [e \in Elements |-> IF dateOf'[e] = Never THEN None ELSE held[e]]
      /\ UNCHANGED <<session, loaded, todo>>
  BY <1>0 DEF Tick
<1>2. Ahead
  <2>1. CASE loaded = Never
    <3>1. order = <<>> /\ Elems(order) = Waiting
      BY <1>1, <2>1 DEF PlayTypes, IInv, Ordered
    <3> QED
      BY <3>1, ElemsEmpty DEF Ahead
  <2> QED
    BY <2>1 DEF PlayInv, Playing
<1>3. /\ y \in Nat /\ fDate \in Nat /\ fDate' = y
      /\ now = Pick(order, Dated(y)) /\ now \in Seq(Elements)
      /\ Elems(now) = {e \in Waiting : dateOf[e] <= y}
      /\ Elems(now) = Waiting \intersect Dated(y)
      /\ dateOf' = [e \in Elements |-> IF e \in Elements \ Elems(now) THEN dateOf[e] ELSE Never]
      /\ order' = Pick(order, Elements \ Elems(now))
      /\ order \in Seq(Elements) /\ Elems(order) = Waiting
  BY <1>0, <1>1, <1>2, TickSends
<1>4. /\ held \in MapsTo(Elements, Sendable) /\ told \in Seq(Sendable)
      /\ Image(Stamp(y), told) \in Seq(Mail)
      /\ sent' = sent \o Image(Stamp(y), told)
      /\ \A s \in Elems(Image(Stamp(y), told)) : s.date = y
  <2>1. held \in MapsTo(Elements, Sendable)
    BY DEF PlayTypes, MapsTo
  <2>2. told \in Seq(Sendable)
    BY <1>3, <2>1, ImageType
  <2>3. told = [i \in 1..Len(now) |-> held[now[i]]]
    BY DEF Image
  <2> HIDE DEF told
  <2> QED
    BY <1>1, <1>3, <2>1, <2>2, <2>3, StampType
<1> HIDE DEF told
<1>5. sent \in Seq(Mail) /\ sent' \in Seq(Mail) /\ Elems(sent') = Elems(sent) \union Elems(Image(Stamp(y), told))
  <2>1. sent \in Seq(Mail)
    BY DEF PlayTypes
  <2> QED
    BY <1>4, <2>1, ElemsConcat
<1>6. held' \in [Elements -> Sendable]
  <2>1. None \in Sendable
    BY DEF Sendable
  <2> HIDE DEF Sendable
  <2> QED
    BY <1>1, <2>1 DEF PlayTypes
<1>7. CASE loaded = Never
  <2>1. order = <<>> /\ sent = <<>> /\ Waiting = {}
    BY <1>1, <1>3, <1>7, ElemsEmpty DEF PlayTypes
  <2>2. now = <<>> /\ order' = <<>>
    BY <1>3, <2>1, PickEmpty
  <2>3. Image(Stamp(y), told) = <<>>
    BY <2>2, ImageEmpty DEF told
  <2>4. sent' = <<>>
    BY <1>4, <2>1, <2>3
  <2> QED
    BY <1>1, <1>5, <1>6, <1>7, <2>2, <2>4 DEF PlayTypes, PlayInv
<1>8. CASE loaded # Never
  <2>1. loaded \in LoadTimes /\ loaded \in Nat
    BY <1>8, LoadTime DEF PlayTypes
  <2>2. PICK done \in Seq(Message) : Playing(done)
    BY <1>8 DEF PlayInv
  <2>3. PlayTypes'
    BY <1>1, <1>5, <1>6, <2>1, <1>8 DEF PlayTypes
  <2>4. ASSUME NEW x \in Nat PROVE Played1(done, x)'
    <3>1. DueAt(done, x)' = DueAt(done, x) /\ Stamp(x)' = Stamp(x)
      BY <1>1 DEF DueAt, Due, Stamp
    <3>2. Cat(SentAt(x), Image(Stamp(x), Waits(x))) = Image(Stamp(x), Image(Zeroed, DueAt(done, x)))
      BY <2>2 DEF Playing, Played1
    <3>3. SentAt(x)' = Cat(SentAt(x), IF x = y THEN Image(Stamp(y), told) ELSE <<>>)
      <4>1. SentAt(x)' = Pick(sent \o Image(Stamp(y), told), {s \in Mail : s.date = x})
        BY <1>4 DEF SentAt
      <4>2. Pick(Cat(sent, Image(Stamp(y), told)), {s \in Mail : s.date = x}) =
              Cat(Pick(sent, {s \in Mail : s.date = x}),
                  Pick(Image(Stamp(y), told), {s \in Mail : s.date = x}))
        BY <1>4, <1>5, PickCat
      <4>3. sent \o Image(Stamp(y), told) = Cat(sent, Image(Stamp(y), told))
        BY DEF Cat
      <4> QED
        BY <1>3, <1>4, <4>1, <4>2, <4>3, SentParts DEF SentAt
    <3>4. /\ SentAt(x) \in Seq(Mail) /\ Pick(order, Dated(x)) \in Seq(Elements)
          /\ Elems(Pick(order, Dated(x))) = Waiting \intersect Dated(x)
          /\ Image(Stamp(x), Waits(x)) \in Seq(Mail)
      BY <2>2, PlayLists
    <3>5. Pick(order', Dated(x)') = Pick(order, (Elements \ Elems(now)) \intersect Dated(x)')
      BY <1>3, PickPick
    <3>6. \A e \in Elements : e \in Dated(x)' <=> e \in Dated(x) /\ e \notin Elems(now)
      BY <1>3 DEF Dated, Never
    <3>7. Cat(SentAt(x), <<>>) = SentAt(x) /\ Cat(SentAt(x)', <<>>) = SentAt(x)'
      <4>1. SentAt(x)' \in Seq(Mail)
        BY <1>5, PickType DEF SentAt
      <4> QED
        BY <3>4, <4>1, CatEmpty
    <3>8. CASE x = y
      <4>1. Waits(x) = told
        BY <1>3, <3>8 DEF Waits, told
      <4>2. Elems(order) \intersect ((Elements \ Elems(now)) \intersect Dated(x)') = {}
        BY <1>3, <3>6, <3>8
      <4>3. Pick(order', Dated(x)') = <<>>
        BY <1>3, <3>5, <4>2, PickNone
      <4>4. Image(Stamp(x), Waits(x)') = <<>>
        BY <4>3, ImageEmpty DEF Waits
      <4> QED
        BY <3>1, <3>2, <3>3, <3>7, <3>8, <4>1, <4>4 DEF Played1
    <3>9. CASE x # y
      <4>1. \A e \in Elems(order) :
              e \in (Elements \ Elems(now)) \intersect Dated(x)' <=> e \in Dated(x)
        BY <1>3, <3>6, <3>9 DEF Dated, Waiting
      <4>2. Pick(order', Dated(x)') = Pick(order, Dated(x))
        BY <1>3, <3>5, <4>1, PickSame
      <4>3. \A e \in Elems(Pick(order, Dated(x))) : held'[e] = held[e]
        BY <1>1, <1>3, <3>4, <3>9 DEF Dated, Waiting
      <4>4. Waits(x)' = Waits(x)
        BY <3>4, <4>2, <4>3, ImageSame DEF Waits
      <4> QED
        BY <3>1, <3>2, <3>3, <3>7, <3>9, <4>4 DEF Played1
    <3> QED
      BY <3>8, <3>9
  <2>5. Ahead'
    <3>1. ASSUME NEW e \in Waiting' PROVE dateOf'[e] > fDate' /\ dateOf'[e] > loaded'
      <4>1. e \in Waiting /\ e \notin Elems(now) /\ dateOf'[e] = dateOf[e] /\ dateOf[e] \in Int
        BY <1>3, <3>1, TypedDates DEF Waiting, IInv
      <4> QED
        BY <1>1, <1>2, <1>3, <4>1 DEF Ahead
    <3> QED
      BY <3>1 DEF Ahead
  <2>6. \A s \in Elems(sent) : s.date \in Nat /\ (s.date <= fDate \/ s.date = loaded)
    <3>1. Elems(sent) \subseteq Mail
      BY <1>5, ElemsType
    <3> QED
      BY <2>2, <3>1 DEF Playing, Past, Mail
  <2>7. Past'
    <3> DEFINE new == Image(Stamp(y), told)
    <3> SUFFICES ASSUME NEW s \in Elems(sent')
                 PROVE  s.date <= fDate' \/ s.date = loaded'
      BY DEF Past
    <3> HIDE DEF new
    <3>1. s \in Elems(sent) \/ s \in Elems(new)
      BY <1>5 DEF new
    <3>2. CASE s \in Elems(sent)
      <4>1. s.date \in Nat /\ (s.date <= fDate \/ s.date = loaded)
        BY <2>6, <3>2
      <4>2. loaded' = loaded /\ fDate' = fDate + 1 /\ fDate \in Nat
        BY <1>0, <1>1, <1>3
      <4> QED
        BY <4>1, <4>2
    <3>3. CASE s \in Elems(new)
      BY <1>3, <1>4, <3>3 DEF new
    <3> QED
      BY <3>1, <3>2, <3>3
  <2>8. InOrder'
    <3> DEFINE new == Image(Stamp(y), told)
    <3>1. ASSUME new # <<>> PROVE loaded < y
      <4>1. now # <<>>
        BY <3>1, ImageEmpty DEF told
      <4>2. PICK e \in Elems(now) : TRUE
        BY <1>3, <4>1, NoElems
      <4> QED
        BY <1>2, <1>3, <2>1, <4>2 DEF Ahead, Dated
    <3> HIDE DEF new
    <3>2. /\ Len(sent) \in Nat /\ Len(new) \in Nat /\ Len(sent') = Len(sent) + Len(new)
          /\ \A i \in 1..Len(sent) + Len(new) :
               sent'[i] = IF i <= Len(sent) THEN sent[i] ELSE new[i - Len(sent)]
      BY <1>4, <1>5, CatIndex DEF Cat, new
    <3>3. \A i \in 1..Len(new) : new[i].date = y
      BY <1>4 DEF Elems, new
    <3>4. \A i \in 1..Len(sent) :
            sent[i].date \in Nat /\ (sent[i].date <= fDate \/ sent[i].date = loaded)
      BY <2>6 DEF Elems
    <3>5. InOrder
      BY <2>2 DEF Playing
    <3> SUFFICES ASSUME NEW i \in 1..Len(sent'), NEW j \in 1..Len(sent'), i < j
                 PROVE  sent'[i].date <= sent'[j].date
      BY DEF InOrder
    <3>6. CASE j <= Len(sent)
      <4>1. i \in 1..Len(sent) /\ j \in 1..Len(sent) /\ sent'[i] = sent[i] /\ sent'[j] = sent[j]
        BY <3>2, <3>6
      <4> QED
        BY <3>5, <4>1 DEF InOrder
    <3>7. CASE j > Len(sent)
      <4>1. j - Len(sent) \in 1..Len(new) /\ sent'[j] = new[j - Len(sent)]
        BY <3>2, <3>7
      <4>2. sent'[j].date = y /\ loaded < y
        <5>1. new # <<>>
          <6>1. Len(new) # 0
            BY <3>2, <4>1
          <6> QED
            BY <6>1
        <5> QED
          BY <3>1, <3>3, <4>1, <5>1
      <4>3. sent'[i].date <= y
        <5>1. CASE i <= Len(sent)
          <6>1. i \in 1..Len(sent) /\ sent'[i] = sent[i]
            BY <3>2, <5>1
          <6> QED
            <7>1. sent[i].date \in Nat /\ (sent[i].date <= fDate \/ sent[i].date = loaded)
              BY <3>4, <6>1
            <7>2. y = fDate + 1 /\ fDate \in Nat /\ loaded \in Nat /\ loaded < y
              BY <1>0, <1>3, <2>1, <4>2
            <7> DEFINE d == sent[i].date
            <7>3. d <= y
              <8> HIDE DEF d
              <8>1. d \in Nat /\ (d <= fDate \/ d = loaded)
                BY <7>1 DEF d
              <8> QED
                BY <7>2, <8>1
            <7> QED
              BY <6>1, <7>3
        <5>2. CASE i > Len(sent)
          <6>1. i - Len(sent) \in 1..Len(new) /\ sent'[i] = new[i - Len(sent)]
            BY <3>2, <5>2
          <6> QED
            BY <1>3, <3>3, <6>1
        <5> QED
          BY <3>2, <5>1, <5>2
      <4> QED
        BY <4>2, <4>3
    <3> QED
      BY <3>2, <3>6, <3>7
  <2>9. Playing(done)'
    BY <1>1, <2>2, <2>4, <2>5, <2>7, <2>8 DEF Playing
  <2> QED
    BY <1>1, <2>3, <2>9 DEF PlayInv
<1> QED
  BY <1>7, <1>8

-----------------------------------------------------------------------------
\* Nothing changes for the player while there is no script.
LEMMA PlayInductive ==
  ASSUME IInv, IInv', PlayTypes, PlayInv, [PlayerNext]_playerVars
  PROVE  PlayTypes' /\ PlayInv'
<1>1. CASE session = None /\ UNCHANGED play
  <2>1. loaded = Never
    BY <1>1 DEF PlayTypes
  <2> QED
    BY <1>1, <2>1 DEF play, PlayTypes, PlayInv
<1>2. CASE UNCHANGED playerVars
  <2>1. UNCHANGED <<fDate, dateOf, order, session, loaded, todo, held, sent>>
    BY <1>2 DEF playerVars, vars, play
  <2>2. PlayTypes'
    BY <2>1 DEF PlayTypes
  <2>3. Ahead' = Ahead /\ Past' = Past /\ InOrder' = InOrder
    BY <2>1 DEF Ahead, Past, InOrder, Waiting
  <2>4. ASSUME NEW done, NEW x PROVE Played1(done, x)' = Played1(done, x)
    BY <2>1 DEF Played1, SentAt, Waits, Dated, DueAt, Due, Stamp
  <2>5. ASSUME NEW done, Playing(done) PROVE Playing(done)'
    BY <2>1, <2>3, <2>4, <2>5 DEF Playing
  <2> QED
    BY <2>1, <2>2, <2>5 DEF PlayInv
<1> QED
  BY <1>1, <1>2, LoadPlays, ProcessPlays, SchedulePlays, TickPlays DEF PlayerNext

LEMMA PlayerInitial ==
  ASSUME PlayerInit
  PROVE  Init /\ PlayTypes /\ PlayInv
<1>1. None \in Sendable
  BY DEF Sendable
<1>2. loaded = Never /\ Init
  BY DEF PlayerInit
<1> HIDE DEF Sendable
<1> QED
  BY <1>1, <1>2 DEF PlayerInit, PlayTypes, PlayInv, Init

LEMMA PlayerInvariant == PlayerSpec => [](IInv /\ PlayTypes /\ PlayInv)
<1>1. PlayerInit => IInv /\ PlayTypes /\ PlayInv
  BY PlayerInitial, InitInductive
<1>2. IInv /\ PlayTypes /\ PlayInv /\ [PlayerNext]_playerVars => (IInv /\ PlayTypes /\ PlayInv)'
  BY PlayerStep, StepInductive, PlayInductive
<1> QED
  BY <1>1, <1>2, PTL DEF PlayerSpec

\* A script that is loaded only uses the scheduler through put and clock (TILoader::parse,
\* IAppl::timerEvent): the steps of the player are steps of the scheduler.
THEOREM PlayerSchedules == PlayerSpec => Spec
<1>1. PlayerInit => Init
  BY DEF PlayerInit
<1>2. PlayTypes /\ [PlayerNext]_playerVars => [Next]_vars
  BY PlayerStep
<1> QED
  BY <1>1, <1>2, PlayerInvariant, PTL DEF PlayerSpec, Spec

\* So, when scripts are loaded while the time runs, every element is still filed where the
\* clock of its date finds it, and returned at this date, in the order of the puts.
THEOREM PlayerOnTime == PlayerSpec => [](TypeOK /\ Filed /\ OnTime) /\ AgendaSpec
BY PlayerSchedules, TypesCorrect, ElementsFiled, AlwaysOnTime, SchedulerImplementsAgenda, PTL

\* The messages of a script, each one at the date when it is loaded plus its delay: those
\* whose date has come were sent, once, in the order of the dates and, for the same date, in
\* the order of the script, and no other one was (TILoader::parse, IAppl::timerEvent).
THEOREM ScriptSentInOrder == PlayerSpec => []SentInOrder
<1>1. IInv /\ PlayTypes /\ PlayInv => SentInOrder
  BY PlayInvSent
<1> QED
  BY <1>1, PlayerInvariant, PTL

=============================================================================
