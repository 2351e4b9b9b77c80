--------------------------- MODULE TimeTaskProofs ---------------------------
(***************************************************************************)
(* Proofs about TimeTask, for all finite sets of objects, all scenes,      *)
(* watches, messages and dates.                                            *)
(***************************************************************************)
EXTENDS TimeTask, ListProofs, FiniteSetTheorems, TLAPS

-----------------------------------------------------------------------------
(* The lists that the model is built from.                                 *)

\* The concatenation of lists of elements of S.
LEMMA FlattenType ==
  ASSUME NEW S, NEW seqs \in Seq(Seq(S))
  PROVE  FlattenSeq(seqs) \in Seq(S)
<1>1. CASE Len(seqs) = 0
  <2>1. seqs = <<>>
    BY <1>1
  <2> QED
    BY <1>1, <2>1 DEF FlattenSeq
<1>2. CASE Len(seqs) # 0
  <2> DEFINE n == Len(seqs)
             lists == Seq(S)
             Step(f, i) == IF i = 1 THEN seqs[i] ELSE f[i - 1] \o seqs[i]
             flatten == CHOOSE f : f = [i \in 1..n |-> Step(f, i)]
             step == [i \in 1..n - 1 |-> [s \in lists |-> s \o seqs[i + 1]]]
  <2>1. n \in Nat \ {0} /\ \A i \in 1..n : seqs[i] \in lists
    BY <1>2
  <2>2. FlattenSeq(seqs) = flatten[n]
    BY <1>2 DEF FlattenSeq
  <2>3. \A i \in 1..n - 1 : \A s \in lists : step[i][s] = s \o seqs[i + 1]
    OBVIOUS
  <2>4. \A i \in 1..n - 1 : \A s \in lists : step[i][s] \in lists
    <3>1. ASSUME NEW i \in 1..n - 1, NEW s \in lists PROVE step[i][s] \in lists
      <4>1. seqs[i + 1] \in Seq(S)
        BY <2>1
      <4> QED
        BY <2>3, <4>1
    <3> QED
      BY <3>1
  <2> HIDE DEF n, flatten, step, lists
  <2>5. PICK g \in [0..n - 1 -> lists] : Iterates(g, n - 1, seqs[1], step)
    <3>1. n - 1 \in Nat /\ seqs[1] \in lists
      BY <2>1
    <3> QED
      BY <2>4, <3>1, Recursion
  <2> DEFINE h == [i \in 1..n |-> g[i - 1]]
  <2>6. \A i \in 1..n : h[i] = Step(h, i)
    <3>1. ASSUME NEW i \in 1..n, i = 1 PROVE h[i] = Step(h, i)
      BY <2>1, <2>5, <3>1 DEF Iterates
    <3>2. ASSUME NEW i \in 1..n, i # 1 PROVE h[i] = Step(h, i)
      <4>1. i - 1 \in 1..n - 1 /\ (i - 1) + 1 = i /\ i - 1 \in 1..n /\ (i - 1) - 1 \in 0..n - 1
        BY <2>1, <3>2
      <4>2. g[i - 1] = step[i - 1][g[(i - 1) - 1]]
        BY <2>5, <4>1 DEF Iterates
      <4>3. h[i] = g[i - 1] /\ h[i - 1] = g[(i - 1) - 1] /\ h[i - 1] \in lists
        BY <4>1
      <4>4. h[i] = h[i - 1] \o seqs[i]
        BY <2>3, <4>1, <4>2, <4>3
      <4> QED
        BY <3>2, <4>4
    <3> QED
      BY <3>1, <3>2
  <2> HIDE DEF Step
  <2>7. h = [i \in 1..n |-> Step(h, i)]
    BY <2>6
  <2> HIDE DEF h
  <2>8. flatten = [i \in 1..n |-> Step(flatten, i)]
    BY <2>7 DEF flatten
  <2> DEFINE P == {i \in Nat : i + 1 <= n => flatten[i + 1] \in lists}
  <2>9. 0 \in P
    BY <2>1, <2>8 DEF Step
  <2>10. ASSUME NEW i \in Nat, i \in P PROVE i + 1 \in P
    <3> SUFFICES ASSUME (i + 1) + 1 <= n PROVE flatten[(i + 1) + 1] \in lists
      OBVIOUS
    <3>1. flatten[i + 1] \in lists /\ (i + 1) + 1 \in 1..n /\ (i + 1) + 1 # 1
      BY <2>1, <2>10
    <3>2. flatten[(i + 1) + 1] = flatten[((i + 1) + 1) - 1] \o seqs[(i + 1) + 1]
      BY <2>8, <3>1 DEF Step
    <3>3. ((i + 1) + 1) - 1 = i + 1 /\ seqs[(i + 1) + 1] \in lists
      BY <2>1, <3>1
    <3> QED
      BY <3>1, <3>2, <3>3 DEF lists
  <2> HIDE DEF P
  <2>11. Nat \subseteq P
    BY <2>9, <2>10, Induction
  <2>12. n - 1 \in P /\ (n - 1) + 1 = n
    BY <2>1, <2>11
  <2>13. flatten[n] \in lists
    BY <2>1, <2>12 DEF P
  <2> QED
    BY <2>2, <2>13 DEF lists
<1> QED
  BY <1>1, <1>2

\* A list of the elements of a finite set has each of them once.
LEMMA SetToSeqOnce ==
  ASSUME NEW S, IsFiniteSet(S)
  PROVE  /\ SetToSeq(S) \in Seq(S)
         /\ \A x \in S : \E i \in 1..Len(SetToSeq(S)) :
              \A j \in 1..Len(SetToSeq(S)) : SetToSeq(S)[j] = x <=> j = i
<1> DEFINE n == Cardinality(S)
           f == SetToSeq(S)
<1>1. n \in Nat /\ ExistsBijection(1..n, S)
  BY FS_CardinalityType
<1>2. \E g \in [1..n -> S] : IsInjective(g)
  BY <1>1 DEF ExistsBijection, Bijection, Injection
<1>3. f \in [1..n -> S] /\ IsInjective(f)
  BY <1>2 DEF SetToSeq
<1> HIDE DEF f
<1>4. f \in Injection(1..n, S)
  BY <1>3 DEF Injection
<1>5. f \in Surjection(1..n, S)
  <2>1. Cardinality(1..n) = n
    BY <1>1, FS_Interval
  <2> QED
    BY <1>4, <2>1, FS_Injection
<1>6. f \in Seq(S) /\ Len(f) = n
  BY <1>1, <1>3
<1>7. ASSUME NEW x \in S PROVE \E i \in 1..n : \A j \in 1..n : f[j] = x <=> j = i
  <2>1. PICK i \in 1..n : f[i] = x
    BY <1>5 DEF Surjection
  <2> QED
    BY <1>3, <2>1 DEF IsInjective
<1> QED
  BY <1>6, <1>7 DEF f

-----------------------------------------------------------------------------
(* The number of moves on a stack.                                         *)

IsMove(e, o) == e.from = "move" /\ e.msg.obj = o
Weight(e, o) == IF IsMove(e, o) THEN 1 ELSE 0

LEMMA CountEmpty == ASSUME NEW o PROVE Count(<<>>, o) = 0
<1>1. Moves(<<>>, o) = {}
  BY DEF Moves
<1> QED
  BY <1>1, FS_EmptySet DEF Count

LEMMA MovesFinite ==
  ASSUME NEW T, NEW s \in Seq(T), NEW o
  PROVE  IsFiniteSet(Moves(s, o)) /\ Count(s, o) \in Nat
<1>1. IsFiniteSet(1..Len(s)) /\ Moves(s, o) \in SUBSET (1..Len(s))
  BY FS_Interval DEF Moves
<1> QED
  BY <1>1, FS_Subset, FS_CardinalityType DEF Count

LEMMA CountAppend ==
  ASSUME NEW T, NEW s \in Seq(T), NEW e \in T, NEW o
  PROVE  Count(Append(s, e), o) = Count(s, o) + Weight(e, o)
<1> DEFINE n == Len(s)
           longer == Append(s, e)
<1>1. Len(longer) = n + 1 /\ n \in Nat /\ longer[n + 1] = e /\ \A i \in 1..n : longer[i] = s[i]
  OBVIOUS
<1> HIDE DEF longer, n
<1>2. \A i : i \in 1..n + 1 <=> i \in 1..n \/ i = n + 1
  BY <1>1
<1>3. Moves(longer, o) = Moves(s, o) \union (IF IsMove(e, o) THEN {n + 1} ELSE {})
  BY <1>1, <1>2 DEF Moves, IsMove, n
<1>4. n + 1 \notin Moves(s, o)
  BY <1>1 DEF Moves, n
<1> QED
  <2>1. IsFiniteSet(Moves(s, o)) /\ Count(s, o) \in Nat
    BY MovesFinite
  <2>2. CASE IsMove(e, o)
    <3>1. Cardinality(Moves(s, o) \union {n + 1}) = Cardinality(Moves(s, o)) + 1
      BY <1>4, <2>1, FS_AddElement
    <3> QED
      BY <1>3, <2>2, <3>1 DEF Count, Weight, longer
  <2>3. CASE ~IsMove(e, o)
    <3>1. Count(longer, o) = Count(s, o)
      BY <1>3, <2>3 DEF Count
    <3> QED
      BY <2>1, <2>3, <3>1 DEF Weight, longer
  <2> QED
    BY <2>2, <2>3

LEMMA CountConcat ==
  ASSUME NEW T, NEW s \in Seq(T), NEW t \in Seq(T), NEW o
  PROVE  Count(s \o t, o) = Count(s, o) + Count(t, o)
<1> DEFINE P == {u \in Seq(T) : Count(s \o u, o) = Count(s, o) + Count(u, o)}
<1>1. <<>> \in P
  <2>1. <<>> \in Seq(T) /\ s \o <<>> = s
    OBVIOUS
  <2>2. Count(s, o) \in Nat
    BY MovesFinite
  <2> QED
    BY <2>1, <2>2, CountEmpty
<1>2. ASSUME NEW u \in Seq(T), NEW e \in T, u \in P PROVE Append(u, e) \in P
  <2>1. s \o u \in Seq(T) /\ Append(u, e) \in Seq(T) /\ s \o Append(u, e) = Append(s \o u, e)
    OBVIOUS
  <2>2. Count(Append(s \o u, e), o) = Count(s \o u, o) + Weight(e, o)
    BY <2>1, CountAppend
  <2>3. Count(Append(u, e), o) = Count(u, o) + Weight(e, o)
    BY CountAppend
  <2>4. Count(s, o) \in Nat /\ Count(u, o) \in Nat /\ Weight(e, o) \in Nat
    BY MovesFinite DEF Weight
  <2>5. Count(s \o u, o) = Count(s, o) + Count(u, o)
    BY <1>2
  <2>6. Count(Append(s \o u, e), o) = Count(s, o) + Count(Append(u, e), o)
    <3> HIDE DEF P
    <3> QED
      BY <2>2, <2>3, <2>4, <2>5
  <2>7. Count(s \o Append(u, e), o) = Count(s, o) + Count(Append(u, e), o)
    BY <2>1, <2>6, Zenon
  <2> QED
    BY <2>1, <2>7
<1> HIDE DEF P
<1>3. Seq(T) \subseteq P
  BY <1>1, <1>2, ListInduction
<1> QED
  BY <1>3 DEF P

LEMMA CountHead ==
  ASSUME NEW T, NEW s \in Seq(T), s # <<>>, NEW o
  PROVE  Count(s, o) = Weight(Head(s), o) + Count(Tail(s), o)
<1> DEFINE first == Append(<<>>, Head(s))
<1>1. <<>> \in Seq(T) /\ Head(s) \in T /\ Tail(s) \in Seq(T)
  OBVIOUS
<1>2. first \in Seq(T) /\ s = first \o Tail(s)
  OBVIOUS
<1>3. Count(first, o) = 0 + Weight(Head(s), o)
  BY <1>1, CountAppend, CountEmpty
<1> HIDE DEF first
<1>4. Count(first \o Tail(s), o) = Count(first, o) + Count(Tail(s), o)
  BY <1>1, <1>2, CountConcat
<1>5. Weight(Head(s), o) \in Nat
  BY DEF Weight
<1>6. Count(s, o) = Count(first, o) + Count(Tail(s), o)
  BY <1>2, <1>4, Zenon
<1> QED
  BY <1>3, <1>5, <1>6

\* No move at all, or the moves of a list that a predicate on its elements tells.
LEMMA CountNone ==
  ASSUME NEW s, NEW o, \A i \in 1..Len(s) : ~IsMove(s[i], o)
  PROVE  Count(s, o) = 0
<1>1. Moves(s, o) = {}
  BY DEF Moves, IsMove
<1> QED
  BY <1>1, FS_EmptySet DEF Count

LEMMA CountSome ==
  ASSUME NEW T, NEW s \in Seq(T), NEW o, Count(s, o) = 0, NEW i \in 1..Len(s)
  PROVE  ~IsMove(s[i], o)
<1>1. Moves(s, o) = {}
  BY MovesFinite, FS_EmptySet DEF Count
<1> QED
  BY <1>1 DEF Moves, IsMove

\* The flags of the entries do not count.
LEMMA CountSame ==
  ASSUME NEW s, NEW t, Len(s) = Len(t), NEW o,
         \A i \in 1..Len(s) : s[i].from = t[i].from /\ s[i].msg = t[i].msg
  PROVE  Count(s, o) = Count(t, o)
<1>1. Moves(s, o) = Moves(t, o)
  BY DEF Moves
<1> QED
  BY <1>1 DEF Count

-----------------------------------------------------------------------------
(* The messages that the model posts.                                      *)

\* The messages that may be on a stack: no duration of an object that is not Clocked is
\* changed by a durClock.
Possible == {m \in Messages : m.method = "durClock" => m.obj \in Clocked}
Valid == [msg : Possible, from : Origins, new : BOOLEAN]
Watch == [obj : Objects, event : Events, first : 0..LastDate + 1,
          second : 0..LastDate + 1, send : Seq(Messages)]

LEMMA SendablePossible == Inputs \subseteq Possible
BY InputAssumption DEF Possible, Clocked, Sendable

LEMMA SendsPossible ==
  ASSUME NEW w \in Elems(Watches)
  PROVE  w \in Watch /\ w.send \in Seq(Possible)
<1>1. w \in Watch
  <2>1. PICK i \in 1..Len(Watches) : w = Watches[i]
    BY DEF Elems
  <2>2. Watches \in Seq(Watch)
    BY WatchAssumption DEF Watch
  <2> HIDE DEF Watch
  <2> QED
    BY <2>1, <2>2
<1>2. w.send \in Seq(Messages)
  BY <1>1 DEF Watch
<1>3. ASSUME NEW i \in 1..Len(w.send) PROVE w.send[i] \in Possible
  <2>1. w.send[i] \in Messages
    BY <1>2, <1>3
  <2>2. w.send[i] \in Elems(w.send)
    BY DEF Elems
  <2>3. w.send[i] \in Sendable
    BY <2>2 DEF Sendable
  <2> QED
    BY <2>1, <2>3 DEF Possible, Clocked
<1> QED
  BY <1>1, <1>2, <1>3

\* A list of watches: what is picked from Watches.
Chosen(ws) == ws \in Seq(Watch) /\ Elems(ws) \subseteq Elems(Watches)

LEMMA PickChosen ==
  ASSUME NEW S
  PROVE  Chosen(Pick(Watches, S)) /\ Elems(Pick(Watches, S)) = Elems(Watches) \intersect S
BY WatchAssumption, PickType DEF Chosen, Watch

LEMMA PostedType ==
  ASSUME NEW ws, Chosen(ws), NEW from \in Origins
  PROVE  /\ Posted(ws, from) \in Seq(Valid)
         /\ \A i \in 1..Len(Posted(ws, from)) :
              Posted(ws, from)[i].from = from /\ Posted(ws, from)[i].new
<1> DEFINE sends == [i \in 1..Len(ws) |-> ws[i].send]
           msgs == FlattenSeq(sends)
<1>1. sends \in Seq(Seq(Possible))
  <2>1. \A i \in 1..Len(ws) : ws[i].send \in Seq(Possible)
    BY SendsPossible DEF Chosen, Elems
  <2>2. Len(ws) \in Nat
    BY DEF Chosen
  <2> QED
    BY <2>1, <2>2
<1>2. msgs \in Seq(Possible)
  BY <1>1, FlattenType
<1>3. Posted(ws, from) = [i \in 1..Len(msgs) |-> Entry(msgs[i], from)]
  BY DEF Posted
<1> HIDE DEF msgs
<1>4. \A i \in 1..Len(msgs) :
        /\ Entry(msgs[i], from) \in Valid
        /\ Entry(msgs[i], from).from = from /\ Entry(msgs[i], from).new
  BY <1>2 DEF Entry, Valid
<1>5. Len(msgs) \in Nat
  BY <1>2
<1> QED
  BY <1>3, <1>4, <1>5

\* A post of events adds no move.
LEMMA PostedNoMove ==
  ASSUME NEW ws, Chosen(ws), NEW from \in {"event", "interval"}, NEW o
  PROVE  Count(Posted(ws, from), o) = 0
<1>1. from \in Origins
  BY DEF Origins
<1> QED
  BY <1>1, PostedType, CountNone DEF IsMove

LEMMA SimpleChosen ==
  ASSUME NEW o \in Objects, NEW method \in Methods
  PROVE  Chosen(Simple[o][method])
BY PickChosen DEF Simple

\* The next moves: one for each object that is visited and has a tempo.
Moving == {o \in Visited : fTempo[o] # 0}

LEMMA MoveType ==
  ASSUME TypeOK, NEW amount \in Amounts
  PROVE  /\ move(amount) \in Seq(Valid)
         /\ \A i \in 1..Len(move(amount)) : move(amount)[i].new /\ move(amount)[i].from = "move"
         /\ \A o \in Objects : Count(move(amount), o) = IF o \in Moving THEN 1 ELSE 0
<1> DEFINE moving == SetToSeq(Moving)
           E(i) == Entry([obj |-> moving[i], method |-> "ddate", value |-> amount], "move")
<1>1. IsFiniteSet(Moving) /\ Moving \subseteq Objects
  BY ObjectsAssumption, FS_Subset DEF Moving, Visited
<1>2. moving \in Seq(Moving)
  BY <1>1, SetToSeqOnce
<1>3. \A x \in Moving : \E i \in 1..Len(moving) : \A j \in 1..Len(moving) : moving[j] = x <=> j = i
  BY <1>1, SetToSeqOnce
<1>4. move(amount) = [i \in 1..Len(moving) |-> E(i)]
  BY DEF move, Moving
<1> HIDE DEF moving
<1>5. Len(moving) \in Nat /\ \A i \in 1..Len(moving) : moving[i] \in Moving /\ moving[i] \in Objects
  BY <1>1, <1>2
<1>6. amount \in Dates
  BY BoundAssumption
<1>7. \A i \in 1..Len(moving) : E(i) \in Valid /\ E(i).new /\ E(i).from = "move"
                                /\ E(i).msg.obj = moving[i]
  BY <1>5, <1>6 DEF Entry, Valid, Possible, Messages, Methods, Origins
<1> HIDE DEF E
<1>8. Len(move(amount)) = Len(moving) /\ \A i \in 1..Len(moving) : move(amount)[i] = E(i)
  BY <1>4, <1>5
<1>9. ASSUME NEW o \in Objects PROVE Count(move(amount), o) = IF o \in Moving THEN 1 ELSE 0
  <2>1. Moves(move(amount), o) = {i \in 1..Len(moving) : moving[i] = o}
    BY <1>7, <1>8 DEF Moves
  <2>2. CASE o \in Moving
    <3>1. PICK i \in 1..Len(moving) : \A j \in 1..Len(moving) : moving[j] = o <=> j = i
      BY <1>3, <2>2
    <3>2. Moves(move(amount), o) = {i}
      BY <2>1, <3>1
    <3> QED
      BY <2>2, <3>2, FS_Singleton DEF Count, Weight
  <2>3. CASE o \notin Moving
    <3>1. Moves(move(amount), o) = {}
      BY <1>5, <2>1, <2>3
    <3> QED
      BY <2>3, <3>1, FS_EmptySet DEF Count, Weight
  <2> QED
    BY <2>2, <2>3
<1> QED
  BY <1>4, <1>5, <1>7, <1>8, <1>9

-----------------------------------------------------------------------------
(* The inductive invariant.                                                *)

Types ==
  TypeOK /\ fMsgStack \in Seq(Valid) /\ fDelayStack \in Seq(Valid)

\* What was posted since the tick began: all that is delayed, all that is on the stack
\* once it was emptied, and nothing that an attribute posted while it is processed.
NewInv ==
  /\ \A i \in 1..Len(fDelayStack) : fDelayStack[i].new
  /\ task \in {"frame", "transfer"} => \A i \in 1..Len(fMsgStack) : fMsgStack[i].new
  /\ task = "update" =>
       \A i \in 1..Len(fMsgStack) : ~(fMsgStack[i].from = "event" /\ fMsgStack[i].new)

\* Where the next move of each object is.  In the update it is still to be processed,
\* or the object is modified, hence visited by the cleanup of this tick.
MoveInv ==
  \A o \in Objects :
    /\ task = "idle" =>
         /\ fDelayStack = <<>>
         /\ Count(fMsgStack, o) = IF fTempo[o] # 0 THEN 1 ELSE 0
    /\ task = "update" =>
         /\ Count(fDelayStack, o) = 0
         /\ fTempo[o] # 0 => o \in modified \/ Count(fMsgStack, o) # 0
    /\ task = "frame" =>
         /\ Count(fDelayStack, o) = 0 /\ Count(fMsgStack, o) = 0
         /\ fTempo[o] # 0 => o \in modified
    /\ task = "transfer" =>
         Count(fMsgStack, o) + Count(fDelayStack, o) = IF fTempo[o] # 0 THEN 1 ELSE 0

IInv == Types /\ NewInv /\ MoveInv /\ DatesAnnounced /\ DurationsAnnounced

LEMMA InitIInv == Init => IInv
<1> SUFFICES ASSUME Init PROVE IInv
  OBVIOUS
<1> USE DEF Init
<1>1. Types
  <2>1. <<>> \in Seq(Entries) /\ <<>> \in Seq(Valid)
    OBVIOUS
  <2>2. 0 \in Dates /\ 1 \in Dates /\ 0 \in 0..MaxArrivals
    BY BoundAssumption DEF Dates
  <2>3. announced \subseteq {"date", "duration"} \X {Interval(w) : w \in Elems(Watches)}
    BY DEF DateIntervals, DurationIntervals, Watched
  <2> QED
    BY <2>1, <2>2, <2>3 DEF Types, TypeOK
<1>2. NewInv
  BY DEF NewInv
<1>3. MoveInv
  BY CountEmpty DEF MoveInv
<1>4. \A i \in DateIntervals : i[2].obj \in Objects /\ i[1] = "date"
  <2>1. \A w \in Elems(Watches) : w.obj \in Objects
    BY SendsPossible DEF Watch
  <2> QED
    BY <2>1 DEF DateIntervals, Watched, Interval
<1>5. \A i \in DurationIntervals : i[2].obj \in Objects /\ i[1] = "duration"
  <2>1. \A w \in Elems(Watches) : w.obj \in Objects
    BY SendsPossible DEF Watch
  <2> QED
    BY <2>1 DEF DurationIntervals, Watched, Interval
<1>6. DatesAnnounced
  BY <1>4, <1>5 DEF DatesAnnounced, Announced
<1>7. DurationsAnnounced
  BY <1>4, <1>5 DEF DurationsAnnounced, Announced
<1> QED
  BY <1>1, <1>2, <1>3, <1>6, <1>7 DEF IInv

\* The part of a message that every handler does: what it posts has its origin, and no
\* move; the message itself, which may be one, has its object modified.
LEMMA ExecuteStep ==
  ASSUME Types, NewInv, MoveInv, task = "update", fMsgStack # <<>>,
         NEW m \in Messages, m = Head(fMsgStack).msg,
         NEW kind \in {"date", "duration"}, NEW ws, Chosen(ws),
         execute(m, kind, ws),
         \A o \in Objects : o # m.obj => fTempo'[o] = fTempo[o]
  PROVE  /\ fMsgStack' \in Seq(Valid) /\ fDelayStack' \in Seq(Valid)
         /\ modified' \subseteq Objects
         /\ announced' \subseteq {"date", "duration"} \X {Interval(w) : w \in Elems(Watches)}
         /\ task' = task /\ arrivals' = arrivals
         /\ NewInv' /\ MoveInv'
<1> DEFINE inner == Posted(ws, "interval")
           outer == Posted(Simple[m.obj][m.method], "event")
<1>1. m.obj \in Objects /\ m.method \in Methods
  BY DEF Messages
<1>2. /\ inner \in Seq(Valid)
      /\ \A i \in 1..Len(inner) : inner[i].from = "interval" /\ inner[i].new
  BY PostedType DEF Origins
<1>3. /\ outer \in Seq(Valid)
      /\ \A i \in 1..Len(outer) : outer[i].from = "event" /\ outer[i].new
  BY <1>1, SimpleChosen, PostedType DEF Origins
<1>4. \A o : Count(inner, o) = 0 /\ Count(outer, o) = 0
  BY <1>1, SimpleChosen, PostedNoMove
<1>5. /\ fMsgStack' = Tail(fMsgStack) \o inner
      /\ fDelayStack' = fDelayStack \o outer
      /\ modified' = modified \union {m.obj}
      /\ task' = task /\ arrivals' = arrivals
  BY DEF execute
<1> HIDE DEF inner, outer
<1>6. /\ fMsgStack \in Seq(Valid) /\ fDelayStack \in Seq(Valid)
      /\ Tail(fMsgStack) \in Seq(Valid) /\ Head(fMsgStack) \in Valid
  BY DEF Types
<1>7. fMsgStack' \in Seq(Valid) /\ fDelayStack' \in Seq(Valid)
  BY <1>2, <1>3, <1>5, <1>6
<1>8. modified' \subseteq Objects
  BY <1>1, <1>5 DEF Types, TypeOK
<1>9. announced' \subseteq {"date", "duration"} \X {Interval(w) : w \in Elems(Watches)}
  <2> DEFINE named == {<<kind, Interval(w)>> :
                         w \in {v \in Elems(ws) : v.event \in {"timeEnter", "durEnter"}}}
  <2>1. announced' \subseteq announced \union named
    BY DEF execute, Announce
  <2>2. \A w \in Elems(ws) : w \in Elems(Watches)
    BY DEF Chosen
  <2>3. named \subseteq {"date", "duration"} \X {Interval(w) : w \in Elems(Watches)}
    BY <2>2
  <2> QED
    BY <2>1, <2>3 DEF Types, TypeOK
<1>10. NewInv'
  <2>1. \A i \in 1..Len(fDelayStack') : fDelayStack'[i].new
    <3> SUFFICES ASSUME NEW i \in 1..Len(fDelayStack') PROVE fDelayStack'[i].new
      OBVIOUS
    <3>1. CASE i <= Len(fDelayStack)
      <4>1. i \in 1..Len(fDelayStack) /\ fDelayStack'[i] = fDelayStack[i]
        BY <1>3, <1>5, <1>6, <3>1
      <4> QED
        BY <4>1 DEF NewInv
    <3>2. CASE ~(i <= Len(fDelayStack))
      <4>1. /\ i - Len(fDelayStack) \in 1..Len(outer)
            /\ fDelayStack'[i] = outer[i - Len(fDelayStack)]
        BY <1>3, <1>5, <1>6, <3>2
      <4> QED
        BY <1>3, <4>1
    <3> QED
      BY <3>1, <3>2
  <2>2. \A i \in 1..Len(fMsgStack') : ~(fMsgStack'[i].from = "event" /\ fMsgStack'[i].new)
    <3> SUFFICES ASSUME NEW i \in 1..Len(fMsgStack')
                 PROVE  ~(fMsgStack'[i].from = "event" /\ fMsgStack'[i].new)
      OBVIOUS
    <3> DEFINE n == Len(Tail(fMsgStack))
    <3>1. n = Len(fMsgStack) - 1 /\ Len(fMsgStack) \in Nat
      BY <1>6
    <3>2. CASE i <= n
      <4>1. i + 1 \in 1..Len(fMsgStack) /\ fMsgStack'[i] = fMsgStack[i + 1]
        BY <1>2, <1>5, <1>6, <3>1, <3>2
      <4> QED
        BY <4>1 DEF NewInv
    <3>3. CASE ~(i <= n)
      <4>1. i - n \in 1..Len(inner) /\ fMsgStack'[i] = inner[i - n]
        BY <1>2, <1>5, <1>6, <3>1, <3>3
      <4> QED
        BY <1>2, <4>1
    <3> QED
      BY <3>2, <3>3
  <2> QED
    BY <1>5, <2>1, <2>2 DEF NewInv
<1>11. MoveInv'
  <2> SUFFICES ASSUME NEW o \in Objects
               PROVE  /\ Count(fDelayStack', o) = 0
                      /\ fTempo'[o] # 0 => o \in modified' \/ Count(fMsgStack', o) # 0
    BY <1>5 DEF MoveInv
  <2>1. Count(fDelayStack', o) = Count(fDelayStack, o) + 0
    BY <1>3, <1>4, <1>5, <1>6, CountConcat
  <2>2. Count(fDelayStack, o) = 0
    BY DEF MoveInv
  <2> DEFINE rest == Tail(fMsgStack)
  <2>3. Count(fMsgStack', o) = Count(rest, o) + 0
    <3>1. rest \in Seq(Valid) /\ fMsgStack' = rest \o inner
      BY <1>5, <1>6
    <3> HIDE DEF rest
    <3>2. Count(rest \o inner, o) = Count(rest, o) + Count(inner, o)
      BY <1>2, <3>1, CountConcat
    <3> QED
      BY <1>4, <3>1, <3>2
  <2>4. Count(Tail(fMsgStack), o) \in Nat
    BY <1>6, MovesFinite
  <2>5. CASE o = m.obj
    BY <1>5, <2>1, <2>2, <2>5
  <2>6. CASE o # m.obj
    <3>1. Weight(Head(fMsgStack), o) = 0
      BY <2>6 DEF Weight, IsMove
    <3>2. Count(fMsgStack, o) = 0 + Count(Tail(fMsgStack), o)
      BY <1>6, <3>1, CountHead
    <3>3. fTempo'[o] # 0 => o \in modified \/ Count(fMsgStack, o) # 0
      BY <2>6 DEF MoveInv
    <3> QED
      BY <1>5, <2>1, <2>2, <2>3, <2>4, <3>2, <3>3
  <2> QED
    BY <2>5, <2>6
<1> QED
  BY <1>5, <1>7, <1>8, <1>9, <1>10, <1>11

-----------------------------------------------------------------------------
(* The announced intervals.                                                *)

Leaves == {"timeLeave", "durLeave"}
Enters == {"timeEnter", "durEnter"}

\* What a list of watches announces of an interval.
LEMMA AnnounceOf ==
  ASSUME NEW kind, NEW ws, Announce(kind, ws), NEW k, NEW I
  PROVE  <<k, I>> \in announced' <=>
           \/ <<k, I>> \in announced
              /\ ~(k = kind /\ \E w \in Elems(ws) : w.event \in Leaves /\ Interval(w) = I)
           \/ k = kind /\ \E w \in Elems(ws) : w.event \in Enters /\ Interval(w) = I
<1> DEFINE named(events) == {<<kind, Interval(w)>> : w \in {v \in Elems(ws) : v.event \in events}}
<1>1. announced' = (announced \ named(Leaves)) \union named(Enters)
  BY DEF Announce, Leaves, Enters
<1>2. \A events : <<k, I>> \in named(events) <=>
        k = kind /\ \E w \in Elems(ws) : w.event \in events /\ Interval(w) = I
  OBVIOUS
<1> HIDE DEF named
<1> QED
  BY <1>1, <1>2

LEMMA AnnounceNothing ==
  ASSUME NEW kind, Announce(kind, <<>>), NEW k, NEW I
  PROVE  <<k, I>> \in announced' <=> <<k, I>> \in announced
<1> DEFINE none == <<>>
<1>1. Elems(none) = {} /\ Announce(kind, none)
  BY ElemsEmpty
<1> HIDE DEF none
<1> QED
  BY <1>1, AnnounceOf

\* The watches that a change fires announce of an interval what the new value tells.
LEMMA AnnounceFired ==
  ASSUME NEW kind, NEW leave \in Leaves, NEW enter \in Enters,
         NEW o \in Objects, NEW from \in Dates, NEW to \in Dates,
         Announce(kind, Fired(leave, enter)[o][from][to]),
         NEW I \in Watched(enter) \intersect Watched(leave)
  PROVE  <<kind, I>> \in announced' <=>
           \/ I.obj = o /\ ~include(I, from) /\ include(I, to)
           \/ /\ <<kind, I>> \in announced
              /\ ~(I.obj = o /\ include(I, from) /\ ~include(I, to))
<1> DEFINE picked == {w \in Elems(Watches) :
              /\ w.obj = o
              /\ \/ w.event = leave /\ include(w, from) /\ ~include(w, to)
                 \/ w.event = enter /\ ~include(w, from) /\ include(w, to)}
           ws == Pick(Watches, picked)
<1>1. Fired(leave, enter)[o][from][to] = ws
  BY DEF Fired
<1>2. Elems(ws) = Elems(Watches) \intersect picked
  BY PickChosen
<1>3. Announce(kind, ws)
  BY <1>1
<1> HIDE DEF ws
<1>4. \A w : w \in Elems(ws) <=> w \in Elems(Watches) /\ w \in picked
  BY <1>2
<1>5. leave # enter /\ leave \notin Enters /\ enter \notin Leaves
  BY DEF Leaves, Enters
<1>6. PICK w1 \in Elems(Watches) : w1.event = enter /\ Interval(w1) = I
  BY DEF Watched
<1>7. PICK w2 \in Elems(Watches) : w2.event = leave /\ Interval(w2) = I
  BY DEF Watched
<1>8. \A w : Interval(w) = I =>
        w.obj = I.obj /\ \A t : include(w, t) <=> include(I, t)
  BY DEF Interval, include
<1>9. (\E w \in Elems(ws) : w.event \in Leaves /\ Interval(w) = I)
        <=> I.obj = o /\ include(I, from) /\ ~include(I, to)
  BY <1>4, <1>5, <1>7, <1>8
<1>10. (\E w \in Elems(ws) : w.event \in Enters /\ Interval(w) = I)
        <=> I.obj = o /\ ~include(I, from) /\ include(I, to)
  BY <1>4, <1>5, <1>6, <1>8
<1>11. <<kind, I>> \in announced' <=>
           \/ <<kind, I>> \in announced
              /\ ~\E w \in Elems(ws) : w.event \in Leaves /\ Interval(w) = I
           \/ \E w \in Elems(ws) : w.event \in Enters /\ Interval(w) = I
  BY <1>3, AnnounceOf
<1> QED
  BY <1>9, <1>10, <1>11

\* The properties, one interval at a time.
LEMMA DatesAnnouncedIs ==
  DatesAnnounced <=>
    \A I \in Watched("timeEnter") \intersect Watched("timeLeave") :
      <<"date", I>> \in announced <=> include(I, fDate[I.obj])
BY DEF DatesAnnounced, Announced, DateIntervals

LEMMA DurationsAnnouncedIs ==
  DurationsAnnounced <=>
    \A I \in Watched("durEnter") \intersect Watched("durLeave") :
      I.obj \notin Clocked =>
        (<<"duration", I>> \in announced <=> include(I, fDuration[I.obj]))
BY DEF DurationsAnnounced, Announced, DurationIntervals

\* The dates after a move of one object, the durations after a change of one, and both
\* after a step that announces nothing.
LEMMA DateMoved ==
  ASSUME TypeOK, DatesAnnounced, NEW o \in Objects, NEW to \in Dates,
         fDate' = [fDate EXCEPT ![o] = to],
         Announce("date", handleTimeChange[o][fDate[o]][to])
  PROVE  DatesAnnounced'
<1> SUFFICES ASSUME NEW I \in Watched("timeEnter") \intersect Watched("timeLeave")
             PROVE  <<"date", I>> \in announced' <=> include(I, fDate'[I.obj])
  BY DEF DatesAnnounced, Announced, DateIntervals
<1>1. fDate[o] \in Dates /\ I.obj \in Objects
  <2>1. \A w \in Elems(Watches) : w.obj \in Objects
    BY SendsPossible DEF Watch
  <2> QED
    BY <2>1 DEF TypeOK, Watched, Interval
<1>2. <<"date", I>> \in announced' <=>
        \/ I.obj = o /\ ~include(I, fDate[o]) /\ include(I, to)
        \/ /\ <<"date", I>> \in announced
           /\ ~(I.obj = o /\ include(I, fDate[o]) /\ ~include(I, to))
  BY <1>1, AnnounceFired DEF handleTimeChange, Leaves, Enters
<1>3. <<"date", I>> \in announced <=> include(I, fDate[I.obj])
  BY DatesAnnouncedIs
<1>4. fDate'[I.obj] = IF I.obj = o THEN to ELSE fDate[I.obj]
  BY <1>1 DEF TypeOK
<1>5. CASE I.obj = o
  BY <1>2, <1>3, <1>4, <1>5
<1>6. CASE I.obj # o
  BY <1>2, <1>3, <1>4, <1>6
<1> QED
  BY <1>5, <1>6

LEMMA DurationSet ==
  ASSUME TypeOK, DurationsAnnounced, NEW o \in Objects, NEW to \in Dates,
         fDuration' = [fDuration EXCEPT ![o] = to],
         Announce("duration", handleDurChange[o][fDuration[o]][to])
  PROVE  DurationsAnnounced'
<1> SUFFICES ASSUME NEW I \in Watched("durEnter") \intersect Watched("durLeave"),
                    I.obj \notin Clocked
             PROVE  <<"duration", I>> \in announced' <=> include(I, fDuration'[I.obj])
  BY DEF DurationsAnnounced, Announced, DurationIntervals
<1>1. fDuration[o] \in Dates /\ I.obj \in Objects
  <2>1. \A w \in Elems(Watches) : w.obj \in Objects
    BY SendsPossible DEF Watch
  <2> QED
    BY <2>1 DEF TypeOK, Watched, Interval
<1>2. <<"duration", I>> \in announced' <=>
        \/ I.obj = o /\ ~include(I, fDuration[o]) /\ include(I, to)
        \/ /\ <<"duration", I>> \in announced
           /\ ~(I.obj = o /\ include(I, fDuration[o]) /\ ~include(I, to))
  BY <1>1, AnnounceFired DEF handleDurChange, Leaves, Enters
<1>3. <<"duration", I>> \in announced <=> include(I, fDuration[I.obj])
  BY DurationsAnnouncedIs
<1>4. fDuration'[I.obj] = IF I.obj = o THEN to ELSE fDuration[I.obj]
  BY <1>1 DEF TypeOK
<1>5. CASE I.obj = o
  BY <1>2, <1>3, <1>4, <1>5
<1>6. CASE I.obj # o
  BY <1>2, <1>3, <1>4, <1>6
<1> QED
  BY <1>5, <1>6

\* The dates do not care about the announcements of durations, and conversely.
LEMMA OtherKind ==
  ASSUME NEW kind, NEW ws, Announce(kind, ws), NEW k, k # kind, NEW I
  PROVE  <<k, I>> \in announced' <=> <<k, I>> \in announced
BY AnnounceOf

LEMMA DatesKept ==
  ASSUME DatesAnnounced, UNCHANGED fDate,
         \A I : <<"date", I>> \in announced' <=> <<"date", I>> \in announced
  PROVE  DatesAnnounced'
<1> SUFFICES ASSUME NEW I \in Watched("timeEnter") \intersect Watched("timeLeave")
             PROVE  <<"date", I>> \in announced' <=> include(I, fDate'[I.obj])
  BY DEF DatesAnnounced, Announced, DateIntervals
<1> QED
  BY DatesAnnouncedIs

LEMMA DurationsKept ==
  ASSUME DurationsAnnounced,
         \A o \in Objects : o \notin Clocked => fDuration'[o] = fDuration[o],
         \A I : <<"duration", I>> \in announced' <=> <<"duration", I>> \in announced
  PROVE  DurationsAnnounced'
<1> SUFFICES ASSUME NEW I \in Watched("durEnter") \intersect Watched("durLeave"),
                    I.obj \notin Clocked
             PROVE  <<"duration", I>> \in announced' <=> include(I, fDuration'[I.obj])
  BY DEF DurationsAnnounced, Announced, DurationIntervals
<1>1. I.obj \in Objects
  <2>1. \A w \in Elems(Watches) : w.obj \in Objects
    BY SendsPossible DEF Watch
  <2> QED
    BY <2>1 DEF Watched, Interval
<1>2. <<"duration", I>> \in announced <=> include(I, fDuration[I.obj])
  BY DurationsAnnouncedIs
<1> QED
  BY <1>1, <1>2

-----------------------------------------------------------------------------
(* The steps.                                                              *)

\* What the message at the head of the stack is.
LEMMA Taken ==
  ASSUME IInv, NEW m \in Messages, NEW method \in Methods, Take(m, method)
  PROVE  /\ Types /\ TypeOK /\ NewInv /\ MoveInv /\ DatesAnnounced /\ DurationsAnnounced
         /\ task = "update" /\ fMsgStack # <<>> /\ m = Head(fMsgStack).msg
         /\ m.obj \in Objects /\ m.value \in Dates /\ m.method = method
         /\ m \in Possible
<1>1. Head(fMsgStack) \in Valid
  BY DEF Take, IInv, Types
<1> QED
  BY <1>1 DEF Take, IInv, Types, Valid, Messages

LEMMA ValidEntries == Seq(Valid) \subseteq Seq(Entries)
<1>1. Valid \subseteq Entries
  BY DEF Valid, Entries, Possible
<1> QED
  BY <1>1

LEMMA CutType == ASSUME NEW a \in Dates, NEW b \in Dates PROVE Cut(a + b) \in Dates
BY BoundAssumption DEF Cut, Dates

LEMMA NoneChosen == Chosen(<<>>)
<1>1. <<>> \in Seq(Watch)
  OBVIOUS
<1> QED
  BY <1>1, ElemsEmpty DEF Chosen

LEMMA FiredChosen ==
  ASSUME NEW o \in Objects, NEW from \in Dates, NEW to \in Dates
  PROVE  Chosen(handleTimeChange[o][from][to]) /\ Chosen(handleDurChange[o][from][to])
<1>1. \A leave, enter : Chosen(Fired(leave, enter)[o][from][to])
  BY PickChosen DEF Fired
<1> QED
  BY <1>1 DEF handleTimeChange, handleDurChange

LEMMA MoveToStep ==
  ASSUME IInv, NEW m \in Messages, NEW method \in Methods, Take(m, method),
         NEW date \in Dates, moveTo(m, date)
  PROVE  IInv'
<1>1. /\ Types /\ TypeOK /\ NewInv /\ MoveInv /\ DatesAnnounced /\ DurationsAnnounced
      /\ task = "update" /\ fMsgStack # <<>> /\ m = Head(fMsgStack).msg
      /\ m.obj \in Objects
  BY Taken
<1> DEFINE ws == handleTimeChange[m.obj][fDate[m.obj]][date]
<1>2. /\ fDate' = [fDate EXCEPT ![m.obj] = date]
      /\ execute(m, "date", ws)
      /\ fDuration' = fDuration /\ fTempo' = fTempo
  BY DEF moveTo
<1>3. fDate[m.obj] \in Dates
  BY <1>1 DEF TypeOK
<1>4. Chosen(ws)
  BY <1>1, <1>3, FiredChosen
<1>5. Announce("date", ws)
  BY <1>2 DEF execute
<1>6. DatesAnnounced'
  BY <1>1, <1>2, <1>5, DateMoved
<1> HIDE DEF ws
<1>7. /\ fMsgStack' \in Seq(Valid) /\ fDelayStack' \in Seq(Valid)
      /\ modified' \subseteq Objects
      /\ announced' \subseteq {"date", "duration"} \X {Interval(w) : w \in Elems(Watches)}
      /\ task' = task /\ arrivals' = arrivals /\ NewInv' /\ MoveInv'
  BY <1>1, <1>2, <1>4, ExecuteStep
<1>8. DurationsAnnounced'
  BY <1>1, <1>2, <1>5, OtherKind, DurationsKept
<1>9. fDate' \in [Objects -> Dates]
  BY <1>1, <1>2 DEF TypeOK
<1> QED
  BY <1>1, <1>2, <1>6, <1>7, <1>8, <1>9, ValidEntries DEF IInv, Types, TypeOK

LEMMA SetTempoStep ==
  ASSUME IInv, NEW m \in Messages, SetTempo(m)
  PROVE  IInv'
<1>1. /\ Types /\ TypeOK /\ NewInv /\ MoveInv /\ DatesAnnounced /\ DurationsAnnounced
      /\ task = "update" /\ fMsgStack # <<>> /\ m = Head(fMsgStack).msg
      /\ m.obj \in Objects /\ m.value \in Dates
  BY Taken DEF SetTempo, Methods
<1>2. /\ fTempo' = [fTempo EXCEPT ![m.obj] = m.value]
      /\ execute(m, "date", <<>>)
      /\ fDuration' = fDuration /\ fDate' = fDate
  BY DEF SetTempo
<1>3. Announce("date", <<>>)
  BY <1>2 DEF execute
<1>4. \A k, I : <<k, I>> \in announced' <=> <<k, I>> \in announced
  BY <1>3, AnnounceNothing
<1>5. fTempo' \in [Objects -> Dates] /\ \A o \in Objects : o # m.obj => fTempo'[o] = fTempo[o]
  BY <1>1, <1>2 DEF TypeOK
<1>6. /\ fMsgStack' \in Seq(Valid) /\ fDelayStack' \in Seq(Valid)
      /\ modified' \subseteq Objects
      /\ announced' \subseteq {"date", "duration"} \X {Interval(w) : w \in Elems(Watches)}
      /\ task' = task /\ arrivals' = arrivals /\ NewInv' /\ MoveInv'
  <2> DEFINE none == <<>>
  <2>1. Chosen(none) /\ execute(m, "date", none)
    BY <1>2, NoneChosen
  <2> HIDE DEF none
  <2> QED
    BY <1>1, <1>5, <2>1, ExecuteStep
<1>7. DatesAnnounced' /\ DurationsAnnounced'
  BY <1>1, <1>2, <1>4, DatesKept, DurationsKept
<1> QED
  BY <1>1, <1>2, <1>5, <1>6, <1>7, ValidEntries DEF IInv, Types, TypeOK

LEMMA SetDurationStep ==
  ASSUME IInv, NEW m \in Messages, SetDuration(m)
  PROVE  IInv'
<1>1. /\ Types /\ TypeOK /\ NewInv /\ MoveInv /\ DatesAnnounced /\ DurationsAnnounced
      /\ task = "update" /\ fMsgStack # <<>> /\ m = Head(fMsgStack).msg
      /\ m.obj \in Objects /\ m.value \in Dates
  BY Taken DEF SetDuration, Methods
<1> DEFINE ws == handleDurChange[m.obj][fDuration[m.obj]][m.value]
<1>2. /\ fDuration' = [fDuration EXCEPT ![m.obj] = m.value]
      /\ execute(m, "duration", ws)
      /\ fDate' = fDate /\ fTempo' = fTempo
  BY DEF SetDuration
<1>3. fDuration[m.obj] \in Dates
  BY <1>1 DEF TypeOK
<1>4. Chosen(ws)
  BY <1>1, <1>3, FiredChosen
<1>5. Announce("duration", ws)
  BY <1>2 DEF execute
<1>6. DurationsAnnounced'
  BY <1>1, <1>2, <1>5, DurationSet
<1> HIDE DEF ws
<1>7. /\ fMsgStack' \in Seq(Valid) /\ fDelayStack' \in Seq(Valid)
      /\ modified' \subseteq Objects
      /\ announced' \subseteq {"date", "duration"} \X {Interval(w) : w \in Elems(Watches)}
      /\ task' = task /\ arrivals' = arrivals /\ NewInv' /\ MoveInv'
  BY <1>1, <1>2, <1>4, ExecuteStep
<1>8. DatesAnnounced'
  BY <1>1, <1>2, <1>5, OtherKind, DatesKept
<1>9. fDuration' \in [Objects -> Dates]
  BY <1>1, <1>2 DEF TypeOK
<1> QED
  BY <1>1, <1>2, <1>6, <1>7, <1>8, <1>9, ValidEntries DEF IInv, Types, TypeOK

LEMMA AddDurationStep ==
  ASSUME IInv, NEW m \in Messages, AddDuration(m)
  PROVE  IInv'
<1>1. /\ Types /\ TypeOK /\ NewInv /\ MoveInv /\ DatesAnnounced /\ DurationsAnnounced
      /\ task = "update" /\ fMsgStack # <<>> /\ m = Head(fMsgStack).msg
      /\ m.obj \in Objects /\ m.value \in Dates /\ m.obj \in Clocked
  BY Taken DEF AddDuration, Methods, Possible
<1>2. /\ fDuration' = [fDuration EXCEPT ![m.obj] = Cut(fDuration[m.obj] + m.value)]
      /\ execute(m, "duration", <<>>)
      /\ fDate' = fDate /\ fTempo' = fTempo
  BY <1>1 DEF AddDuration, TypeOK
<1>3. Announce("duration", <<>>)
  BY <1>2 DEF execute
<1>4. \A k, I : <<k, I>> \in announced' <=> <<k, I>> \in announced
  BY <1>3, AnnounceNothing
<1>5. fDuration' \in [Objects -> Dates] /\ \A o \in Objects : o # m.obj => fDuration'[o] = fDuration[o]
  <2>1. Cut(fDuration[m.obj] + m.value) \in Dates
    BY <1>1, CutType DEF TypeOK
  <2> QED
    BY <1>1, <1>2, <2>1 DEF TypeOK
<1>6. /\ fMsgStack' \in Seq(Valid) /\ fDelayStack' \in Seq(Valid)
      /\ modified' \subseteq Objects
      /\ announced' \subseteq {"date", "duration"} \X {Interval(w) : w \in Elems(Watches)}
      /\ task' = task /\ arrivals' = arrivals /\ NewInv' /\ MoveInv'
  <2> DEFINE none == <<>>
  <2>1. Chosen(none) /\ execute(m, "duration", none)
    BY <1>2, NoneChosen
  <2> HIDE DEF none
  <2> QED
    BY <1>1, <1>2, <2>1, ExecuteStep
<1>7. DatesAnnounced'
  BY <1>1, <1>2, <1>4, DatesKept
<1>8. DurationsAnnounced'
  <2>1. \A o \in Objects : o \notin Clocked => fDuration'[o] = fDuration[o]
    BY <1>1, <1>5
  <2> QED
    BY <1>1, <1>4, <2>1, DurationsKept
<1> QED
  BY <1>1, <1>2, <1>5, <1>6, <1>7, <1>8, ValidEntries DEF IInv, Types, TypeOK

\* A message is received: it is no move.
LEMMA ReceiveStep == ASSUME IInv, Receive PROVE IInv'
<1>1. /\ Types /\ TypeOK /\ NewInv /\ MoveInv /\ DatesAnnounced /\ DurationsAnnounced
  BY DEF IInv, Types
<1>2. PICK m \in Inputs : fMsgStack' = Append(fMsgStack, Entry(m, "osc"))
  BY DEF Receive
<1> DEFINE e == Entry(m, "osc")
<1>3. e \in Valid /\ e.new /\ e.from = "osc"
  BY SendablePossible DEF Valid, Entry, Origins
<1> HIDE DEF e
<1>4. fMsgStack \in Seq(Valid) /\ fMsgStack' = Append(fMsgStack, e)
  BY <1>1, <1>2 DEF Types, e
<1>5. /\ fMsgStack' \in Seq(Valid) /\ Len(fMsgStack') = Len(fMsgStack) + 1
      /\ fMsgStack'[Len(fMsgStack) + 1] = e
      /\ \A i \in 1..Len(fMsgStack) : fMsgStack'[i] = fMsgStack[i]
      /\ Len(fMsgStack) \in Nat
  BY <1>3, <1>4
<1>6. /\ UNCHANGED <<fDate, fDuration, fTempo, fDelayStack, modified, task, announced>>
      /\ arrivals' \in 0..MaxArrivals
  BY <1>1, BoundAssumption DEF Receive, objects, TypeOK
<1>7. Types'
  BY <1>1, <1>5, <1>6, ValidEntries DEF Types, TypeOK
<1>8. NewInv'
  <2>1. \A i \in 1..Len(fMsgStack') : i \in 1..Len(fMsgStack) \/ fMsgStack'[i] = e
    BY <1>5
  <2> QED
    BY <1>1, <1>3, <1>5, <1>6, <2>1 DEF NewInv
<1>9. MoveInv'
  <2>1. ASSUME NEW o \in Objects PROVE Count(fMsgStack', o) = Count(fMsgStack, o)
    <3>1. Count(Append(fMsgStack, e), o) = Count(fMsgStack, o) + Weight(e, o)
      BY <1>3, <1>4, CountAppend
    <3>2. Count(fMsgStack, o) \in Nat /\ Weight(e, o) = 0
      BY <1>3, <1>4, MovesFinite DEF Weight, IsMove
    <3> QED
      BY <1>4, <3>1, <3>2
  <2> QED
    BY <1>1, <1>6, <2>1 DEF MoveInv
<1>10. DatesAnnounced' /\ DurationsAnnounced'
  BY <1>1, <1>6, DatesKept, DurationsKept
<1> QED
  BY <1>7, <1>8, <1>9, <1>10 DEF IInv

LEMMA TickStep == ASSUME IInv, Tick PROVE IInv'
<1>1. /\ Types /\ TypeOK /\ NewInv /\ MoveInv /\ DatesAnnounced /\ DurationsAnnounced
  BY DEF IInv, Types
<1>2. /\ task = "idle" /\ task' = IF fMsgStack = <<>> THEN "frame" ELSE "update"
      /\ fMsgStack' = [i \in 1..Len(fMsgStack) |-> [fMsgStack[i] EXCEPT !.new = FALSE]]
      /\ UNCHANGED <<fDate, fDuration, fTempo, fDelayStack, modified, arrivals, announced>>
  BY DEF Tick, Stage, objects
<1>3. fMsgStack \in Seq(Valid) /\ Len(fMsgStack) \in Nat
  BY <1>1 DEF Types
<1> DEFINE Old(e) == [e EXCEPT !.new = FALSE]
<1>4. \A e \in Valid : Old(e) \in Valid /\ ~Old(e).new /\ Old(e).from = e.from /\ Old(e).msg = e.msg
  BY DEF Valid
<1>5. /\ fMsgStack' \in Seq(Valid) /\ Len(fMsgStack') = Len(fMsgStack)
      /\ \A i \in 1..Len(fMsgStack) :
           /\ ~fMsgStack'[i].new /\ fMsgStack'[i].from = fMsgStack[i].from
           /\ fMsgStack'[i].msg = fMsgStack[i].msg
  <2>1. fMsgStack' = [i \in 1..Len(fMsgStack) |-> Old(fMsgStack[i])]
    BY <1>2
  <2>2. \A i \in 1..Len(fMsgStack) : fMsgStack[i] \in Valid
    BY <1>3
  <2> HIDE DEF Old
  <2>3. \A i \in 1..Len(fMsgStack) : Old(fMsgStack[i]) \in Valid
    BY <1>4, <2>2
  <2>4. fMsgStack' \in Seq(Valid) /\ Len(fMsgStack') = Len(fMsgStack)
    BY <1>3, <2>1, <2>3
  <2>5. \A i \in 1..Len(fMsgStack) : fMsgStack'[i] = Old(fMsgStack[i])
    BY <2>1
  <2> QED
    BY <1>4, <2>2, <2>4, <2>5
<1>6. Types'
  BY <1>1, <1>2, <1>5, ValidEntries DEF Types, TypeOK
<1>7. NewInv'
  <2>1. fMsgStack = <<>> => Len(fMsgStack') = 0
    BY <1>5
  <2> QED
    BY <1>1, <1>2, <1>5, <2>1 DEF NewInv
<1>8. MoveInv'
  <2> SUFFICES ASSUME NEW o \in Objects
               PROVE  /\ Count(fDelayStack', o) = 0
                      /\ task' = "frame" =>
                           Count(fMsgStack', o) = 0 /\ (fTempo'[o] # 0 => o \in modified')
                      /\ task' = "update" /\ fTempo'[o] # 0 => Count(fMsgStack', o) # 0
    BY <1>2 DEF MoveInv
  <2>1. fDelayStack' = <<>> /\ Count(fMsgStack, o) = IF fTempo[o] # 0 THEN 1 ELSE 0
    BY <1>1, <1>2 DEF MoveInv
  <2>2. Count(fMsgStack', o) = Count(fMsgStack, o)
    BY <1>5, CountSame
  <2>3. fMsgStack = <<>> => Count(fMsgStack, o) = 0
    BY CountEmpty
  <2>4. Count(fDelayStack', o) = 0
    BY <2>1, CountEmpty
  <2> QED
    BY <1>2, <2>1, <2>2, <2>3, <2>4
<1>9. DatesAnnounced' /\ DurationsAnnounced'
  BY <1>1, <1>2, DatesKept, DurationsKept
<1> QED
  BY <1>6, <1>7, <1>8, <1>9 DEF IInv

LEMMA EndUpdateStep == ASSUME IInv, EndUpdate PROVE IInv'
<1>1. /\ Types /\ TypeOK /\ NewInv /\ MoveInv /\ DatesAnnounced /\ DurationsAnnounced
  BY DEF IInv, Types
<1>2. /\ task = "update" /\ task' = "frame" /\ fMsgStack = <<>>
      /\ UNCHANGED <<fDate, fDuration, fTempo, fMsgStack, fDelayStack, modified, arrivals,
                     announced>>
  BY DEF EndUpdate, Stage, objects
<1>3. Types'
  BY <1>1, <1>2 DEF Types, TypeOK
<1>4. NewInv'
  BY <1>1, <1>2 DEF NewInv
<1>5. MoveInv'
  BY <1>1, <1>2, CountEmpty DEF MoveInv
<1>6. DatesAnnounced' /\ DurationsAnnounced'
  BY <1>1, <1>2, DatesKept, DurationsKept
<1> QED
  BY <1>3, <1>4, <1>5, <1>6 DEF IInv

\* The cleanup visits every modified object, hence every object that has a tempo: each
\* posts its next move.
LEMMA CleanupStep == ASSUME IInv, cleanup PROVE IInv'
<1>1. /\ Types /\ TypeOK /\ NewInv /\ MoveInv /\ DatesAnnounced /\ DurationsAnnounced
  BY DEF IInv, Types
<1>2. PICK amount \in Amounts : fDelayStack' = fDelayStack \o move(amount)
  BY DEF cleanup
<1>3. /\ task = "frame" /\ task' = "transfer" /\ modified' = {}
      /\ UNCHANGED <<fDate, fDuration, fTempo, fMsgStack, arrivals, announced>>
  BY DEF cleanup, Stage, objects
<1> DEFINE moves == move(amount)
<1>4. /\ moves \in Seq(Valid)
      /\ \A i \in 1..Len(moves) : moves[i].new
      /\ \A o \in Objects : Count(moves, o) = IF o \in Moving THEN 1 ELSE 0
  BY <1>1, MoveType
<1>5. fDelayStack \in Seq(Valid) /\ fDelayStack' = fDelayStack \o moves
  BY <1>1, <1>2 DEF Types
<1> HIDE DEF moves
<1>6. Types'
  <2>1. fDelayStack' \in Seq(Valid)
    BY <1>4, <1>5
  <2> QED
    BY <1>1, <1>3, <2>1, ValidEntries DEF Types, TypeOK
<1>7. NewInv'
  <2>1. ASSUME NEW i \in 1..Len(fDelayStack') PROVE fDelayStack'[i].new
    <3>1. CASE i <= Len(fDelayStack)
      <4>1. i \in 1..Len(fDelayStack) /\ fDelayStack'[i] = fDelayStack[i]
        BY <1>4, <1>5, <3>1
      <4> QED
        BY <1>1, <4>1 DEF NewInv
    <3>2. CASE ~(i <= Len(fDelayStack))
      <4>1. /\ i - Len(fDelayStack) \in 1..Len(moves)
            /\ fDelayStack'[i] = moves[i - Len(fDelayStack)]
        BY <1>4, <1>5, <3>2
      <4> QED
        BY <1>4, <4>1
    <3> QED
      BY <3>1, <3>2
  <2> QED
    BY <1>1, <1>3, <2>1 DEF NewInv
<1>8. MoveInv'
  <2> SUFFICES ASSUME NEW o \in Objects
               PROVE  Count(fMsgStack', o) + Count(fDelayStack', o)
                        = IF fTempo'[o] # 0 THEN 1 ELSE 0
    BY <1>3 DEF MoveInv
  <2>1. Count(fDelayStack \o moves, o) = Count(fDelayStack, o) + Count(moves, o)
    BY <1>4, <1>5, CountConcat
  <2>2. Count(fDelayStack, o) = 0 /\ Count(fMsgStack, o) = 0 /\ (fTempo[o] # 0 => o \in modified)
    BY <1>1, <1>3 DEF MoveInv
  <2>3. o \in Moving <=> fTempo[o] # 0
    BY <2>2 DEF Moving, Visited
  <2> QED
    BY <1>3, <1>4, <1>5, <2>1, <2>2, <2>3
<1>9. DatesAnnounced' /\ DurationsAnnounced'
  BY <1>1, <1>3, DatesKept, DurationsKept
<1> QED
  BY <1>6, <1>7, <1>8, <1>9 DEF IInv

LEMMA TransferStep == ASSUME IInv, Transfer PROVE IInv'
<1>1. /\ Types /\ TypeOK /\ NewInv /\ MoveInv /\ DatesAnnounced /\ DurationsAnnounced
  BY DEF IInv, Types
<1> DEFINE e == Head(fDelayStack)
           rest == Tail(fDelayStack)
<1>2. /\ task = "transfer" /\ fDelayStack # <<>>
      /\ fMsgStack' = Append(fMsgStack, e) /\ fDelayStack' = rest
      /\ UNCHANGED <<fDate, fDuration, fTempo, modified, task, arrivals, announced>>
  BY DEF Transfer, objects
<1>3. fMsgStack \in Seq(Valid) /\ fDelayStack \in Seq(Valid)
  BY <1>1 DEF Types
<1>4. /\ e \in Valid /\ e = fDelayStack[1] /\ 1 \in 1..Len(fDelayStack)
      /\ rest \in Seq(Valid)
      /\ \A i \in 1..Len(rest) : rest[i] = fDelayStack[i + 1] /\ i + 1 \in 1..Len(fDelayStack)
  BY <1>2, <1>3
<1>5. \A o : Count(fDelayStack, o) = Weight(e, o) + Count(rest, o)
  <2> SUFFICES ASSUME NEW o
               PROVE  Count(fDelayStack, o) = Weight(Head(fDelayStack), o) + Count(Tail(fDelayStack), o)
    OBVIOUS
  <2> HIDE DEF e, rest
  <2> QED
    BY <1>2, <1>3, CountHead
<1> HIDE DEF e, rest
<1>6. /\ fMsgStack' \in Seq(Valid) /\ Len(fMsgStack') = Len(fMsgStack) + 1
      /\ fMsgStack'[Len(fMsgStack) + 1] = e
      /\ \A i \in 1..Len(fMsgStack) : fMsgStack'[i] = fMsgStack[i]
      /\ Len(fMsgStack) \in Nat
  BY <1>2, <1>3, <1>4
<1>7. Types'
  BY <1>1, <1>2, <1>4, <1>6, ValidEntries DEF Types, TypeOK
<1>8. NewInv'
  <2>1. e.new
    BY <1>1, <1>4 DEF NewInv
  <2>2. \A i \in 1..Len(fMsgStack') : i \in 1..Len(fMsgStack) \/ fMsgStack'[i] = e
    BY <1>6
  <2> QED
    BY <1>1, <1>2, <1>4, <1>6, <2>1, <2>2 DEF NewInv
<1>9. MoveInv'
  <2> SUFFICES ASSUME NEW o \in Objects
               PROVE  Count(fMsgStack', o) + Count(fDelayStack', o)
                        = IF fTempo'[o] # 0 THEN 1 ELSE 0
    BY <1>2 DEF MoveInv
  <2>1. Count(Append(fMsgStack, e), o) = Count(fMsgStack, o) + Weight(e, o)
    BY <1>3, <1>4, CountAppend
  <2>2. Count(fMsgStack, o) \in Nat /\ Count(rest, o) \in Nat /\ Weight(e, o) \in Nat
    BY <1>3, <1>4, MovesFinite DEF Weight
  <2>3. Count(fMsgStack, o) + Count(fDelayStack, o) = IF fTempo[o] # 0 THEN 1 ELSE 0
    BY <1>1, <1>2 DEF MoveInv
  <2>4. Count(fMsgStack', o) = Count(fMsgStack, o) + Weight(e, o)
    BY <1>2, <2>1, Zenon
  <2> QED
    BY <1>2, <1>5, <2>2, <2>3, <2>4
<1>10. DatesAnnounced' /\ DurationsAnnounced'
  BY <1>1, <1>2, DatesKept, DurationsKept
<1> QED
  BY <1>7, <1>8, <1>9, <1>10 DEF IInv

LEMMA EndTickStep == ASSUME IInv, EndTick PROVE IInv'
<1>1. /\ Types /\ TypeOK /\ NewInv /\ MoveInv /\ DatesAnnounced /\ DurationsAnnounced
  BY DEF IInv, Types
<1>2. /\ task = "transfer" /\ task' = "idle" /\ fDelayStack = <<>>
      /\ UNCHANGED <<fDate, fDuration, fTempo, fMsgStack, fDelayStack, modified, arrivals,
                     announced>>
  BY DEF EndTick, Stage, objects
<1>3. Types'
  BY <1>1, <1>2 DEF Types, TypeOK
<1>4. NewInv'
  BY <1>1, <1>2 DEF NewInv
<1>5. MoveInv'
  <2>1. \A o : Count(fMsgStack, o) \in Nat
    BY <1>1, MovesFinite DEF Types
  <2>2. \A o \in Objects : Count(fMsgStack, o) + 0 = IF fTempo[o] # 0 THEN 1 ELSE 0
    BY <1>1, <1>2, CountEmpty DEF MoveInv
  <2>3. \A o \in Objects : Count(fMsgStack, o) = IF fTempo[o] # 0 THEN 1 ELSE 0
    BY <2>1, <2>2
  <2> QED
    BY <1>2, <2>3 DEF MoveInv
<1>6. DatesAnnounced' /\ DurationsAnnounced'
  BY <1>1, <1>2, DatesKept, DurationsKept
<1> QED
  BY <1>3, <1>4, <1>5, <1>6 DEF IInv

LEMMA ProcessStep == ASSUME IInv, ProcessMsg PROVE IInv'
<1>1. PICK m \in Messages :
        SetDate(m) \/ AddDate(m) \/ SetTempo(m) \/ SetDuration(m) \/ AddDuration(m)
  BY DEF ProcessMsg
<1>2. CASE SetDate(m)
  <2>1. m.value \in Dates
    BY DEF Messages
  <2> QED
    BY <1>2, <2>1, MoveToStep DEF SetDate, Methods
<1>3. CASE AddDate(m)
  <2>1. m.value \in Dates /\ fDate[m.obj] \in Dates
    BY DEF Messages, IInv, Types, TypeOK
  <2>2. Cut(fDate[m.obj] + m.value) \in Dates
    BY <2>1, CutType
  <2> QED
    BY <1>3, <2>2, MoveToStep DEF AddDate, Methods
<1>4. CASE SetTempo(m)
  BY <1>4, SetTempoStep
<1>5. CASE SetDuration(m)
  BY <1>5, SetDurationStep
<1>6. CASE AddDuration(m)
  BY <1>6, AddDurationStep
<1> QED
  BY <1>1, <1>2, <1>3, <1>4, <1>5, <1>6

LEMMA StutterStep == ASSUME IInv, UNCHANGED vars PROVE IInv'
<1>1. DatesAnnounced' /\ DurationsAnnounced'
  BY DatesKept, DurationsKept DEF IInv, vars
<1>2. Types' /\ NewInv' /\ MoveInv'
  BY DEF IInv, vars, Types, TypeOK, NewInv, MoveInv
<1> QED
  BY <1>1, <1>2 DEF IInv

LEMMA NextIInv == IInv /\ [Next]_vars => IInv'
<1> SUFFICES ASSUME IInv, [Next]_vars PROVE IInv'
  OBVIOUS
<1> QED
  BY ProcessStep, ReceiveStep, TickStep, EndUpdateStep, CleanupStep, TransferStep,
     EndTickStep, StutterStep DEF Next, timerEvent

LEMMA Invariance == Spec => []IInv
BY InitIInv, NextIInv, PTL DEF Spec

-----------------------------------------------------------------------------
(* The theorems.                                                           *)

\* The dates and the durations stay in their range, whatever is posted, and only the
\* watched intervals are announced.
THEOREM TypeCorrect == Spec => []TypeOK
<1>1. IInv => TypeOK
  BY DEF IInv, Types
<1> QED
  BY <1>1, Invariance, PTL

\* An object that has a tempo posts its next move once a tick, and an object that has
\* none posts no move (IDate::cleanup), for any events and any scenes.
THEOREM TempoNeitherStopsNorDoubles == Spec => []OneMove
<1>1. IInv => OneMove
  BY DEF IInv, MoveInv, OneMove
<1> QED
  BY <1>1, Invariance, PTL

\* The enter and leave events of a watched interval follow the date of its object,
\* however it is moved (TimeEventAble::handleTimeChange).
THEOREM DatesFollowed == Spec => []DatesAnnounced
<1>1. IInv => DatesAnnounced
  BY DEF IInv
<1> QED
  BY <1>1, Invariance, PTL

\* The same of the duration of an object that no durClock can reach.
THEOREM DurationsFollowed == Spec => []DurationsAnnounced
<1>1. IInv => DurationsAnnounced
  BY DEF IInv
<1> QED
  BY <1>1, Invariance, PTL

\* The events of the attributes are processed by another tick than the one that posted
\* them (IObject::checkEvent).
THEOREM OneTickDelay == Spec => EventsDelayed
<1> DEFINE Step == \A m \in Messages :
             SetDate(m) \/ AddDate(m) \/ SetTempo(m) \/ SetDuration(m) \/ AddDuration(m)
               => ~(Head(fMsgStack).from = "event" /\ Head(fMsgStack).new)
<1>1. IInv => Step
  <2> SUFFICES ASSUME IInv, task = "update", fMsgStack # <<>>
               PROVE  ~(Head(fMsgStack).from = "event" /\ Head(fMsgStack).new)
    BY DEF SetDate, AddDate, SetTempo, SetDuration, AddDuration, Take
  <2>1. fMsgStack \in Seq(Valid)
    BY DEF IInv, Types
  <2>2. Head(fMsgStack) = fMsgStack[1] /\ 1 \in 1..Len(fMsgStack)
    BY <2>1
  <2> QED
    BY <2>2 DEF IInv, NewInv
<1>2. IInv => [Step]_vars
  BY <1>1
<1>3. [][Step]_vars <=> EventsDelayed
  BY PTL DEF EventsDelayed
<1> QED
  BY <1>2, <1>3, Invariance, PTL

\* A tick processes all that was posted before it began, and delays nothing twice.
THEOREM TickLeavesNothing == Spec => NothingLeft
<1> DEFINE Step == Stage("transfer", "idle")
             => fDelayStack' = <<>> /\ \A i \in 1..Len(fMsgStack') : fMsgStack'[i].new
<1>1. IInv /\ [Next]_vars => [Step]_vars
  <2> SUFFICES ASSUME IInv, Next, Stage("transfer", "idle")
               PROVE  fDelayStack' = <<>> /\ \A i \in 1..Len(fMsgStack') : fMsgStack'[i].new
    OBVIOUS
  <2>1. EndTick
    <3>1. \A kind, ws, m : task' # task => ~execute(m, kind, ws)
      BY DEF execute
    <3>2. ~ProcessMsg
      BY <3>1 DEF ProcessMsg, Stage, SetDate, AddDate, SetTempo, SetDuration, AddDuration, Take
    <3> QED
      BY <3>2 DEF Next, timerEvent, Stage, Tick, EndUpdate, cleanup, Transfer, Receive
  <2> QED
    BY <2>1 DEF EndTick, Stage, IInv, NewInv
<1>2. [][Step]_vars <=> NothingLeft
  BY PTL DEF NothingLeft
<1> QED
  BY <1>1, <1>2, Invariance, PTL DEF Spec
=============================================================================
