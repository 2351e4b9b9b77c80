---------------------------- MODULE RedrawProofs ----------------------------
(***************************************************************************)
(* Proofs about Redraw, for every set of objects, order of their addresses *)
(* and sessions: it implements SyncGraph, and no child is left stale.      *)
(***************************************************************************)
EXTENDS Redraw, SyncGraphProofs

\* ISync::ptask keeps the marks it is given, and marks every slave of an object that is
\* marked when it starts, whatever the order of the addresses.
LEMMA PtaskMarks ==
  ASSUME NEW S \in SUBSET Obj
  PROVE  /\ S \subseteq ptask(S) /\ ptask(S) \subseteq Obj
         /\ \A m \in S : getSlaves(m) \subseteq ptask(S)
<1> DEFINE n == Len(Addresses)
           Grown(s, i) == s \union (IF Addresses[i] \in s THEN getSlaves(Addresses[i]) ELSE {})
           Step(f, i) == IF i = 0 THEN S ELSE Grown(f[i - 1], i)
           step == [i \in 1..n |-> [s \in SUBSET Obj |-> Grown(s, i)]]
           marked == CHOOSE f : f = [i \in 0..n |-> Step(f, i)]
<1>1. n \in Nat /\ \A i \in 1..n : Addresses[i] \in Obj
  BY AddressAssumption
<1>2. ptask(S) = marked[n]
  BY DEF ptask
<1>3. \A m : getSlaves(m) \subseteq Obj
  BY DEF getSlaves
<1>4. \A i \in 1..n, s \in SUBSET Obj : step[i][s] = Grown(s, i) /\ step[i][s] \in SUBSET Obj
  BY <1>3
<1> HIDE DEF n, step, marked
<1>5. PICK g \in [0..n -> SUBSET Obj] : Iterates(g, n, S, step)
  BY <1>1, <1>4, Recursion
<1>6. \A i \in 0..n : g[i] = Step(g, i)
  <2>1. ASSUME NEW i \in 0..n, i # 0 PROVE g[i] = Grown(g[i - 1], i)
    <3>1. i \in 1..n /\ i - 1 \in 0..n
      BY <1>1, <2>1
    <3>2. g[i] = step[i][g[i - 1]] /\ g[i - 1] \in SUBSET Obj
      BY <1>5, <3>1 DEF Iterates
    <3> QED
      BY <1>4, <3>1, <3>2
  <2> HIDE DEF Grown
  <2> QED
    BY <1>5, <2>1 DEF Iterates
<1>7. g = [i \in 0..n |-> Step(g, i)]
  <2> HIDE DEF Step
  <2> QED
    BY <1>6
<1>8. \A i \in 0..n : marked[i] = Step(marked, i)
  <2> HIDE DEF Step
  <2>1. marked = [i \in 0..n |-> Step(marked, i)]
    BY <1>7 DEF marked
  <2> QED
    BY <2>1
<1> DEFINE Good(i) == /\ S \subseteq marked[i] /\ marked[i] \subseteq Obj
                      /\ \A j \in 1..i : Addresses[j] \in S =>
                           getSlaves(Addresses[j]) \subseteq marked[i]
           P == {i \in Nat : i <= n => Good(i)}
<1>9. 0 \in P
  <2>1. marked[0] = S
    <3>1. 0 \in 0..n
      BY <1>1
    <3>2. marked[0] = Step(marked, 0)
      BY <1>8, <3>1
    <3> QED
      BY <3>2
  <2> QED
    BY <2>1
<1>10. ASSUME NEW i \in Nat, i \in P PROVE i + 1 \in P
  <2> SUFFICES ASSUME i + 1 <= n PROVE Good(i + 1)
    OBVIOUS
  <2>1. i + 1 \in 0..n /\ i + 1 # 0 /\ (i + 1) - 1 = i /\ Good(i)
    BY <1>1, <1>10
  <2>2. marked[i + 1] = Grown(marked[i], i + 1)
    <3>1. marked[i + 1] = Step(marked, i + 1)
      BY <1>8, <2>1
    <3> QED
      BY <2>1, <3>1
  <2>3. S \subseteq marked[i + 1] /\ marked[i + 1] \subseteq Obj
    BY <1>3, <2>1, <2>2
  <2>4. ASSUME NEW j \in 1..i + 1, Addresses[j] \in S
        PROVE  getSlaves(Addresses[j]) \subseteq marked[i + 1]
    <3>1. CASE j = i + 1
      BY <2>1, <2>2, <2>4, <3>1
    <3>2. CASE j # i + 1
      <4>1. j \in 1..i
        BY <3>2
      <4> QED
        BY <2>1, <2>2, <2>4, <4>1
    <3> QED
      BY <3>1, <3>2
  <2> QED
    BY <2>3, <2>4
<1> HIDE DEF P, Good
<1>11. n \in P
  BY <1>1, <1>9, <1>10, Induction
<1>12. Good(n)
  BY <1>1, <1>11 DEF P
<1>13. ASSUME NEW m \in S PROVE getSlaves(m) \subseteq ptask(S)
  <2>1. PICK j \in 1..n : Addresses[j] = m
    BY AddressAssumption DEF n
  <2> QED
    BY <1>2, <1>12, <2>1 DEF Good
<1> QED
  BY <1>2, <1>12, <1>13 DEF Good

-----------------------------------------------------------------------------
(* Redraw implements SyncGraph: each of its steps is one of SyncGraph's.   *)

LEMMA StepImplements == [RedrawNext]_redrawVars => [Next]_vars
<1> SUFFICES ASSUME [RedrawNext]_redrawVars PROVE [Next]_vars
  OBVIOUS
<1>1. CASE UNCHANGED redrawVars
  BY <1>1 DEF redrawVars
<1>2. CASE DrawMessage
  <2>1. CASE \E x \in Obj : DrawCreate(x) \/ DrawDelete(x) \/ DrawLock(x) \/ DrawModify(x)
    BY <2>1 DEF DrawCreate, DrawDelete, DrawLock, DrawModify, Next, Message
  <2>2. CASE \E x, y \in Obj : DrawRetype(x, y)
    BY <2>2 DEF DrawRetype, Next, Message
  <2>3. CASE DrawSync
    BY <2>3 DEF DrawSync, Next, Message
  <2> QED
    BY <1>2, <2>1, <2>2, <2>3 DEF DrawMessage
<1>3. CASE Handler
  BY <1>3 DEF Next
<1>4. CASE DrawFrame
  BY <1>4 DEF DrawFrame, Next, Frame
<1>5. CASE SortPass
  BY <1>5 DEF Next, Frame
<1>6. CASE DrawView
  BY <1>6 DEF DrawView, Next, Frame
<1>7. CASE DrawCleanup
  BY <1>7 DEF DrawCleanup, Next, Frame
<1> QED
  BY <1>1, <1>2, <1>3, <1>4, <1>5, <1>6, <1>7 DEF RedrawNext

-----------------------------------------------------------------------------
(* The inductive invariant.                                                *)

MarkTypes == modified \subseteq Obj /\ stale \subseteq Obj /\ missed \subseteq stale
             /\ session \in Sessions

\* The objects that a mark tells, now or once the next frame has run its tasks.
Told ==
  modified \union missed
    \union (IF phase = "messages" THEN UNION {getSlaves(m) : m \in modified} ELSE {})

\* After the view has been drawn, only what is missed is stale; the container knows of
\* every mark.
DrawInv ==
  /\ MarkTypes
  /\ stale \intersect Live \subseteq Told
  /\ phase = "cleanup" => stale \intersect Live \subseteq missed
  /\ phase = "messages" /\ ~subModified => modified = {}

LEMMA InitDrawInv == RedrawInit => DrawInv
BY DEF RedrawInit, DrawInv, MarkTypes, Told

\* An object that is no more the slave of a marked one has lost a relation.
LEMMA SlavesLost ==
  ASSUME GraphInv, GraphInv'
  PROVE  \A m \in Obj : \A s \in getSlaves(m) : s \in getSlaves(m)' \/ s \in Resynced
<1> SUFFICES ASSUME NEW m \in Obj, NEW s \in Obj, fSlaves2Masters'[s] = fSlaves2Masters[s]
             PROVE  fMasters2Slaves'[m][s] = fMasters2Slaves[m][s]
  BY DEF getSlaves, Resynced
<1>1. fMasters2Slaves[m][s] = Cardinality(Entries(fSlaves2Masters[s], m))
  BY DEF GraphInv, MapsAgree
<1>2. fMasters2Slaves'[m][s] = Cardinality(Entries(fSlaves2Masters'[s], m))
  BY DEF GraphInv, MapsAgree
<1> QED
  BY <1>1, <1>2

\* A message that marks the objects it changes, and the slaves that lose a relation.
LEMMA MarkStep ==
  ASSUME DrawInv, GraphInv, GraphInv', NEW S \in SUBSET Obj, setModified(S),
         phase = "messages", phase' = "messages", subModified' = TRUE,
         \A x \in Live' : x \in Live \/ x \in S,
         Resynced \subseteq S
  PROVE  DrawInv'
<1>1. /\ modified' = modified \union S /\ stale' = stale \union S
      /\ missed' = missed /\ session' = session
  BY DEF setModified
<1>2. MarkTypes'
  BY <1>1 DEF DrawInv, MarkTypes
<1>3. ASSUME NEW x \in stale', x \in Live', x \notin S PROVE x \in Told'
  <2>1. x \in stale /\ x \in Live
    BY <1>1, <1>3
  <2>2. x \in modified \/ x \in missed \/ \E m \in modified : x \in getSlaves(m)
    BY <2>1 DEF DrawInv, Told
  <2>3. CASE \E m \in modified : x \in getSlaves(m)
    <3>1. PICK m \in modified : x \in getSlaves(m)
      BY <2>3
    <3>2. m \in Obj /\ x \notin Resynced
      BY <1>3 DEF DrawInv, MarkTypes
    <3>3. x \in getSlaves(m)'
      BY <3>1, <3>2, SlavesLost
    <3> QED
      BY <1>1, <3>1, <3>3 DEF Told
  <2> QED
    BY <1>1, <2>2, <2>3 DEF Told
<1>4. S \subseteq Told'
  BY <1>1 DEF Told
<1> QED
  BY <1>2, <1>3, <1>4 DEF DrawInv

LEMMA CreateStep ==
  ASSUME DrawInv, GraphInv, GraphInv', NEW x \in Obj, DrawCreate(x) \/ DrawDelete(x) \/ DrawLock(x)
  PROVE  DrawInv'
<1>1. /\ setModified({x}) /\ phase = "messages" /\ phase' = "messages" /\ subModified' = TRUE
      /\ \A y \in Live' : y \in Live \/ y \in {x}
      /\ fSlaves2Masters' = fSlaves2Masters
  BY DEF DrawCreate, DrawDelete, DrawLock, Create, Delete, Lock, Handling, graph, Live
<1>2. Resynced \subseteq {x}
  BY <1>1 DEF Resynced
<1> QED
  BY <1>1, <1>2, MarkStep

LEMMA RetypeStep ==
  ASSUME DrawInv, GraphInv, GraphInv', NEW x \in Obj, NEW y \in Obj, DrawRetype(x, y)
  PROVE  DrawInv'
<1> DEFINE S == {x, y} \union Resynced
<1>1. /\ setModified(S) /\ phase = "messages" /\ phase' = "messages" /\ subModified' = TRUE
      /\ \A z \in Live' : z \in Live \/ z \in S
  BY DEF DrawRetype, Retype, Handling, Live
<1>2. S \in SUBSET Obj /\ Resynced \subseteq S
  BY DEF Resynced
<1> HIDE DEF S
<1> QED
  BY <1>1, <1>2, MarkStep

LEMMA SyncStep ==
  ASSUME DrawInv, TypeOK, GraphInv, GraphInv', DrawSync
  PROVE  DrawInv'
<1>1. PICK slaves \in SUBSET Name, masters \in SUBSET Name, mmap \in Map :
        \/ \E smap \in Map : /\ SyncCreate(slaves, masters, mmap, smap)
                             /\ setModified(Matched(slaves))
        \/ SyncDelete(slaves, masters, mmap) /\ setModified(Resynced)
        \/ SyncDeleteAll(slaves) /\ setModified(Matched(slaves))
  BY DEF DrawSync
<1>2. phase = "messages" /\ phase' = "messages" /\ subModified' = TRUE /\ Live' = Live
  BY <1>1 DEF SyncCreate, SyncDelete, SyncDeleteAll, Handling, children, Live
<1>3. Matched(slaves) \in SUBSET Obj /\ Resynced \in SUBSET Obj
  BY DEF Matched, Live, TypeOK, Resynced
<1>4. CASE \E smap \in Map : /\ SyncCreate(slaves, masters, mmap, smap)
                             /\ setModified(Matched(slaves))
  <2>1. Resynced \subseteq Matched(slaves)
    BY <1>4 DEF SyncCreate, graph, Resynced
  <2> QED
    BY <1>2, <1>3, <1>4, <2>1, MarkStep
<1>5. CASE SyncDelete(slaves, masters, mmap) /\ setModified(Resynced)
  BY <1>2, <1>3, <1>5, MarkStep
<1>6. CASE SyncDeleteAll(slaves) /\ setModified(Matched(slaves))
  <2>1. \A s \in Obj : s \notin Matched(slaves) => fSlaves2Masters'[s] = fSlaves2Masters[s]
    BY <1>6 DEF SyncDeleteAll, Drop
  <2>2. Resynced \subseteq Matched(slaves)
    BY <2>1 DEF Resynced
  <2> QED
    BY <1>2, <1>3, <1>6, <2>2, MarkStep
<1> QED
  BY <1>1, <1>4, <1>5, <1>6

\* The slaves of what is modified are told by its mark.
LEMMA ModifyStep == ASSUME DrawInv, NEW x \in Obj, DrawModify(x) PROVE DrawInv'
<1>1. /\ modified' = modified \union {x} /\ stale' = stale \union {x} \union getSlaves(x)
      /\ UNCHANGED <<missed, session, elements, deleted, fMasters2Slaves>>
      /\ phase = "messages" /\ phase' = "messages" /\ subModified' = TRUE
  BY DEF DrawModify, Modify, Handling, children, graph
<1>2. Live' = Live /\ \A m : getSlaves(m)' = getSlaves(m)
  BY <1>1 DEF Live, getSlaves
<1>3. MarkTypes'
  BY <1>1 DEF DrawInv, MarkTypes, getSlaves
<1>4. (stale \intersect Live \subseteq Told) => (stale \intersect Live \subseteq Told)'
  BY <1>1, <1>2 DEF Told
<1> QED
  BY <1>1, <1>3, <1>4 DEF DrawInv

\* The handler of a sync message only adds relations: it loses no mark.
LEMMA HandlerStep ==
  ASSUME DrawInv, TypeOK, GraphInv, Handler, UNCHANGED <<marks, session>>
  PROVE  DrawInv'
<1>1. PICK c \in work : sync(c) \/ setSyncOptions(c)
  BY DEF Handler
<1>2. UNCHANGED <<modified, stale, missed, session, elements, deleted, subModified, phase>>
  BY <1>1 DEF sync, setSyncOptions, children, marks
<1>3. Live' = Live
  BY <1>2 DEF Live
<1>4. \A m, s \in Obj : fMasters2Slaves[m][s] > 0 => fMasters2Slaves'[m][s] > 0
  <2>1. CASE UNCHANGED graph
    BY <2>1 DEF graph
  <2>2. CASE fMasters2Slaves' = [fMasters2Slaves EXCEPT ![c.master][c.slave] = @ + 1]
    BY <1>1, <2>2 DEF GraphInv, TypeOK, Calls
  <2> QED
    BY <1>1, <2>1, <2>2 DEF sync, setSyncOptions
<1>5. \A m \in Obj : \A s \in getSlaves(m) : s \in getSlaves(m)'
  BY <1>4 DEF getSlaves
<1>6. Told \subseteq Told'
  BY <1>2, <1>5 DEF Told, DrawInv, MarkTypes
<1> QED
  BY <1>2, <1>3, <1>6 DEF DrawInv, MarkTypes

\* The frame marks the slaves of what is marked, then what the signals drive.
LEMMA FrameStep == ASSUME DrawInv, TypeOK, DrawFrame PROVE DrawInv'
<1>1. PICK driven \in SUBSET Live :
        LET behind == UNION {getSlaves(m) : m \in driven}
        IN /\ modified' = ptask(modified) \union driven
           /\ stale' = stale \union driven \union behind
           /\ missed' = missed \union (behind \ modified')
           /\ UNCHANGED session
  BY DEF DrawFrame
<1> DEFINE behind == UNION {getSlaves(m) : m \in driven}
<1>2. /\ modified' = ptask(modified) \union driven
      /\ stale' = stale \union driven \union behind
      /\ missed' = missed \union (behind \ modified')
      /\ session' = session
  BY <1>1
<1>3. behind \subseteq Obj /\ driven \subseteq Obj
  BY DEF getSlaves, TypeOK, Live
<1> HIDE DEF behind
<1>4. phase = "messages" /\ phase' = "lmap" /\ UNCHANGED <<elements, deleted>>
  BY DEF DrawFrame, FrameStart, Handling, children
<1>5. Live' = Live
  BY <1>4 DEF Live
<1>6. /\ modified \subseteq ptask(modified) /\ ptask(modified) \subseteq Obj
      /\ \A m \in modified : getSlaves(m) \subseteq ptask(modified)
  BY PtaskMarks DEF DrawInv, MarkTypes
<1>7. MarkTypes'
  BY <1>2, <1>3, <1>6 DEF DrawInv, MarkTypes
<1>8. stale \intersect Live \subseteq ptask(modified) \union missed
  BY <1>4, <1>6 DEF DrawInv, Told
<1>9. (stale \intersect Live \subseteq Told)'
  BY <1>2, <1>4, <1>5, <1>8 DEF Told
<1> QED
  BY <1>4, <1>7, <1>9 DEF DrawInv

LEMMA SortStep ==
  ASSUME DrawInv, SortPass, UNCHANGED <<marks, session>>
  PROVE  DrawInv'
BY DEF DrawInv, SortPass, marks, children, graph, MarkTypes, Told, Live, getSlaves

\* The view draws every child that is marked: only the missed ones stay stale.
LEMMA ViewStep == ASSUME DrawInv, DrawView PROVE DrawInv'
<1> DEFINE drawn == IF phase = "view" THEN Live \intersect modified ELSE {}
<1>1. /\ stale' = stale \ drawn /\ missed' = missed \ drawn /\ modified' = modified
      /\ session' = session
  BY DEF DrawView
<1>2. /\ phase \in Sorts /\ phase' \in {"smap", "view", "cleanup"}
      /\ phase' = "cleanup" => phase = "view"
      /\ UNCHANGED <<elements, deleted>>
  BY DEF DrawView, SortEnd, children, Sorts
<1>3. Live' = Live
  BY <1>2 DEF Live
<1>4. stale \intersect Live \subseteq modified \union missed
  BY <1>2 DEF DrawInv, Told, Sorts
<1>5. MarkTypes'
  BY <1>1 DEF DrawInv, MarkTypes
<1>6. phase' = "cleanup" => (stale \intersect Live \subseteq missed)'
  BY <1>1, <1>2, <1>3, <1>4
<1> QED
  BY <1>1, <1>2, <1>3, <1>4, <1>5, <1>6 DEF DrawInv, Told

LEMMA CleanStep == ASSUME DrawInv, DrawCleanup PROVE DrawInv'
<1>1. /\ modified' = {}
      /\ stale' = (stale \union Resynced) \intersect elements'
      /\ missed' = (missed \union Resynced) \intersect elements'
      /\ session' = session
  BY DEF DrawCleanup
<1>2. phase = "cleanup" /\ phase' = "messages" /\ elements' = Live
  BY DEF DrawCleanup, Cleanup
<1>3. Live' \subseteq Live
  BY <1>2 DEF Live
<1>4. (stale \intersect Live \subseteq missed)'
  BY <1>1, <1>2, <1>3 DEF DrawInv
<1>5. MarkTypes'
  BY <1>1 DEF DrawInv, MarkTypes, Resynced
<1> QED
  BY <1>1, <1>2, <1>4, <1>5 DEF DrawInv, Told

LEMMA NextDrawInv == IInv /\ IInv' /\ DrawInv /\ [RedrawNext]_redrawVars => DrawInv'
<1> SUFFICES ASSUME IInv, IInv', DrawInv, [RedrawNext]_redrawVars PROVE DrawInv'
  OBVIOUS
<1>1. TypeOK /\ GraphInv /\ GraphInv'
  BY DEF IInv
<1>2. CASE UNCHANGED redrawVars
  BY <1>2 DEF redrawVars, vars, marks, DrawInv, MarkTypes, Told, Live, getSlaves
<1>3. CASE DrawMessage
  BY <1>1, <1>3, CreateStep, ModifyStep, RetypeStep, SyncStep DEF DrawMessage
<1>4. CASE Handler /\ UNCHANGED <<marks, session>>
  BY <1>1, <1>4, HandlerStep
<1>5. CASE DrawFrame
  BY <1>1, <1>5, FrameStep
<1>6. CASE SortPass /\ UNCHANGED <<marks, session>>
  BY <1>6, SortStep
<1>7. CASE DrawView
  BY <1>7, ViewStep
<1>8. CASE DrawCleanup
  BY <1>8, CleanStep
<1> QED
  BY <1>2, <1>3, <1>4, <1>5, <1>6, <1>7, <1>8 DEF RedrawNext

-----------------------------------------------------------------------------
(* The theorems.                                                           *)

\* Every behaviour of the children and their marks is one of SyncGraph: what the module
\* adds to it neither takes nor changes a step of the relations.
THEOREM RedrawImplementsSync == RedrawSpec => SafeSpec
<1>1. RedrawInit => Init
  BY DEF RedrawInit
<1> QED
  BY <1>1, StepImplements, PTL DEF RedrawSpec, SafeSpec

LEMMA RedrawInvariance == RedrawSpec => [](IInv /\ DrawInv)
<1>1. RedrawSpec => []IInv
  BY RedrawImplementsSync, SafeInvariance, PTL
<1> QED
  BY <1>1, InitDrawInv, NextDrawInv, PTL DEF RedrawSpec

\* The relations and the marks keep their types while the frames draw, and no object is
\* counted as missed that is not stale: the view that draws it again takes it from both.
THEOREM MarksTyped == RedrawSpec => []RedrawTypeOK
<1>1. IInv /\ DrawInv => RedrawTypeOK
  BY DEF IInv, DrawInv, MarkTypes, RedrawTypeOK
<1> QED
  BY <1>1, RedrawInvariance, PTL

\* No child is left stale by a frame without the code having a reason to miss it.
THEOREM NothingLeftStale == RedrawSpec => []NothingStale
<1>1. IInv /\ DrawInv => NothingStale
  BY DEF DrawInv, Told, NothingStale
<1> QED
  BY <1>1, RedrawInvariance, PTL

\* The relations stay acyclic, and are only removed by a message, while the frames
\* draw the children.
THEOREM RelationsSafe == RedrawSpec => []Acyclic /\ RelationsKept
<1>1. IInv => Acyclic
  BY DEF IInv, GraphInv
<1> QED
  BY <1>1, RedrawImplementsSync, SafeInvariance, SafeRelationsKept, PTL

\* While the frames draw the children, the walk of ISync::checkLoop answers what
\* checkLoop does in the model.
THEOREM RedrawWalkAgrees == RedrawSpec => []CheckLoopAgrees
BY RedrawImplementsSync, SafeWalkAgrees, PTL
=============================================================================
