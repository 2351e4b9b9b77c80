-------------------------- MODULE SyncGraphProofs --------------------------
(***************************************************************************)
(* Proofs about SyncGraph and SyncLoops, for every set of objects, names   *)
(* and mappings and every bound.                                           *)
(***************************************************************************)
EXTENDS SyncLoops, ListProofs, FiniteSetTheorems, TLAPS

\* Acyclic, read from the masters to the slaves.  On finite sets the two are
\* equivalent; each is shown to be preserved on its own.
AcyclicUp ==
  \A X \in SUBSET Obj : X # {} => \E y \in X : \A x \in X : ~Slaved(x, y)

\* The inductive invariant of the relations.
GraphInv ==
  /\ fSlaves2Masters \in [Obj -> SUBSET Masters]
  /\ fMasters2Slaves \in [Obj -> [Obj -> Nat]]
  /\ \A s \in Obj : IsFiniteSet(fSlaves2Masters[s])
  /\ MapsAgree
  /\ Acyclic
  /\ AcyclicUp

\* A sort in progress has split the children in two.
SortInv == phase \in Sorts => elements = in \union out

\* All that a message or a cleanup may take from the graph.
DropAny ==
  \E gone \in [Obj -> SUBSET Masters] :
    /\ \A s \in Obj : gone[s] \subseteq fSlaves2Masters[s]
    /\ Drop(gone)

-----------------------------------------------------------------------------
\* The entries of a master in a vector are counted right after a removal.
LEMMA EntriesDrop ==
  ASSUME NEW A, IsFiniteSet(A), NEW B \in SUBSET A, NEW m
  PROVE  /\ Cardinality(Entries(A \ B, m)) = Cardinality(Entries(A, m)) - Cardinality(Entries(B, m))
         /\ Cardinality(Entries(A \ B, m)) \in Nat
<1> DEFINE P == Entries(A, m)
           Q == Entries(B, m)
<1>1. Entries(A \ B, m) = P \ Q /\ P \intersect Q = Q
  BY DEF Entries
<1>2. IsFiniteSet(P)
  BY FS_Subset DEF Entries
<1>3. /\ Cardinality(P \ Q) = Cardinality(P) - Cardinality(P \intersect Q)
      /\ IsFiniteSet(P \ Q)
  BY <1>2, FS_Difference
<1>4. QED
  BY <1>1, <1>3, FS_CardinalityType

\* The entries of a master in a vector are counted right after a push_back.
LEMMA EntriesAdd ==
  ASSUME NEW A, IsFiniteSet(A), NEW r, r \notin A, NEW m
  PROVE  Cardinality(Entries(A \union {r}, m)) =
           IF r.master = m THEN Cardinality(Entries(A, m)) + 1
                           ELSE Cardinality(Entries(A, m))
<1>1. IsFiniteSet(Entries(A, m))
  BY FS_Subset DEF Entries
<1>2. CASE r.master = m
  <2>1. Entries(A \union {r}, m) = Entries(A, m) \union {r} /\ r \notin Entries(A, m)
    BY <1>2 DEF Entries
  <2>2. QED
    BY <1>1, <1>2, <2>1, FS_AddElement
<1>3. CASE r.master # m
  <2>1. Entries(A \union {r}, m) = Entries(A, m)
    BY <1>3 DEF Entries
  <2>2. QED
    BY <1>3, <2>1
<1>4. QED
  BY <1>2, <1>3

-----------------------------------------------------------------------------
\* Removing relations keeps the invariant of the relations.
LEMMA DropKeeps ==
  ASSUME GraphInv, DropAny
  PROVE  GraphInv'
<1>1. PICK gone \in [Obj -> SUBSET Masters] :
        /\ \A s \in Obj : gone[s] \subseteq fSlaves2Masters[s]
        /\ Drop(gone)
  BY DEF DropAny
<1>2. \A s \in Obj : fSlaves2Masters'[s] = fSlaves2Masters[s] \ gone[s]
  BY <1>1 DEF Drop
<1>3. fSlaves2Masters' \in [Obj -> SUBSET Masters]
  BY <1>1 DEF Drop, GraphInv
<1>4. \A s \in Obj : IsFiniteSet(fSlaves2Masters'[s])
  BY <1>2, FS_Subset DEF GraphInv
<1>5. \A m, s \in Obj :
        /\ fMasters2Slaves'[m][s] = Cardinality(Entries(fSlaves2Masters'[s], m))
        /\ fMasters2Slaves'[m][s] \in Nat
  <2> SUFFICES ASSUME NEW m \in Obj, NEW s \in Obj
               PROVE  /\ fMasters2Slaves'[m][s] = Cardinality(Entries(fSlaves2Masters'[s], m))
                      /\ fMasters2Slaves'[m][s] \in Nat
    OBVIOUS
  <2>1. fMasters2Slaves'[m][s]
          = Cardinality(Entries(fSlaves2Masters[s], m)) - Cardinality(Entries(gone[s], m))
    BY <1>1 DEF Drop, GraphInv, MapsAgree
  <2>2. IsFiniteSet(fSlaves2Masters[s]) /\ gone[s] \in SUBSET fSlaves2Masters[s]
    BY <1>1 DEF GraphInv
  <2>3. LET rest == fSlaves2Masters[s] \ gone[s]
        IN  /\ Cardinality(Entries(rest, m))
                 = Cardinality(Entries(fSlaves2Masters[s], m)) - Cardinality(Entries(gone[s], m))
            /\ Cardinality(Entries(rest, m)) \in Nat
    BY <2>2, EntriesDrop
  <2>4. QED
    BY <2>1, <2>3, <1>2
<1>6. fMasters2Slaves' \in [Obj -> [Obj -> Nat]]
  BY <1>1, <1>5 DEF Drop
<1>7. \A s, m \in Obj : Slaved(s, m)' => Slaved(s, m)
  BY <1>2 DEF Slaved, getMasterObjects
<1>8. Acyclic' /\ AcyclicUp'
  BY <1>7 DEF GraphInv, Acyclic, AcyclicUp
<1>9. QED
  BY <1>3, <1>4, <1>5, <1>6, <1>8 DEF GraphInv, MapsAgree

-----------------------------------------------------------------------------
\* When checkLoop answers FALSE, the objects that the walk visits are closed under
\* the masters, and the slave is not one of them.
LEMMA NoLoopClosed ==
  ASSUME GraphInv, NEW s \in Obj, NEW m \in Obj, s # m, ~checkLoop(s, m)
  PROVE  \E C \in SUBSET Obj : m \in C /\ MasterClosed(C) /\ s \notin C
<1>1. PICK C \in SUBSET Obj :
        /\ m \in C /\ MasterClosed(C)
        /\ \A x \in C : ~(hasMaster(x) /\ getRelation(s, x) = "kMaster")
  BY DEF checkLoop
<1>2. \A x \in C : ~Slaved(x, s)
  <2> SUFFICES ASSUME NEW x \in C, Slaved(x, s)
               PROVE  FALSE
    OBVIOUS
  <2>1. PICK r \in fSlaves2Masters[x] : r.master = s
    BY DEF Slaved, getMasterObjects
  <2>2. hasMaster(x)
    BY <2>1 DEF hasMaster
  <2>3. IsFiniteSet(Entries(fSlaves2Masters[x], s)) /\ Entries(fSlaves2Masters[x], s) # {}
    BY <2>1, FS_Subset DEF GraphInv, Entries
  <2>4. Cardinality(Entries(fSlaves2Masters[x], s)) # 0
    BY <2>3, FS_EmptySet
  <2>5. fMasters2Slaves[s][x] > 0
    BY <2>4 DEF GraphInv, MapsAgree
  <2>6. getRelation(s, x) = "kMaster"
    BY <2>5 DEF getRelation, getSlaves
  <2>7. QED
    BY <1>1, <2>2, <2>6
<1>3. MasterClosed(C \ {s})
  BY <1>1, <1>2 DEF MasterClosed, Slaved
<1>4. QED
  BY <1>1, <1>3

\* A relation that checkLoop let pass closes no loop.
LEMMA SyncKeepsAcyclic ==
  ASSUME GraphInv, NEW s \in Obj, NEW m \in Obj, s # m, ~checkLoop(s, m),
         \A x, y \in Obj : Slaved(x, y)' => Slaved(x, y) \/ (x = s /\ y = m)
  PROVE  Acyclic' /\ AcyclicUp'
<1>1. PICK C \in SUBSET Obj : m \in C /\ MasterClosed(C) /\ s \notin C
  BY NoLoopClosed
<1>2. \A x \in C : \A y \in Obj : Slaved(x, y) => y \in C
  BY <1>1 DEF MasterClosed, Slaved
<1>3. Acyclic'
  <2> SUFFICES ASSUME NEW X \in SUBSET Obj, X # {}
               PROVE  \E x \in X : \A y \in X : ~Slaved(x, y)'
    BY DEF Acyclic
  <2>1. CASE X \intersect C # {}
    <3>1. PICK x \in X \intersect C : \A y \in X \intersect C : ~Slaved(x, y)
      BY <2>1 DEF GraphInv, Acyclic
    <3>2. \A y \in X : ~Slaved(x, y)'
      BY <1>1, <1>2, <3>1
    <3>3. QED
      BY <3>1, <3>2
  <2>2. CASE X \intersect C = {}
    <3>1. PICK x \in X : \A y \in X : ~Slaved(x, y)
      BY DEF GraphInv, Acyclic
    <3>2. \A y \in X : ~Slaved(x, y)'
      BY <1>1, <2>2, <3>1
    <3>3. QED
      BY <3>1, <3>2
  <2>3. QED
    BY <2>1, <2>2
<1>4. AcyclicUp'
  <2> SUFFICES ASSUME NEW X \in SUBSET Obj, X # {}
               PROVE  \E y \in X : \A x \in X : ~Slaved(x, y)'
    BY DEF AcyclicUp
  <2>1. CASE X \ C # {}
    <3>1. PICK y \in X \ C : \A x \in X \ C : ~Slaved(x, y)
      BY <2>1 DEF GraphInv, AcyclicUp
    <3>2. \A x \in X : ~Slaved(x, y)'
      BY <1>1, <1>2, <3>1
    <3>3. QED
      BY <3>1, <3>2
  <2>2. CASE X \ C = {}
    <3>1. PICK y \in X : \A x \in X : ~Slaved(x, y)
      BY DEF GraphInv, AcyclicUp
    <3>2. \A x \in X : ~Slaved(x, y)'
      BY <1>1, <2>2, <3>1
    <3>3. QED
      BY <3>1, <3>2
  <2>3. QED
    BY <2>1, <2>2
<1>5. QED
  BY <1>3, <1>4

\* ISync::sync keeps the invariant of the relations.
LEMMA SyncKeeps ==
  ASSUME GraphInv, work \subseteq Calls, NEW c \in work, sync(c)
  PROVE  GraphInv'
<1>1. CASE UNCHANGED graph
  BY <1>1 DEF graph, GraphInv, MapsAgree, Acyclic, AcyclicUp, Slaved, getMasterObjects
<1> DEFINE rec(k) == [master |-> c.master, mmap |-> c.mmap, smap |-> c.smap, rank |-> k]
<1>2. CASE c.slave # c.master /\ ~checkLoop(c.slave, c.master)
  <2>1. c.slave \in Obj /\ c.master \in Obj /\ c.mmap \in Map /\ c.smap \in Map
    BY DEF Calls
  <2>2. PICK k \in 1..MaxRank :
          /\ IsNextRank(c.slave, k)
          /\ fSlaves2Masters' = [fSlaves2Masters EXCEPT ![c.slave] = @ \union {rec(k)}]
          /\ fMasters2Slaves' = [fMasters2Slaves EXCEPT ![c.master][c.slave] = @ + 1]
    BY <1>2 DEF sync
  <2> DEFINE r == rec(k)
  <2>3. r \in Masters /\ r.master = c.master /\ r.rank = k
    BY <2>1 DEF Masters
  <2>4. r \notin fSlaves2Masters[c.slave]
    <3>1. \A q \in fSlaves2Masters[c.slave] : q.rank < k
      BY <2>2 DEF IsNextRank
    <3>2. ~(k < k)
      BY RankAssumption
    <3>3. QED
      BY <2>3, <3>1, <3>2
  <2> HIDE DEF r
  <2>5. /\ fSlaves2Masters' \in [Obj -> SUBSET Masters]
        /\ fMasters2Slaves' \in [Obj -> [Obj -> Nat]]
    BY <2>1, <2>2, <2>3 DEF GraphInv, r
  <2>6. \A s \in Obj : fSlaves2Masters'[s] =
          IF s = c.slave THEN fSlaves2Masters[s] \union {r} ELSE fSlaves2Masters[s]
    BY <2>1, <2>2 DEF GraphInv, r
  <2>7. \A s \in Obj : IsFiniteSet(fSlaves2Masters'[s])
    <3>1. \A s \in Obj : IsFiniteSet(fSlaves2Masters[s] \union {r})
      BY FS_AddElement DEF GraphInv
    <3>2. QED
      BY <2>6, <3>1 DEF GraphInv
  <2>8. MapsAgree'
    <3> SUFFICES ASSUME NEW m \in Obj, NEW s \in Obj
                 PROVE  fMasters2Slaves'[m][s] = Cardinality(Entries(fSlaves2Masters'[s], m))
      BY DEF MapsAgree
    <3>1. fMasters2Slaves[m][s] = Cardinality(Entries(fSlaves2Masters[s], m))
      BY DEF GraphInv, MapsAgree
    <3>2. fMasters2Slaves'[m][s] = IF m = c.master /\ s = c.slave
                                   THEN fMasters2Slaves[m][s] + 1 ELSE fMasters2Slaves[m][s]
      BY <2>1, <2>2 DEF GraphInv
    <3>3. CASE s = c.slave
      <4>1. Cardinality(Entries(fSlaves2Masters[s] \union {r}, m)) =
              IF r.master = m THEN Cardinality(Entries(fSlaves2Masters[s], m)) + 1
                              ELSE Cardinality(Entries(fSlaves2Masters[s], m))
        BY <2>4, <3>3, EntriesAdd DEF GraphInv
      <4>2. QED
        BY <2>3, <2>6, <3>1, <3>2, <3>3, <4>1 DEF r
    <3>4. CASE s # c.slave
      BY <2>6, <3>1, <3>2, <3>4
    <3>5. QED
      BY <3>3, <3>4
  <2>9. \A x, y \in Obj : Slaved(x, y)' => Slaved(x, y) \/ (x = c.slave /\ y = c.master)
    BY <2>3, <2>6 DEF Slaved, getMasterObjects, r
  <2>10. Acyclic' /\ AcyclicUp'
    BY <1>2, <2>1, <2>9, SyncKeepsAcyclic
  <2>11. QED
    BY <2>5, <2>7, <2>8, <2>10 DEF GraphInv
<1>3. QED
  BY <1>1, <1>2 DEF sync

-----------------------------------------------------------------------------
\* The inductive invariant.
IInv == TypeOK /\ GraphInv /\ SortInv

\* The actions that remove relations take from each vector some of its records.
LEMMA RemovalsAreDrops ==
  ASSUME TypeOK
  PROVE  /\ \A slaves, masters, mmap : SyncDelete(slaves, masters, mmap) => DropAny
         /\ \A slaves : SyncDeleteAll(slaves) => DropAny
         /\ \A D : CleanupRelations(D) => DropAny
<1> DEFINE Removes(gone) == /\ gone \in [Obj -> SUBSET Masters]
                            /\ \A s \in Obj : gone[s] \subseteq fSlaves2Masters[s]
<1>1. ASSUME NEW slaves, NEW masters, NEW mmap, SyncDelete(slaves, masters, mmap)
      PROVE  DropAny
  <2>1. PICK done : Drop([s \in Obj |-> IF s \in done
                            THEN Removable(s, getMasters(s, masters, mmap)) ELSE {}])
    BY <1>1 DEF SyncDelete
  <2>2. Removes([s \in Obj |-> IF s \in done
                   THEN Removable(s, getMasters(s, masters, mmap)) ELSE {}])
    BY DEF TypeOK, Removable, getMasters
  <2>3. QED
    BY <2>1, <2>2 DEF DropAny
<1>2. ASSUME NEW slaves, SyncDeleteAll(slaves)
      PROVE  DropAny
  <2>1. Removes([s \in Obj |-> IF s \in Matched(slaves) THEN fSlaves2Masters[s] ELSE {}])
    BY DEF TypeOK
  <2>2. QED
    BY <1>2, <2>1 DEF DropAny, SyncDeleteAll
<1>3. ASSUME NEW D, CleanupRelations(D)
      PROVE  DropAny
  <2>1. Removes([s \in Obj |-> IF s \in D THEN fSlaves2Masters[s]
                               ELSE Removable(s, Erased(D, s))])
    BY DEF TypeOK, Removable, Erased, Dead
  <2>2. QED
    BY <1>3, <2>1 DEF DropAny, CleanupRelations
<1>4. QED
  BY <1>1, <1>2, <1>3

\* Steps that leave the two maps alone.
LEMMA SameGraph ==
  ASSUME GraphInv, UNCHANGED graph
  PROVE  GraphInv'
BY DEF graph, GraphInv, MapsAgree, Acyclic, AcyclicUp, Slaved, getMasterObjects

\* The graph part of the invariant holds at first, and every step keeps it.
LEMMA GraphInit ==
  ASSUME Init
  PROVE  GraphInv
<1>1. /\ fSlaves2Masters \in [Obj -> SUBSET Masters]
      /\ fMasters2Slaves \in [Obj -> [Obj -> Nat]]
  BY DEF Init
<1>2. \A s \in Obj : IsFiniteSet(fSlaves2Masters[s])
  BY FS_EmptySet DEF Init
<1>3. MapsAgree
  <2>1. \A s, m \in Obj : Entries(fSlaves2Masters[s], m) = {}
    BY DEF Init, Entries
  <2>2. QED
    BY <2>1, FS_EmptySet DEF Init, MapsAgree
<1>4. Acyclic /\ AcyclicUp
  BY DEF Init, Acyclic, AcyclicUp, Slaved, getMasterObjects
<1>5. QED
  BY <1>1, <1>2, <1>3, <1>4 DEF GraphInv

LEMMA GraphStep ==
  ASSUME TypeOK, GraphInv, [Next]_vars
  PROVE  GraphInv'
<1>1. CASE UNCHANGED vars
  BY <1>1, SameGraph DEF vars, graph
<1>2. CASE \E x \in Obj : Create(x) \/ Delete(x) \/ Lock(x)
  BY <1>2, SameGraph DEF Create, Delete, Lock, graph
<1>3. CASE \E x, y \in Obj : Retype(x, y)
  BY <1>3, RemovalsAreDrops, DropKeeps DEF Retype
<1>4. CASE \E slaves, masters \in SUBSET Name, mmap, smap \in Map :
             SyncCreate(slaves, masters, mmap, smap)
  BY <1>4, SameGraph DEF SyncCreate
<1>5. CASE \E slaves, masters \in SUBSET Name, mmap \in Map :
             SyncDelete(slaves, masters, mmap)
  BY <1>5, RemovalsAreDrops, DropKeeps
<1>6. CASE \E slaves \in SUBSET Name : SyncDeleteAll(slaves)
  BY <1>6, RemovalsAreDrops, DropKeeps
<1>7. CASE Handler
  <2>1. ASSUME NEW c \in work, sync(c) PROVE GraphInv'
    BY <2>1, SyncKeeps DEF TypeOK
  <2>2. ASSUME NEW c \in work, setSyncOptions(c) PROVE GraphInv'
    BY <2>2, SameGraph DEF setSyncOptions
  <2>3. QED
    BY <1>7, <2>1, <2>2 DEF Handler
<1>8. CASE FrameStart \/ SortPass \/ SortEnd
  BY <1>8, SameGraph DEF FrameStart, SortPass, SortEnd
<1>9. CASE Cleanup
  BY <1>9, RemovalsAreDrops, DropKeeps DEF Cleanup
<1>10. CASE Modify
  BY <1>10, SameGraph DEF Modify
<1>11. QED
  BY <1>1, <1>2, <1>3, <1>4, <1>5, <1>6, <1>7, <1>8, <1>9, <1>10 DEF Next, Message, Frame

\* The rest of the invariant, given that the step keeps the graph part.
LEMMA RestStep ==
  ASSUME IInv, GraphInv', [Next]_vars
  PROVE  TypeOK' /\ SortInv'
<1> DEFINE Types == /\ elements' \subseteq Obj /\ deleted' \subseteq Obj
                    /\ locked' \subseteq Obj /\ work' \subseteq Calls
                    /\ subModified' \in BOOLEAN
                    /\ phase' \in Sorts \union {"messages", "cleanup"}
                    /\ in' \subseteq Obj /\ out' \subseteq Obj
<1> USE DEF IInv, TypeOK, SortInv
<1>1. ASSUME UNCHANGED vars
      PROVE  Types /\ SortInv'
  BY <1>1 DEF vars
<1>2. ASSUME NEW x \in Obj, Create(x) \/ Delete(x) \/ Lock(x)
      PROVE  Types /\ SortInv'
  BY <1>2 DEF Create, Delete, Lock, Handling, Live, sorting, Sorts
<1>3. ASSUME NEW x \in Obj, NEW y \in Obj, Retype(x, y)
      PROVE  Types /\ SortInv'
  BY <1>3 DEF Retype, Handling, sorting, Sorts
<1>4. ASSUME NEW slaves, NEW masters, NEW mmap \in Map, NEW smap \in Map,
             SyncCreate(slaves, masters, mmap, smap)
      PROVE  Types /\ SortInv'
  BY <1>4 DEF SyncCreate, Handling, children, sorting, Sorts
<1>5. ASSUME NEW slaves, NEW masters, NEW mmap, SyncDelete(slaves, masters, mmap)
      PROVE  Types /\ SortInv'
  BY <1>5 DEF SyncDelete, Handling, children, sorting, Sorts
<1>6. ASSUME NEW slaves, SyncDeleteAll(slaves)
      PROVE  Types /\ SortInv'
  BY <1>6 DEF SyncDeleteAll, Handling, children, sorting, Sorts
<1>7. ASSUME NEW c \in work, sync(c) \/ setSyncOptions(c)
      PROVE  Types /\ SortInv'
  BY <1>7 DEF sync, setSyncOptions, children, sorting
<1>8. ASSUME FrameStart
      PROVE  Types /\ SortInv'
  BY <1>8 DEF FrameStart, children, Sorts
<1>9. ASSUME SortPass
      PROVE  Types /\ SortInv'
  BY <1>9 DEF SortPass, Ready, children, Sorts
<1>10. ASSUME SortEnd
      PROVE  Types /\ SortInv'
  BY <1>10 DEF SortEnd, children, Sorts
<1>11. ASSUME Cleanup
      PROVE  Types /\ SortInv'
  BY <1>11 DEF Cleanup, Live, sorting, Sorts
<1>12. ASSUME Modify
      PROVE  Types /\ SortInv'
  BY <1>12 DEF Modify, children, sorting, Sorts
<1>13. Types /\ SortInv'
  <2> HIDE DEF Types, IInv, TypeOK, SortInv
  <2>1. CASE Message
    <3>1. CASE \E x \in Obj : Create(x) \/ Delete(x) \/ Lock(x)
      BY <3>1, <1>2
    <3>2. CASE \E x, y \in Obj : Retype(x, y)
      BY <3>2, <1>3
    <3>3. CASE \E slaves, masters \in SUBSET Name, mmap, smap \in Map :
                 SyncCreate(slaves, masters, mmap, smap)
      BY <3>3, <1>4
    <3>4. CASE \E slaves, masters \in SUBSET Name, mmap \in Map :
                 SyncDelete(slaves, masters, mmap)
      BY <3>4, <1>5
    <3>5. CASE \E slaves \in SUBSET Name : SyncDeleteAll(slaves)
      BY <3>5, <1>6
    <3>6. CASE Modify
      BY <3>6, <1>12
    <3>7. QED
      BY <2>1, <3>1, <3>2, <3>3, <3>4, <3>5, <3>6 DEF Message
  <2>2. CASE Handler
    BY <2>2, <1>7 DEF Handler
  <2>3. CASE Frame
    BY <2>3, <1>8, <1>9, <1>10, <1>11 DEF Frame
  <2>4. QED
    BY <1>1, <2>1, <2>2, <2>3 DEF Next
<1>14. QED
  BY <1>13 DEF GraphInv

\* The invariant, whatever is assumed of the progress of a frame.
LEMMA SafeInvariance == SafeSpec => []IInv
<1>1. Init => IInv
  <2>1. Init => TypeOK /\ SortInv
    BY GraphInit DEF Init, TypeOK, SortInv, Sorts, GraphInv
  <2>2. QED
    BY <2>1, GraphInit DEF IInv
<1>2. IInv /\ [Next]_vars => IInv'
  BY GraphStep, RestStep DEF IInv
<1>3. QED
  BY <1>1, <1>2, PTL DEF SafeSpec

THEOREM Invariance == Spec => []IInv
BY SafeInvariance, PTL DEF Spec

-----------------------------------------------------------------------------
\* The variables keep their types; in particular no count of fMasters2Slaves gets
\* negative: ISync::remove never erases the end of a vector.
THEOREM TypeCorrect == Spec => []TypeOK
BY Invariance, PTL DEF IInv

\* No sequence of messages makes a loop of relations.
THEOREM NoLoop == Spec => []Acyclic
<1>1. IInv => Acyclic
  BY DEF IInv, GraphInv
<1>2. QED
  BY <1>1, Invariance, PTL

\* The two maps of ISync always describe the same relations.
THEOREM MapsAlwaysAgree == Spec => []MapsAgree
<1>1. IInv => MapsAgree
  BY DEF IInv, GraphInv
<1>2. QED
  BY <1>1, Invariance, PTL

\* When no relation is dangling, a sort that is not finished finds an object that is ready.
\* With a dangling one, which cleanups may leave, nothing is claimed.
THEOREM SortsProgress == Spec => []SortProgress
<1>1. ASSUME IInv PROVE SortProgress
  <2> SUFFICES ASSUME phase \in Sorts, in # {}, NoDangling
               PROVE  Ready # {}
    BY DEF SortProgress
  <2>1. in \in SUBSET Obj /\ elements = in \union out
    BY <1>1 DEF IInv, TypeOK, SortInv
  <2>2. CASE phase = "view"
    <3>1. PICK x \in in : \A y \in in : ~Slaved(x, y)
      BY <1>1, <2>1 DEF IInv, GraphInv, Acyclic
    <3>2. getMasterObjects(x) \subseteq out
      <4>1. \A m \in getMasterObjects(x) : m \in Obj
        BY <1>1, <2>1 DEF getMasterObjects, IInv, TypeOK, Masters
      <4>2. QED
        BY <2>1, <3>1, <4>1 DEF NoDangling, Slaved
    <3>3. QED
      BY <2>2, <3>2 DEF Ready
  <2>3. CASE phase # "view"
    <3>1. PICK y \in in : \A x \in in : ~Slaved(x, y)
      BY <1>1, <2>1 DEF IInv, GraphInv, AcyclicUp
    <3>2. \A s \in Obj : fMasters2Slaves[y][s] > 0 => Slaved(s, y)
      <4> SUFFICES ASSUME NEW s \in Obj, fMasters2Slaves[y][s] > 0
                   PROVE  Slaved(s, y)
        OBVIOUS
      <4>1. Cardinality(Entries(fSlaves2Masters[s], y)) # 0
        BY <1>1, <2>1 DEF IInv, GraphInv, MapsAgree
      <4>2. Entries(fSlaves2Masters[s], y) # {}
        BY <4>1, FS_EmptySet
      <4>3. QED
        BY <4>2 DEF Entries, Slaved, getMasterObjects
    <3>3. getSlaves(y) \subseteq out
      BY <2>1, <3>1, <3>2 DEF getSlaves, NoDangling
    <3>4. QED
      BY <2>3, <3>3 DEF Ready
  <2>4. QED
    BY <2>2, <2>3
<1>2. QED
  BY <1>1, Invariance, PTL

-----------------------------------------------------------------------------
\* A call of ISync::sync that the handler has still to make has no relation yet.
Fresh(c) ==
  \A r \in fSlaves2Masters[c.slave] :
    ~(r.master = c.master /\ r.mmap = c.mmap /\ r.smap = c.smap)

TwinInv == NoTwin /\ \A c \in work : c.call = "sync" => Fresh(c)

\* Removing relations makes no twin.
LEMMA DropTwin ==
  ASSUME NoTwin, DropAny
  PROVE  NoTwin'
<1>1. PICK gone : Drop(gone)
  BY DEF DropAny
<1>2. \A s \in Obj : fSlaves2Masters'[s] \subseteq fSlaves2Masters[s]
  BY <1>1 DEF Drop
<1>3. QED
  BY <1>2 DEF NoTwin

\* ISync::sync makes no twin, and leaves the other calls fresh.
LEMMA SyncTwin ==
  ASSUME TypeOK, TwinInv, NEW c \in work, sync(c)
  PROVE  TwinInv'
<1>1. CASE UNCHANGED graph
  BY <1>1 DEF sync, graph, TwinInv, NoTwin, Fresh
<1>2. CASE ~UNCHANGED graph
  <2>1. c.slave \in Obj
    BY DEF TypeOK, Calls
  <2>2. PICK k : fSlaves2Masters' = [fSlaves2Masters EXCEPT ![c.slave] = @ \union
          {[master |-> c.master, mmap |-> c.mmap, smap |-> c.smap, rank |-> k]}]
    BY <1>2 DEF sync
  <2> DEFINE new == [master |-> c.master, mmap |-> c.mmap, smap |-> c.smap, rank |-> k]
  <2>3. /\ new.master = c.master /\ new.mmap = c.mmap /\ new.smap = c.smap
        /\ \A n : [new EXCEPT !.rank = n]
                    = [master |-> c.master, mmap |-> c.mmap, smap |-> c.smap, rank |-> n]
    OBVIOUS
  <2>4. \A s \in Obj : fSlaves2Masters'[s] =
          IF s = c.slave THEN fSlaves2Masters[s] \union {new} ELSE fSlaves2Masters[s]
    BY <2>1, <2>2 DEF TypeOK
  <2>5. /\ work' = work \ {c} /\ c.call = "sync" /\ Fresh(c)
    BY DEF sync, TwinInv
  <2>6. \A d \in work' : d.call = "sync" =>
          ~(d.slave = c.slave /\ d.master = c.master /\ d.mmap = c.mmap /\ d.smap = c.smap)
    BY <2>5 DEF TypeOK, Calls
  <2>7. \A d \in work' : d.call = "sync" => Fresh(d)'
    <3> SUFFICES ASSUME NEW d \in work', d.call = "sync"
                 PROVE  Fresh(d)'
      OBVIOUS
    <3>1. d \in work /\ d.slave \in Obj /\ Fresh(d)
      BY <2>5 DEF TypeOK, Calls, TwinInv
    <3>2. \A r \in fSlaves2Masters'[d.slave] :
            ~(r.master = d.master /\ r.mmap = d.mmap /\ r.smap = d.smap)
      <4> SUFFICES ASSUME NEW r \in fSlaves2Masters'[d.slave]
                   PROVE  ~(r.master = d.master /\ r.mmap = d.mmap /\ r.smap = d.smap)
        OBVIOUS
      <4>1. CASE r \in fSlaves2Masters[d.slave]
        BY <3>1, <4>1 DEF Fresh
      <4>2. CASE d.slave = c.slave /\ r = new
        BY <2>3, <2>6, <4>2
      <4>3. QED
        BY <2>4, <3>1, <4>1, <4>2
    <3>3. QED
      BY <3>2 DEF Fresh
  <2>8. NoTwin'
    <3> SUFFICES ASSUME NEW s \in Obj, NEW q \in fSlaves2Masters'[s],
                        NEW r \in fSlaves2Masters'[s], [q EXCEPT !.rank = r.rank] = r
                 PROVE  q = r
      BY DEF NoTwin
    <3>1. ASSUME NEW p \in Masters, p \in fSlaves2Masters[c.slave]
          PROVE  [p EXCEPT !.rank = new.rank] # new /\ [new EXCEPT !.rank = p.rank] # p
      <4>1. ~(p.master = c.master /\ p.mmap = c.mmap /\ p.smap = c.smap)
        BY <2>5, <3>1 DEF Fresh
      <4>2. /\ [p EXCEPT !.rank = new.rank].master = p.master
            /\ [p EXCEPT !.rank = new.rank].mmap = p.mmap
            /\ [p EXCEPT !.rank = new.rank].smap = p.smap
        BY DEF Masters
      <4>3. QED
        BY <2>3, <4>1, <4>2
    <3>2. CASE q \in fSlaves2Masters[s] /\ r \in fSlaves2Masters[s]
      BY <3>2 DEF TwinInv, NoTwin
    <3>3. CASE s = c.slave /\ ~(q \in fSlaves2Masters[s] /\ r \in fSlaves2Masters[s])
      <4>1. fSlaves2Masters[s] \subseteq Masters
        BY DEF TypeOK
      <4>2. /\ q = new \/ q \in fSlaves2Masters[s]
            /\ r = new \/ r \in fSlaves2Masters[s]
        BY <2>4, <3>3
      <4>3. QED
        BY <3>1, <3>3, <4>1, <4>2
    <3>4. QED
      BY <2>4, <3>2, <3>3
  <2>9. QED
    BY <2>7, <2>8 DEF TwinInv
<1>3. QED
  BY <1>1, <1>2

\* A sync message to two objects that have a relation never makes its twin.
LEMMA SafeNoTwins == SafeSpec => []NoTwin
<1>1. Init => TwinInv
  BY DEF Init, TwinInv, NoTwin
<1>2. TypeOK /\ TwinInv /\ [Next]_vars => TwinInv'
  <2> SUFFICES ASSUME TypeOK, TwinInv, [Next]_vars
               PROVE  TwinInv'
    OBVIOUS
  <2>1. ASSUME DropAny, work' = {}
        PROVE  TwinInv'
    BY <2>1, DropTwin DEF TwinInv
  <2>2. ASSUME UNCHANGED graph, work' \subseteq work
        PROVE  TwinInv'
    BY <2>2 DEF graph, TwinInv, NoTwin, Fresh
  <2>3. CASE UNCHANGED vars
    BY <2>2, <2>3 DEF vars, graph
  <2>4. CASE \E x \in Obj : Create(x) \/ Delete(x) \/ Lock(x)
    BY <2>2, <2>4 DEF Create, Delete, Lock, graph
  <2>5. CASE \E x, y \in Obj : Retype(x, y)
    <3>1. work' = {}
      BY <2>5 DEF Retype, Handling
    <3>2. DropAny
      BY <2>5, RemovalsAreDrops DEF Retype
    <3>3. QED
      BY <2>1, <3>1, <3>2
  <2>6. ASSUME NEW slaves, NEW masters, NEW mmap, NEW smap,
               SyncCreate(slaves, masters, mmap, smap)
        PROVE  TwinInv'
    <3>1. NoTwin'
      BY <2>6 DEF SyncCreate, graph, TwinInv, NoTwin
    <3>2. ASSUME NEW c \in work', c.call = "sync"
          PROVE  Fresh(c)'
      <4>1. /\ c.mmap = mmap /\ c.smap = smap
            /\ Existing(c.slave, masters, mmap, smap) = {}
            /\ c.master \in Matched(masters)
        BY <2>6, <3>2 DEF SyncCreate
      <4>2. Fresh(c)
        BY <4>1 DEF Existing, getMasters, Matched, Fresh
      <4>3. QED
        BY <2>6, <4>2 DEF SyncCreate, graph, Fresh
    <3>3. QED
      BY <3>1, <3>2 DEF TwinInv
  <2>7. CASE \E slaves, masters \in SUBSET Name, mmap \in Map :
               SyncDelete(slaves, masters, mmap)
    <3>1. work' = {}
      BY <2>7 DEF SyncDelete, Handling
    <3>2. DropAny
      BY <2>7, RemovalsAreDrops
    <3>3. QED
      BY <2>1, <3>1, <3>2
  <2>8. CASE \E slaves \in SUBSET Name : SyncDeleteAll(slaves)
    BY <2>1, <2>8, RemovalsAreDrops DEF SyncDeleteAll, Handling
  <2>9. ASSUME NEW c \in work, sync(c)
        PROVE  TwinInv'
    BY <2>9, SyncTwin
  <2>10. ASSUME NEW c \in work, setSyncOptions(c)
         PROVE  TwinInv'
    BY <2>2, <2>10 DEF setSyncOptions
  <2>11. CASE FrameStart \/ SortPass \/ SortEnd
    BY <2>2, <2>11 DEF FrameStart, SortPass, SortEnd
  <2>12. CASE Cleanup
    <3>1. NoTwin'
      BY <2>12, RemovalsAreDrops, DropTwin DEF Cleanup, TwinInv
    <3>2. \A c \in work : c.call = "sync" => Fresh(c)'
      <4>1. \A s \in Obj : fSlaves2Masters'[s] \subseteq fSlaves2Masters[s]
        BY <2>12 DEF Cleanup, CleanupRelations, Drop
      <4>2. \A c \in work : c.slave \in Obj
        BY DEF TypeOK, Calls
      <4>3. QED
        BY <4>1, <4>2 DEF TwinInv, Fresh
    <3>3. QED
      BY <2>12, <3>1, <3>2 DEF Cleanup, TwinInv
  <2>13. CASE Modify
    BY <2>2, <2>13 DEF Modify
  <2>14. QED
    BY <2>3, <2>4, <2>5, <2>6, <2>7, <2>8, <2>9, <2>10, <2>11, <2>12, <2>13
       DEF Next, Message, Handler, Frame
<1>3. TwinInv => NoTwin
  BY DEF TwinInv
<1>4. IInv => TypeOK
  BY DEF IInv
<1>5. QED
  BY <1>1, <1>2, <1>3, <1>4, SafeInvariance, PTL DEF SafeSpec


-----------------------------------------------------------------------------
\* Two objects never have two relations with the same mappings.
THEOREM NoTwins == Spec => []NoTwin
BY SafeNoTwins, PTL DEF Spec

-----------------------------------------------------------------------------
\* Only a message to the sync node removes a relation between two live objects.
LEMMA SafeRelationsKept == SafeSpec => RelationsKept
<1> DEFINE Kept == \A s \in Obj : \A r \in fSlaves2Masters[s] :
              {s, r.master} \subseteq Live \intersect Live' /\ r \notin fSlaves2Masters'[s]
                => UNCHANGED <<children, phase>>
<1>1. ASSUME TypeOK, Next
      PROVE  Kept
  <2>1. ASSUME fSlaves2Masters' = fSlaves2Masters PROVE Kept
    BY <2>1
  <2>2. ASSUME UNCHANGED <<children, phase>> PROVE Kept
    BY <2>2
  <2>3. ASSUME NEW D, CleanupRelations(D), D \intersect (Live \intersect Live') = {}
        PROVE  Kept
    BY <2>3 DEF CleanupRelations, Drop, Removable, Erased, Dead
  <2>4. CASE \E x, y \in Obj : Retype(x, y)
    BY <2>3, <2>4 DEF Retype, Live
  <2>5. CASE Cleanup
    BY <2>3, <2>5 DEF Cleanup, Live
  <2>6. CASE \E x \in Obj : Create(x) \/ Delete(x) \/ Lock(x)
    BY <2>1, <2>6 DEF Create, Delete, Lock, graph
  <2>7. CASE \E slaves, masters \in SUBSET Name, mmap \in Map :
               \/ \E smap \in Map : SyncCreate(slaves, masters, mmap, smap)
               \/ SyncDelete(slaves, masters, mmap)
    <3>1. UNCHANGED <<children, phase>>
      BY <2>7 DEF SyncCreate, SyncDelete
    <3>2. QED
      BY <2>2, <3>1
  <2>8. CASE \E slaves \in SUBSET Name : SyncDeleteAll(slaves)
    BY <2>2, <2>8 DEF SyncDeleteAll
  <2>9. CASE Handler
    <3>1. UNCHANGED <<children, phase>>
      BY <2>9 DEF Handler, sync, setSyncOptions
    <3>2. QED
      BY <2>2, <3>1
  <2>10. CASE FrameStart \/ SortPass \/ SortEnd
    BY <2>1, <2>10 DEF FrameStart, SortPass, SortEnd, graph
  <2>11. CASE Modify
    BY <2>1, <2>11 DEF Modify, graph
  <2>12. QED
    BY <1>1, <2>4, <2>5, <2>6, <2>7, <2>8, <2>9, <2>10, <2>11 DEF Next, Message, Frame
<1>2. TypeOK /\ [Next]_vars => [Kept]_vars
  BY <1>1
<1>3. IInv => TypeOK
  BY DEF IInv
<1>4. QED
  BY <1>2, <1>3, SafeInvariance, PTL DEF SafeSpec, RelationsKept

THEOREM LiveRelationsKept == Spec => RelationsKept
BY SafeRelationsKept, PTL DEF Spec

-----------------------------------------------------------------------------
(* The walk of checkLoop.                                                  *)

\* checkLoop satisfies the equation of its walk.
LEMMA CheckLoopStep ==
  ASSUME GraphInv, NEW s \in Obj, NEW x \in Obj
  PROVE  checkLoop(s, x) <=>
           /\ hasMaster(x)
           /\ \/ getRelation(s, x) = "kMaster"
              \/ \E r \in fSlaves2Masters[x] : checkLoop(s, r.master)
<1> DEFINE Met(y) == hasMaster(y) /\ getRelation(s, y) = "kMaster"
           Unmet == {C \in SUBSET Obj : MasterClosed(C) /\ \A y \in C : ~Met(y)}
<1>1. \A y \in Obj : checkLoop(s, y) <=> \A C \in Unmet : y \notin C
  BY Zenon DEF checkLoop
<1>2. \A r \in fSlaves2Masters[x] : r.master \in Obj /\ r.master \in getMasterObjects(x)
  BY DEF GraphInv, Masters, getMasterObjects
<1>3. ASSUME ~checkLoop(s, x)
      PROVE  /\ ~Met(x)
             /\ \A r \in fSlaves2Masters[x] : ~checkLoop(s, r.master)
  <2>1. PICK C \in Unmet : x \in C
    BY <1>1, <1>3
  <2>2. \A r \in fSlaves2Masters[x] : r.master \in C
    BY <1>2, <2>1 DEF MasterClosed
  <2> QED
    BY <1>1, <1>2, <2>1, <2>2
<1>4. ASSUME ~Met(x),
             hasMaster(x) => \A r \in fSlaves2Masters[x] : ~checkLoop(s, r.master)
      PROVE  ~checkLoop(s, x)
  <2> DEFINE C == {x} \union UNION Unmet
  <2>1. C \in SUBSET Obj
    OBVIOUS
  <2>2. \A y \in UNION Unmet : getMasterObjects(y) \subseteq UNION Unmet /\ ~Met(y)
    BY DEF MasterClosed
  <2>3. getMasterObjects(x) \subseteq UNION Unmet
    <3> SUFFICES ASSUME NEW r \in fSlaves2Masters[x] PROVE r.master \in UNION Unmet
      BY DEF getMasterObjects
    <3>1. ~checkLoop(s, r.master)
      BY <1>4 DEF hasMaster
    <3> QED
      BY <1>1, <1>2, <3>1
  <2>4. C \in Unmet
    BY <1>4, <2>1, <2>2, <2>3 DEF MasterClosed
  <2> QED
    BY <1>1, <2>4
<1> QED
  BY <1>3, <1>4

\* The relations have no loop: the equation of the walk has one solution.
LEMMA WalkAgrees ==
  ASSUME GraphInv, NEW s \in Obj
  PROVE  \A x \in Obj : checkLoop(s, x) <=> walk(s)[x]
<1> DEFINE Body(f) ==
             [x \in Obj |-> /\ hasMaster(x)
                            /\ \/ getRelation(s, x) = "kMaster"
                               \/ \E r \in fSlaves2Masters[x] : f[r.master]]
           g == [x \in Obj |-> checkLoop(s, x)]
           w == walk(s)
<1>1. \A x \in Obj : \A r \in fSlaves2Masters[x] : r.master \in Obj /\ Slaved(x, r.master)
  BY DEF GraphInv, Masters, getMasterObjects, Slaved
<1>2. g = Body(g)
  <2>1. ASSUME NEW x \in Obj PROVE g[x] = Body(g)[x]
    <3>1. \A r \in fSlaves2Masters[x] : g[r.master] <=> checkLoop(s, r.master)
      BY <1>1, Zenon
    <3>2. Body(g)[x] <=> checkLoop(s, x)
      BY <3>1, CheckLoopStep, Zenon
    <3>3. Body(g)[x] \in BOOLEAN /\ g[x] \in BOOLEAN
      BY Zenon DEF checkLoop
    <3> QED
      BY <3>2, <3>3, Zenon
  <2> QED
    BY <2>1, Zenon
<1>3. w = Body(w)
  <2>1. w = CHOOSE f : f = Body(f)
    BY Zenon DEF walk
  <2> HIDE DEF w, g, Body
  <2> QED
    BY <1>2, <2>1
<1>4. SUFFICES ASSUME NEW z \in Obj, ~(checkLoop(s, z) <=> w[z]) PROVE FALSE
  OBVIOUS
<1> HIDE DEF w
<1> DEFINE D == {x \in Obj : ~(checkLoop(s, x) <=> w[x])}
<1>5. PICK x \in D : \A y \in D : ~Slaved(x, y)
  BY <1>4 DEF GraphInv, Acyclic
<1>6. \A r \in fSlaves2Masters[x] : checkLoop(s, r.master) <=> w[r.master]
  BY <1>1, <1>5
<1>7. w[x] <=> /\ hasMaster(x)
               /\ \/ getRelation(s, x) = "kMaster"
                  \/ \E r \in fSlaves2Masters[x] : w[r.master]
  BY <1>3, <1>5, Zenon
<1> QED
  BY <1>5, <1>6, <1>7, CheckLoopStep, Zenon

-----------------------------------------------------------------------------
(* The loop of cleanup.                                                    *)

\* Erasing the element between two parts of a list.
LEMMA EraseBetween ==
  ASSUME NEW T, NEW x \in Seq(T), NEW e \in T, NEW y \in Seq(T), NEW now,
         now = Cat(x, Cat(<<e>>, y))
  PROVE  /\ Len(now) = Len(x) + 1 + Len(y)
         /\ now[Len(x) + 1] = e
         /\ erase(now, Len(x) + 1) = Cat(x, y)
<1> DEFINE u == <<e>>
           w == Cat(u, y)
           n == Len(x)
<1>1. u \in Seq(T) /\ Len(u) = 1 /\ u[1] = e /\ n \in Nat /\ Len(y) \in Nat
  OBVIOUS
<1> HIDE DEF u
<1>2. /\ w \in Seq(T) /\ Len(w) = 1 + Len(y)
      /\ \A i \in 1..1 + Len(y) : w[i] = IF i <= 1 THEN u[i] ELSE y[i - 1]
  BY <1>1, CatType, CatIndex
<1> HIDE DEF w
<1>3. /\ now \in Seq(T) /\ Len(now) = n + Len(w)
      /\ \A i \in 1..n + Len(w) : now[i] = IF i <= n THEN x[i] ELSE w[i - n]
  BY <1>2, CatType, CatIndex DEF w, u
<1> HIDE DEF n
<1>4. Len(now) = n + 1 + Len(y) /\ now[n + 1] = e
  <2>1. Len(now) = n + 1 + Len(y)
    BY <1>1, <1>2, <1>3
  <2>2. n + 1 \in 1..n + Len(w) /\ ~(n + 1 <= n) /\ (n + 1) - n = 1 /\ 1 \in 1..1 + Len(y)
    BY <1>1, <1>2
  <2>3. now[n + 1] = w[1] /\ w[1] = u[1]
    BY <1>2, <1>3, <2>2
  <2> QED
    BY <1>1, <2>1, <2>3
<1>5. SubSeq(now, 1, n) = x
  <2> DEFINE a == SubSeq(now, 1, n)
  <2>1. a \in Seq(T) /\ Len(a) = n /\ \A i \in 1..n : a[i] = now[i]
    BY <1>1, <1>3, <1>4
  <2>2. ASSUME NEW i \in 1..n PROVE now[i] = x[i]
    <3>1. i \in 1..n + Len(w) /\ i <= n
      BY <1>1, <1>2
    <3> QED
      BY <1>3, <3>1
  <2>3. Len(x) = n
    BY DEF n
  <2> HIDE DEF a
  <2>4. a = x
    BY <2>1, <2>2, <2>3, SeqEqual
  <2> QED
    BY <2>4 DEF a
<1>6. SubSeq(now, n + 2, Len(now)) = y
  <2> DEFINE b == SubSeq(now, n + 2, Len(now))
  <2>1. b \in Seq(T) /\ Len(b) = Len(y) /\ \A i \in 1..Len(y) : b[i] = now[n + 1 + i]
    <3>1. n + 2 \in 1..Len(now) + 1 /\ Len(now) - (n + 2) + 1 = Len(y)
      BY <1>1, <1>4
    <3>2. \A i \in 1..Len(y) : (n + 2) - 1 + i = n + 1 + i
      BY <1>1
    <3>3. /\ b \in Seq(T) /\ Len(b) = Len(now) - (n + 2) + 1
          /\ \A i \in 1..Len(now) - (n + 2) + 1 : b[i] = now[(n + 2) - 1 + i]
      BY <1>3, <3>1, TailIndex, Zenon
    <3> HIDE DEF b
    <3> QED
      BY <3>1, <3>2, <3>3
  <2>2. ASSUME NEW i \in 1..Len(y) PROVE now[n + 1 + i] = y[i]
    <3>1. n + 1 + i \in 1..n + Len(w) /\ ~(n + 1 + i <= n) /\ (n + 1 + i) - n = i + 1
      BY <1>1, <1>2
    <3>2. i + 1 \in 1..1 + Len(y) /\ ~(i + 1 <= 1) /\ (i + 1) - 1 = i
      BY <1>1
    <3> QED
      BY <1>2, <1>3, <3>1, <3>2
  <2> HIDE DEF b
  <2>3. b = y
    BY <2>1, <2>2, SeqEqual
  <2> QED
    BY <2>3 DEF b
<1>7. (n + 1) - 1 = n /\ (n + 1) + 1 = n + 2
  BY <1>1
<1> QED
  BY <1>4, <1>5, <1>6, <1>7 DEF erase, Cat, n

\* A turn of the loop of cleanup.
Turn(now, j) == IF j <= Len(now) /\ now[j].master \in deleted THEN erase(now, j) ELSE now

\* The loop, turn by turn.
LEMMA CleanupTurns ==
  ASSUME NEW T, NEW v \in Seq(T)
  PROVE  \E f : /\ f[0] = v
                /\ \A j \in 1..Len(v) : f[j] = Turn(f[j - 1], j)
                /\ cleanupLoop(v) = f[Len(v)]
<1> DEFINE n == Len(v)
           Body(f, j) == IF j = 0 THEN v ELSE Turn(f[j - 1], j)
           step == [j \in 1..n |-> [s \in Seq(T) |-> Turn(s, j)]]
           after == CHOOSE f : f = [j \in 0..n |-> Body(f, j)]
<1>1. n \in Nat
  OBVIOUS
<1>2. ASSUME NEW j \in 1..n, NEW s \in Seq(T) PROVE Turn(s, j) \in Seq(T)
  <2>1. CASE j <= Len(s)
    <3>1. SubSeq(s, 1, j - 1) \in Seq(T) /\ SubSeq(s, j + 1, Len(s)) \in Seq(T)
      BY <1>1, <2>1
    <3>2. erase(s, j) \in Seq(T)
      BY <3>1, ElemsConcat DEF erase
    <3> QED
      BY <3>2 DEF Turn
  <2> QED
    BY <2>1 DEF Turn
<1>3. step \in [1..n -> [Seq(T) -> Seq(T)]]
  BY <1>2
<1>4. \A j \in 1..n, s \in Seq(T) : step[j][s] = Turn(s, j)
  OBVIOUS
<1>5. cleanupLoop(v) = after[n]
  BY Zenon DEF cleanupLoop, Turn
<1> HIDE DEF step, n, after
<1>6. PICK g \in [0..n -> Seq(T)] :
        g[0] = v /\ \A j \in 1..n : g[j] = step[j][g[j - 1]]
  <2> DEFINE lists == Seq(T)
  <2>1. v \in lists
    OBVIOUS
  <2>2. n \in Nat /\ \A j \in 1..n : \A s \in lists : step[j][s] \in lists
    BY <1>1, <1>3
  <2> HIDE DEF lists
  <2>3. \E g \in [0..n -> lists] : Iterates(g, n, v, step)
    BY <2>1, <2>2, Recursion
  <2> QED
    BY <2>3 DEF lists, Iterates
<1>7. \A j \in 1..n : j - 1 \in 0..n /\ j \in 0..n /\ j # 0
  BY <1>1
<1>8. \A j \in 1..n : g[j] = Turn(g[j - 1], j)
  BY <1>4, <1>6, <1>7
<1>9. g = [j \in 0..n |-> Body(g, j)]
  <2>1. ASSUME NEW j \in 0..n PROVE g[j] = Body(g, j)
    <3>1. CASE j = 0
      BY <1>6, <3>1
    <3>2. CASE j # 0
      <4>1. j \in 1..n
        BY <1>1, <3>2
      <4> QED
        BY <1>8, <3>2, <4>1
    <3> QED
      BY <3>1, <3>2
  <2> HIDE DEF Body
  <2> QED
    BY <2>1
<1>10. after = [j \in 0..n |-> Body(after, j)]
  BY <1>9 DEF after
<1>11. \A j \in 0..n : after[j] = Body(after, j)
  <2> HIDE DEF Body
  <2> QED
    BY <1>10
<1>12. after[0] = v
  BY <1>1, <1>11
<1>13. \A j \in 1..n : after[j] = Turn(after[j - 1], j)
  BY <1>7, <1>11
<1> QED
  BY <1>5, <1>12, <1>13 DEF n

\* When each record is kept that is alive or comes right after an erased one, the
\* loop of cleanup leaves the records that are kept.
LEMMA CleanupLoop ==
  ASSUME NEW T, NEW v \in Seq(T), NEW K,
         \A i \in 1..Len(v) :
           v[i] \in K <=> v[i].master \notin deleted \/ (i > 1 /\ v[i - 1] \notin K)
  PROVE  cleanupLoop(v) = Pick(v, K)
<1> DEFINE n == Len(v)
           kept(p) == Pick(SubSeq(v, 1, p), K)
           rest(p) == SubSeq(v, p + 1, n)
<1>1. n \in Nat
  OBVIOUS
<1>2. PICK f : f[0] = v /\ (\A j \in 1..n : f[j] = Turn(f[j - 1], j)) /\ cleanupLoop(v) = f[n]
  BY CleanupTurns
<1>3. ASSUME NEW p \in 0..n
      PROVE  kept(p) \in Seq(T) /\ Len(kept(p)) \in Nat /\ rest(p) \in Seq(T)
  <2>1. SubSeq(v, 1, p) \in Seq(T) /\ rest(p) \in Seq(T)
    BY Split
  <2>2. kept(p) \in Seq(T)
    BY <2>1, PickType
  <2> HIDE DEF kept
  <2> QED
    BY <2>1, <2>2
<1>4. ASSUME NEW p \in 0..n - 1
      PROVE  /\ v[p + 1] \in T
             /\ kept(p + 1) = IF v[p + 1] \in K THEN Append(kept(p), v[p + 1]) ELSE kept(p)
             /\ rest(p) = Cat(<<v[p + 1]>>, rest(p + 1))
  <2>1. /\ v[p + 1] \in T /\ SubSeq(v, 1, p) \in Seq(T)
        /\ SubSeq(v, 1, p + 1) = Append(SubSeq(v, 1, p), v[p + 1])
        /\ rest(p) = Cat(<<v[p + 1]>>, SubSeq(v, p + 2, n))
    BY NextElement
  <2>2. p + 2 = (p + 1) + 1
    BY <1>1
  <2>3. kept(p + 1) = IF v[p + 1] \in K THEN Append(kept(p), v[p + 1]) ELSE kept(p)
    <3> DEFINE w == SubSeq(v, 1, p)
               e == v[p + 1]
    <3>1. w \in Seq(T) /\ e \in T /\ kept(p) = Pick(w, K) /\ kept(p + 1) = Pick(Append(w, e), K)
      BY <2>1
    <3> HIDE DEF w, e, kept
    <3>2. Pick(Append(w, e), K) = IF e \in K THEN Append(Pick(w, K), e) ELSE Pick(w, K)
      BY <3>1, PickAppend
    <3> QED
      BY <3>1, <3>2 DEF e
  <2> QED
    BY <2>1, <2>2, <2>3
<1>5. kept(0) = <<>> /\ rest(0) = v /\ kept(n) = Pick(v, K) /\ rest(n) = <<>>
  <2>1. SubSeq(v, 1, 0) = <<>> /\ rest(0) = v /\ SubSeq(v, 1, n) = v /\ rest(n) = <<>>
    BY <1>1
  <2> QED
    BY <2>1, PickEmpty, Zenon
<1> HIDE DEF n, kept, rest
\* A record that is kept moves from the rest to what is kept.
<1>6. ASSUME NEW p \in 0..n - 1, v[p + 1] \in K
      PROVE  Cat(kept(p), rest(p)) = Cat(kept(p + 1), rest(p + 1)) /\ Len(kept(p + 1)) = Len(kept(p)) + 1
  <2> DEFINE e == v[p + 1]
             x == kept(p)
             y == rest(p + 1)
  <2>1. x \in Seq(T) /\ y \in Seq(T) /\ e \in T
    <3>1. p \in 0..n /\ p + 1 \in 0..n
      BY <1>1
    <3> QED
      BY <1>3, <1>4, <3>1
  <2>2. rest(p) = Cat(<<e>>, y) /\ kept(p + 1) = Append(x, e)
    BY <1>4, <1>6
  <2> HIDE DEF e, x, y
  <2>3. <<e>> \in Seq(T) /\ Append(x, e) = Cat(x, <<e>>) /\ Len(Append(x, e)) = Len(x) + 1
    BY <2>1, AppendIsConcat DEF Cat
  <2>4. Cat(x, Cat(<<e>>, y)) = Cat(Cat(x, <<e>>), y)
    <3> DEFINE u == <<e>>
    <3>1. u \in Seq(T)
      BY <2>3
    <3> HIDE DEF u
    <3>2. Cat(x, Cat(u, y)) = Cat(Cat(x, u), y)
      BY <2>1, <3>1, CatAssociative
    <3> QED
      BY <3>2 DEF u
  <2> QED
    BY <2>2, <2>3, <2>4 DEF e, x, y
<1> DEFINE Reached(j, p) ==
             /\ f[j] = Cat(kept(p), rest(p))
             /\ \/ p = n /\ Len(kept(p)) <= j
                \/ /\ j = Len(kept(p)) /\ j <= p
                   /\ p = 0 \/ v[p] \in K
           P == {j \in Nat : j <= n => \E p \in 0..n : Reached(j, p)}
<1>7. 0 \in P
  <2>1. Cat(kept(0), rest(0)) = v /\ Len(kept(0)) = 0 /\ 0 \in 0..n
    <3>1. Cat(<<>>, v) = v /\ Len(<<>>) = 0
      BY CatEmpty
    <3> QED
      BY <1>1, <1>5, <3>1
  <2> QED
    BY <1>2, <2>1
<1>8. ASSUME NEW j \in Nat, j \in P PROVE j + 1 \in P
  <2> SUFFICES ASSUME j + 1 <= n PROVE \E p \in 0..n : Reached(j + 1, p)
    OBVIOUS
  <2>1. PICK p \in 0..n : Reached(j, p)
    BY <1>1, <1>8
  <2>2. j + 1 \in 1..n /\ (j + 1) - 1 = j /\ j <= n
    BY <1>1
  <2>3. f[j + 1] = Turn(f[j], j + 1)
    BY <1>2, <2>2
  <2>4. CASE p = n /\ Len(kept(p)) <= j
    <3>1. kept(n) \in Seq(T) /\ Len(kept(n)) \in Nat /\ n \in 0..n
      BY <1>1, <1>3
    <3>2. f[j] = kept(n)
      <4>1. Cat(kept(n), <<>>) = kept(n)
        BY <3>1, CatEmpty
      <4> QED
        BY <1>5, <2>1, <2>4, <4>1
    <3>3. f[j + 1] = f[j] /\ Len(kept(p)) <= j + 1
      BY <2>3, <2>4, <3>1, <3>2 DEF Turn
    <3> QED
      BY <2>1, <2>4, <3>3
  <2>5. CASE p < n /\ j = Len(kept(p)) /\ j <= p /\ (p = 0 \/ v[p] \in K)
    <3>1. /\ p \in 0..n - 1 /\ p + 1 \in 1..n /\ p + 1 \in 0..n /\ p \in 0..n /\ (p + 1) - 1 = p
          /\ p + 1 > 1 <=> p # 0
      BY <1>1, <2>5
    <3>2. v[p + 1] \in K <=> v[p + 1].master \notin deleted
      BY <2>5, <3>1 DEF n
    <3>3. /\ kept(p) \in Seq(T) /\ kept(p + 1) \in Seq(T) /\ rest(p + 1) \in Seq(T)
          /\ v[p + 1] \in T /\ rest(p) = Cat(<<v[p + 1]>>, rest(p + 1))
          /\ Len(rest(p + 1)) \in Nat
      <4>1. rest(p + 1) \in Seq(T)
        BY <1>3, <3>1
      <4> QED
        BY <1>3, <1>4, <3>1, <4>1
    <3>4. /\ Len(f[j]) = j + 1 + Len(rest(p + 1))
          /\ f[j][j + 1] = v[p + 1]
          /\ erase(f[j], j + 1) = Cat(kept(p), rest(p + 1))
      <4>1. f[j] = Cat(kept(p), Cat(<<v[p + 1]>>, rest(p + 1)))
        BY <2>1, <3>3
      <4> DEFINE x == kept(p)
                 y == rest(p + 1)
                 e == v[p + 1]
                 now == f[j]
      <4>2. x \in Seq(T) /\ y \in Seq(T) /\ e \in T /\ now = Cat(x, Cat(<<e>>, y))
        BY <3>3, <4>1
      <4> HIDE DEF x, y, e, now
      <4>3. /\ Len(now) = Len(x) + 1 + Len(y)
            /\ now[Len(x) + 1] = e
            /\ erase(now, Len(x) + 1) = Cat(x, y)
        BY <4>2, EraseBetween
      <4> QED
        BY <2>5, <4>3 DEF x, y, e, now
    <3>5. j + 1 <= Len(f[j])
      BY <3>3, <3>4
    <3>6. CASE v[p + 1] \in K
      <4>1. f[j + 1] = Cat(kept(p), rest(p))
        BY <2>1, <2>3, <3>2, <3>4, <3>6 DEF Turn
      <4>2. Cat(kept(p), rest(p)) = Cat(kept(p + 1), rest(p + 1)) /\ Len(kept(p + 1)) = j + 1
        BY <1>6, <2>5, <3>1, <3>6
      <4>3. j + 1 <= p + 1
        BY <1>1, <2>5
      <4> QED
        BY <3>1, <3>6, <4>1, <4>2, <4>3
    <3>7. CASE v[p + 1] \notin K
      <4>1. kept(p + 1) = kept(p)
        BY <1>4, <3>1, <3>7
      <4>2. f[j + 1] = Cat(kept(p + 1), rest(p + 1))
        BY <2>3, <3>2, <3>4, <3>5, <3>7, <4>1 DEF Turn
      <4>3. CASE p + 1 = n
        <5>1. Len(kept(p + 1)) <= j + 1
          BY <2>5, <4>1
        <5> QED
          BY <3>1, <4>2, <4>3, <5>1
      <4>4. CASE p + 1 # n
        <5>1. /\ p + 1 \in 0..n - 1 /\ p + 2 \in 1..n /\ p + 2 > 1 /\ (p + 2) - 1 = p + 1
              /\ (p + 1) + 1 = p + 2 /\ p + 2 \in 0..n /\ j + 1 <= p + 2
          BY <1>1, <2>5, <3>1, <4>4
        <5>2. v[p + 2] \in K
          BY <3>7, <5>1 DEF n
        <5>3. /\ Cat(kept(p + 1), rest(p + 1)) = Cat(kept(p + 2), rest(p + 2))
              /\ Len(kept(p + 2)) = j + 1
          BY <1>6, <2>5, <4>1, <5>1, <5>2
        <5> QED
          BY <4>2, <5>1, <5>2, <5>3
      <4> QED
        BY <4>3, <4>4
    <3> QED
      BY <3>6, <3>7
  <2>6. p < n \/ p = n
    BY <1>1
  <2>7. (j = Len(kept(p)) /\ j <= p /\ p = n) => Len(kept(p)) <= j
    BY <1>1
  <2> QED
    BY <2>1, <2>4, <2>5, <2>6, <2>7
<1>9. \E p \in 0..n : Reached(n, p)
  <2>1. Nat \subseteq P
    <3> HIDE DEF P
    <3> QED
      BY <1>7, <1>8, Induction
  <2> QED
    BY <1>1, <2>1
<1>10. f[n] = Cat(kept(n), rest(n))
  <2>1. PICK p \in 0..n : Reached(n, p)
    BY <1>9
  <2>2. p = n
    BY <1>1, <2>1
  <2> QED
    BY <2>1, <2>2
<1> QED
  <2>1. kept(n) \in Seq(T)
    BY <1>1, <1>3
  <2>2. Cat(kept(n), <<>>) = kept(n)
    BY <2>1, CatEmpty
  <2> QED
    BY <1>2, <1>5, <1>10, <2>2

-----------------------------------------------------------------------------
(* The vector of the masters of a slave.                                   *)

\* Two records of a vector have two ranks.
Ranked(rels) == \A q, r \in rels : q.rank = r.rank => q = r
RankInv == \A s \in Obj : Ranked(fSlaves2Masters[s])

\* The vector, rank by rank.
LEMMA VectorSteps ==
  ASSUME NEW S \in SUBSET Masters
  PROVE  \E f : /\ f[0] = <<>>
                /\ \A k \in 1..MaxRank :
                     f[k] = IF \E r \in S : r.rank = k
                            THEN Append(f[k - 1], CHOOSE r \in S : r.rank = k)
                            ELSE f[k - 1]
                /\ Vector(S) = f[MaxRank]
<1> DEFINE n == MaxRank
           At(k) == \E r \in S : r.rank = k
           Rec(k) == CHOOSE r \in S : r.rank = k
           Push(s, k) == IF At(k) THEN Append(s, Rec(k)) ELSE s
           Body(f, k) == IF k = 0 THEN <<>> ELSE IF At(k) THEN Append(f[k - 1], Rec(k)) ELSE f[k - 1]
           step == [k \in 1..n |-> [s \in Seq(S) |-> Push(s, k)]]
           pushed == CHOOSE f : f = [k \in 0..n |-> Body(f, k)]
<1>1. n \in Nat
  BY RankAssumption
<1>2. ASSUME NEW k \in 1..n, NEW s \in Seq(S) PROVE Push(s, k) \in Seq(S)
  <2>1. At(k) => Rec(k) \in S
    OBVIOUS
  <2> HIDE DEF At, Rec
  <2> QED
    BY <2>1
<1>3. step \in [1..n -> [Seq(S) -> Seq(S)]]
  BY <1>2
<1>4. \A k \in 1..n, s \in Seq(S) : step[k][s] = Push(s, k)
  OBVIOUS
<1>5. Vector(S) = pushed[n]
  BY Zenon DEF Vector
<1> HIDE DEF step, n, pushed, At, Rec
<1>6. PICK g \in [0..n -> Seq(S)] :
        g[0] = <<>> /\ \A k \in 1..n : g[k] = step[k][g[k - 1]]
  <2> DEFINE lists == Seq(S)
             none == <<>>
  <2>1. none \in lists
    OBVIOUS
  <2>2. n \in Nat /\ \A k \in 1..n : \A s \in lists : step[k][s] \in lists
    BY <1>1, <1>3
  <2> HIDE DEF lists, none
  <2>3. \E g \in [0..n -> lists] : Iterates(g, n, none, step)
    BY <2>1, <2>2, Recursion
  <2> QED
    BY <2>3 DEF lists, none, Iterates
<1>7. \A k \in 1..n : k - 1 \in 0..n /\ k \in 0..n /\ k # 0
  BY <1>1
<1>8. \A k \in 1..n : g[k] = Push(g[k - 1], k)
  BY <1>4, <1>6, <1>7
<1>9. g = [k \in 0..n |-> Body(g, k)]
  <2>1. ASSUME NEW k \in 0..n PROVE g[k] = Body(g, k)
    <3>1. CASE k = 0
      BY <1>6, <3>1
    <3>2. CASE k # 0
      <4>1. k \in 1..n
        BY <1>1, <3>2
      <4> QED
        BY <1>8, <3>2, <4>1
    <3> QED
      BY <3>1, <3>2
  <2> HIDE DEF Body
  <2> QED
    BY <2>1
<1>10. pushed = [k \in 0..n |-> Body(pushed, k)]
  BY <1>9 DEF pushed
<1>11. \A k \in 0..n : pushed[k] = Body(pushed, k)
  <2> HIDE DEF Body
  <2> QED
    BY <1>10
<1>12. pushed[0] = <<>>
  BY <1>1, <1>11
<1>13. \A k \in 1..n : pushed[k] = IF At(k) THEN Append(pushed[k - 1], Rec(k)) ELSE pushed[k - 1]
  BY <1>7, <1>11
<1> QED
  BY <1>5, <1>12, <1>13 DEF n, At, Rec

Increasing(v) == \A i, j \in 1..Len(v) : i < j => v[i].rank < v[j].rank

\* The vector has the records of the slave, in the order of their ranks.
LEMMA VectorSorted ==
  ASSUME NEW S \in SUBSET Masters, Ranked(S)
  PROVE  Vector(S) \in Seq(S) /\ Elems(Vector(S)) = S /\ Increasing(Vector(S))
<1> DEFINE n == MaxRank
           Upto(k) == {r \in S : r.rank <= k}
           Sorted(v, k) == v \in Seq(S) /\ Elems(v) = Upto(k) /\ Increasing(v)
<1>1. n \in Nat /\ \A r \in S : r.rank \in 1..n
  BY RankAssumption DEF Masters
<1>2. PICK f : /\ f[0] = <<>>
               /\ \A k \in 1..n :
                    f[k] = IF \E r \in S : r.rank = k
                           THEN Append(f[k - 1], CHOOSE r \in S : r.rank = k)
                           ELSE f[k - 1]
               /\ Vector(S) = f[n]
  BY VectorSteps
<1> HIDE DEF n
<1> DEFINE P == {k \in Nat : k <= n => Sorted(f[k], k)}
<1>3. 0 \in P
  <2>1. <<>> \in Seq(S) /\ Increasing(<<>>) /\ Elems(<<>>) = {} /\ Upto(0) = {}
    BY <1>1 DEF Increasing, Elems
  <2> QED
    BY <1>2, <2>1, Zenon
<1>4. ASSUME NEW k \in Nat, k \in P PROVE k + 1 \in P
  <2> SUFFICES ASSUME k + 1 <= n PROVE Sorted(f[k + 1], k + 1)
    OBVIOUS
  <2>1. Sorted(f[k], k)
    BY <1>1, <1>4
  <2>2. k + 1 \in 1..n /\ (k + 1) - 1 = k
    BY <1>1
  <2>3. CASE \E r \in S : r.rank = k + 1
    <3> DEFINE e == CHOOSE r \in S : r.rank = k + 1
               v == f[k]
    <3>1. e \in S /\ e.rank = k + 1
      BY <2>3
    <3>2. f[k + 1] = Append(v, e)
      BY <1>2, <2>2, <2>3
    <3> HIDE DEF e, v
    <3>3. v \in Seq(S) /\ Elems(v) = Upto(k) /\ Increasing(v)
      BY <2>1 DEF v
    <3>4. Append(v, e) \in Seq(S) /\ Elems(Append(v, e)) = Upto(k) \union {e}
      BY <3>1, <3>3, ElemsAppend
    <3>5. Upto(k + 1) = Upto(k) \union {e}
      BY <1>1, <3>1 DEF Ranked
    <3>6. Increasing(Append(v, e))
      <4> DEFINE w == Append(v, e)
      <4> SUFFICES ASSUME NEW i \in 1..Len(w), NEW j \in 1..Len(w), i < j
                   PROVE  w[i].rank < w[j].rank
        BY DEF Increasing
      <4>1. Len(v) \in Nat /\ Len(w) = Len(v) + 1 /\ w[Len(v) + 1] = e /\ \A m \in 1..Len(v) : w[m] = v[m]
        BY <3>1, <3>3
      <4> HIDE DEF w
      <4>2. i \in 1..Len(v) /\ w[i] = v[i]
        BY <4>1
      <4>3. CASE j \in 1..Len(v)
        BY <3>3, <4>1, <4>2, <4>3 DEF Increasing
      <4>4. CASE j \notin 1..Len(v)
        <5>1. j = Len(v) + 1 /\ w[j] = e
          BY <4>1, <4>4
        <5>2. v[i] \in Upto(k)
          BY <3>3, <4>2 DEF Elems
        <5> QED
          BY <1>1, <3>1, <4>2, <5>1, <5>2
      <4> QED
        BY <4>3, <4>4
    <3> QED
      BY <3>2, <3>4, <3>5, <3>6, Zenon
  <2>4. CASE ~\E r \in S : r.rank = k + 1
    <3>1. f[k + 1] = f[k]
      BY <1>2, <2>2, <2>4, Zenon
    <3>2. Upto(k + 1) = Upto(k)
      BY <1>1, <2>4
    <3> QED
      BY <2>1, <3>1, <3>2
  <2> QED
    BY <2>3, <2>4
<1>5. Sorted(f[n], n)
  <2>1. Nat \subseteq P
    <3> HIDE DEF P
    <3> QED
      BY <1>3, <1>4, Induction
  <2> QED
    BY <1>1, <2>1
<1>6. Upto(n) = S
  BY <1>1
<1> QED
  BY <1>2, <1>5, <1>6

\* The vector of some of the records is what they are in the vector of all.
LEMMA VectorPick ==
  ASSUME NEW S \in SUBSET Masters, Ranked(S), NEW R \in SUBSET S
  PROVE  Vector(R) = Pick(Vector(S), R)
<1> DEFINE n == MaxRank
           At(T, k) == \E r \in T : r.rank = k
           Rec(T, k) == CHOOSE r \in T : r.rank = k
<1>1. n \in Nat
  BY RankAssumption
<1>2. PICK f : /\ f[0] = <<>>
               /\ \A k \in 1..n : f[k] = IF At(S, k) THEN Append(f[k - 1], Rec(S, k)) ELSE f[k - 1]
               /\ Vector(S) = f[n]
  BY VectorSteps
<1>3. PICK g : /\ g[0] = <<>>
               /\ \A k \in 1..n : g[k] = IF At(R, k) THEN Append(g[k - 1], Rec(R, k)) ELSE g[k - 1]
               /\ Vector(R) = g[n]
  BY VectorSteps
<1>4. ASSUME NEW k \in 1..n
      PROVE  /\ At(S, k) => Rec(S, k) \in S
             /\ At(R, k) <=> At(S, k) /\ Rec(S, k) \in R
             /\ At(R, k) => Rec(R, k) = Rec(S, k)
  <2>1. At(S, k) => Rec(S, k) \in S /\ Rec(S, k).rank = k
    OBVIOUS
  <2>2. At(R, k) => Rec(R, k) \in R /\ Rec(R, k).rank = k
    OBVIOUS
  <2>3. \A r \in R : r.rank = k => At(S, k) /\ r = Rec(S, k)
    BY <2>1 DEF Ranked
  <2>4. At(S, k) /\ Rec(S, k) \in R => At(R, k)
    BY <2>1
  <2> HIDE DEF Rec
  <2> QED
    BY <2>1, <2>2, <2>3, <2>4
<1> HIDE DEF n, At, Rec
<1> DEFINE P == {k \in Nat : k <= n => f[k] \in Seq(S) /\ g[k] = Pick(f[k], R)}
<1>5. 0 \in P
  <2>1. <<>> \in Seq(S) /\ Pick(<<>>, R) = <<>>
    BY PickEmpty
  <2> QED
    BY <1>2, <1>3, <2>1, Zenon
<1>6. ASSUME NEW k \in Nat, k \in P PROVE k + 1 \in P
  <2> SUFFICES ASSUME k + 1 <= n PROVE f[k + 1] \in Seq(S) /\ g[k + 1] = Pick(f[k + 1], R)
    OBVIOUS
  <2>1. f[k] \in Seq(S) /\ g[k] = Pick(f[k], R)
    BY <1>1, <1>6
  <2>2. k + 1 \in 1..n /\ (k + 1) - 1 = k
    BY <1>1
  <2>3. /\ f[k + 1] = IF At(S, k + 1) THEN Append(f[k], Rec(S, k + 1)) ELSE f[k]
        /\ g[k + 1] = IF At(R, k + 1) THEN Append(g[k], Rec(R, k + 1)) ELSE g[k]
    BY <1>2, <1>3, <2>2
  <2>4. CASE At(S, k + 1)
    <3> DEFINE e == Rec(S, k + 1)
               v == f[k]
    <3>1. e \in S /\ (At(R, k + 1) <=> e \in R) /\ (At(R, k + 1) => Rec(R, k + 1) = e)
      BY <1>4, <2>2, <2>4
    <3>2. v \in Seq(S) /\ g[k] = Pick(v, R) /\ f[k + 1] = Append(v, e)
      BY <2>1, <2>3, <2>4
    <3> HIDE DEF e, v
    <3>3. Pick(Append(v, e), R) = IF e \in R THEN Append(Pick(v, R), e) ELSE Pick(v, R)
      BY <3>1, <3>2, PickAppend
    <3>4. Append(v, e) \in Seq(S)
      BY <3>1, <3>2
    <3> QED
      BY <2>3, <3>1, <3>2, <3>3, <3>4, Zenon
  <2>5. CASE ~At(S, k + 1)
    BY <1>4, <2>1, <2>2, <2>3, <2>5
  <2> QED
    BY <2>4, <2>5
<1>7. g[n] = Pick(f[n], R)
  <2>1. Nat \subseteq P
    <3> HIDE DEF P
    <3> QED
      BY <1>5, <1>6, Induction
  <2> QED
    BY <1>1, <2>1
<1> QED
  BY <1>2, <1>3, <1>7

\* In the vector of a slave, a record is erased when its master is deleted and the
\* record before it is not erased.
LEMMA ErasedAlternate ==
  ASSUME TypeOK, GraphInv, RankInv, NEW s \in Obj, NEW v,
         v = Vector(fSlaves2Masters[s]),
         NEW i \in 1..Len(v), NEW K, K = fSlaves2Masters[s] \ Erased(deleted, s)
  PROVE  v[i] \in K <=> v[i].master \notin deleted \/ (i > 1 /\ v[i - 1] \notin K)
<1> DEFINE S == fSlaves2Masters[s]
           Gone(r) == DeadRun(deleted, s, r)
           r == v[i]
<1>1. v \in Seq(S) /\ Elems(v) = S /\ Increasing(v) /\ Len(v) \in Nat
  <2>1. S \in SUBSET Masters /\ Ranked(S)
    BY DEF TypeOK, RankInv
  <2>2. v \in Seq(S) /\ Elems(v) = S /\ Increasing(v)
    BY <2>1, VectorSorted
  <2> QED
    BY <2>2
<1>2. r \in S /\ IsFiniteSet(S) /\ \A q \in S : q.rank \in Int
  BY <1>1, RankAssumption DEF TypeOK, Masters, GraphInv
<1>3. \A q \in S : \E j \in 1..Len(v) : q = v[j]
  BY <1>1 DEF Elems
<1>4. \A q \in S : IsFiniteSet(Gone(q)) /\ Cardinality(Gone(q)) \in Nat
  <2>1. \A q \in S : Gone(q) \in SUBSET S
    BY DEF DeadRun, Dead
  <2> QED
    BY <1>2, <2>1, FS_Subset, FS_CardinalityType
<1>5. \A q \in S : q \in K <=> q.master \notin deleted \/ Cardinality(Gone(q)) % 2 # 0
  BY DEF Erased, Dead
<1>6. CASE i = 1
  <2>1. \A q \in S : ~(q.rank < r.rank)
    <3> SUFFICES ASSUME NEW q \in S, q.rank < r.rank PROVE FALSE
      OBVIOUS
    <3>1. PICK j \in 1..Len(v) : q = v[j]
      BY <1>3
    <3>2. j = 1 \/ 1 < j
      BY <1>1
    <3> QED
      BY <1>1, <1>2, <1>6, <3>1, <3>2 DEF Increasing
  <2>2. Gone(r) = {}
    BY <2>1 DEF DeadRun, Dead
  <2>3. Cardinality(Gone(r)) = 0
    BY <2>2, FS_EmptySet
  <2> QED
    BY <1>2, <1>5, <1>6, <2>3
<1>7. CASE i > 1
  <2> DEFINE q == v[i - 1]
  <2>1. i - 1 \in 1..Len(v)
    BY <1>1, <1>7
  <2>2. q \in S /\ q.rank < r.rank
    BY <1>1, <2>1 DEF Increasing
  <2>3. \A p \in S : p.rank < r.rank => p.rank < q.rank \/ p = q
    <3> SUFFICES ASSUME NEW p \in S, p.rank < r.rank PROVE p.rank < q.rank \/ p = q
      OBVIOUS
    <3>1. PICK j \in 1..Len(v) : p = v[j]
      BY <1>3
    <3>2. j < i - 1 \/ j = i - 1 \/ j = i \/ i < j
      BY <1>1
    <3> QED
      BY <1>1, <1>2, <2>1, <3>1, <3>2 DEF Increasing
  <2> HIDE DEF q, r, S
  <2>4. CASE q.master \notin deleted
    <3>1. \A p \in Gone(r) : FALSE
      BY <1>2, <2>2, <2>3, <2>4 DEF DeadRun, Dead, S
    <3>2. Cardinality(Gone(r)) = 0
      BY <3>1, FS_EmptySet
    <3> QED
      BY <1>2, <1>5, <2>2, <2>4, <3>2 DEF q, r
  <2>5. CASE q.master \in deleted
    <3>1. q \notin Gone(q)
      BY <1>2, <2>2 DEF DeadRun
    <3>2. Gone(r) = Gone(q) \union {q}
      <4>1. ASSUME NEW p \in Gone(r) PROVE p \in Gone(q) \union {q}
        BY <1>2, <2>2, <2>3, <4>1 DEF DeadRun, Dead, S
      <4>2. ASSUME NEW p \in Gone(q) PROVE p \in Gone(r)
        BY <1>2, <2>2, <2>3, <2>5, <4>2 DEF DeadRun, Dead, S
      <4>3. q \in Gone(r)
        BY <1>2, <2>2, <2>3, <2>5 DEF DeadRun, Dead, S
      <4> QED
        BY <4>1, <4>2, <4>3
    <3>3. Cardinality(Gone(r)) = Cardinality(Gone(q)) + 1
      BY <1>4, <2>2, <3>1, <3>2, FS_AddElement
    <3>4. Cardinality(Gone(r)) % 2 # 0 <=> Cardinality(Gone(q)) % 2 = 0
      BY <1>4, <2>2, <3>3
    <3> QED
      BY <1>2, <1>5, <1>7, <2>2, <2>5, <3>4 DEF q, r
  <2> QED
    BY <2>4, <2>5
<1> QED
  BY <1>1, <1>6, <1>7

LEMMA CleanupLoopAgrees ==
  ASSUME TypeOK, GraphInv, RankInv
  PROVE  CleanupAgrees
<1> SUFFICES ASSUME NEW s \in Obj
             PROVE  cleanupLoop(Vector(fSlaves2Masters[s]))
                      = Vector(fSlaves2Masters[s] \ Erased(deleted, s))
  BY DEF CleanupAgrees
<1> DEFINE S == fSlaves2Masters[s]
           K == S \ Erased(deleted, s)
           v == Vector(S)
<1>1. S \in SUBSET Masters /\ Ranked(S) /\ K \in SUBSET S
  BY DEF TypeOK, RankInv
<1>2. v \in Seq(S) /\ Vector(K) = Pick(v, K)
  BY <1>1, VectorSorted, VectorPick
<1>3. \A i \in 1..Len(v) :
        v[i] \in K <=> v[i].master \notin deleted \/ (i > 1 /\ v[i - 1] \notin K)
  BY ErasedAlternate
<1>4. cleanupLoop(v) = Pick(v, K)
  <2> HIDE DEF v, K, S
  <2> QED
    BY <1>2, <1>3, CleanupLoop
<1> QED
  BY <1>2, <1>4

-----------------------------------------------------------------------------
\* The walk that ISync::checkLoop makes ends, and answers what checkLoop does here.
LEMMA SafeWalkAgrees == SafeSpec => []CheckLoopAgrees
<1>1. IInv => CheckLoopAgrees
  BY WalkAgrees DEF IInv, CheckLoopAgrees
<1>2. QED
  BY <1>1, SafeInvariance, PTL

THEOREM WalkAlwaysAgrees == Spec => []CheckLoopAgrees
BY SafeWalkAgrees, PTL DEF Spec

\* A push_back gives a greater rank than those of the vector, and the rest removes.
LEMMA RankStep ==
  ASSUME TypeOK, RankInv, [Next]_vars
  PROVE  RankInv'
<1>1. ASSUME DropAny PROVE RankInv'
  <2>1. \A s \in Obj : fSlaves2Masters'[s] \subseteq fSlaves2Masters[s]
    BY <1>1 DEF DropAny, Drop
  <2> QED
    BY <2>1 DEF RankInv, Ranked
<1>2. ASSUME UNCHANGED graph PROVE RankInv'
  BY <1>2 DEF graph, RankInv, Ranked
<1>3. ASSUME NEW c \in work, sync(c) PROVE RankInv'
  <2>1. CASE UNCHANGED graph
    BY <1>2, <2>1
  <2>2. CASE ~UNCHANGED graph
    <3>1. c.slave \in Obj
      BY DEF TypeOK, Calls
    <3>2. PICK k \in 1..MaxRank :
            /\ IsNextRank(c.slave, k)
            /\ fSlaves2Masters' = [fSlaves2Masters EXCEPT ![c.slave] = @ \union
                 {[master |-> c.master, mmap |-> c.mmap, smap |-> c.smap, rank |-> k]}]
      BY <1>3, <2>2 DEF sync
    <3> DEFINE new == [master |-> c.master, mmap |-> c.mmap, smap |-> c.smap, rank |-> k]
    <3>3. \A s \in Obj : fSlaves2Masters'[s] =
            IF s = c.slave THEN fSlaves2Masters[s] \union {new} ELSE fSlaves2Masters[s]
      BY <3>1, <3>2 DEF TypeOK
    <3>4. \A r \in fSlaves2Masters[c.slave] : r.rank \in Int /\ r.rank < new.rank
      BY <3>1, <3>2, RankAssumption DEF IsNextRank, TypeOK, Masters
    <3>5. new.rank \in Int
      BY <3>2
    <3> HIDE DEF new
    <3>6. SUFFICES ASSUME NEW s \in Obj, NEW q \in fSlaves2Masters'[s],
                          NEW r \in fSlaves2Masters'[s], q.rank = r.rank
                   PROVE  q = r
      BY DEF RankInv, Ranked
    <3>7. CASE q \in fSlaves2Masters[s] /\ r \in fSlaves2Masters[s]
      BY <3>6, <3>7 DEF RankInv, Ranked
    <3>8. CASE s = c.slave /\ {q, r} \subseteq fSlaves2Masters[s] \union {new}
      <4>1. \A p \in fSlaves2Masters[s] : p.rank # new.rank
        BY <3>4, <3>5, <3>8
      <4> QED
        BY <3>6, <3>7, <3>8, <4>1
    <3> QED
      BY <3>3, <3>6, <3>7, <3>8
  <2> QED
    BY <2>1, <2>2
<1>4. CASE UNCHANGED vars
  BY <1>2, <1>4 DEF vars, graph
<1>5. CASE \E x \in Obj : Create(x) \/ Delete(x) \/ Lock(x)
  BY <1>2, <1>5 DEF Create, Delete, Lock, graph
<1>6. CASE \E x, y \in Obj : Retype(x, y)
  BY <1>1, <1>6, RemovalsAreDrops DEF Retype
<1>7. CASE \E slaves, masters \in SUBSET Name, mmap, smap \in Map :
             SyncCreate(slaves, masters, mmap, smap)
  BY <1>2, <1>7 DEF SyncCreate
<1>8. CASE \E slaves, masters \in SUBSET Name, mmap \in Map :
             SyncDelete(slaves, masters, mmap)
  BY <1>1, <1>8, RemovalsAreDrops
<1>9. CASE \E slaves \in SUBSET Name : SyncDeleteAll(slaves)
  BY <1>1, <1>9, RemovalsAreDrops
<1>10. CASE Handler
  BY <1>2, <1>3, <1>10 DEF Handler, setSyncOptions
<1>11. CASE FrameStart \/ SortPass \/ SortEnd
  BY <1>2, <1>11 DEF FrameStart, SortPass, SortEnd
<1>12. CASE Cleanup
  BY <1>1, <1>12, RemovalsAreDrops DEF Cleanup
<1>13. CASE Modify
  BY <1>2, <1>13 DEF Modify
<1> QED
  BY <1>4, <1>5, <1>6, <1>7, <1>8, <1>9, <1>10, <1>11, <1>12, <1>13
     DEF Next, Message, Frame

\* The loop of ISync::cleanup keeps the records that the model keeps, in their order.
LEMMA SafeCleanupAgrees == SafeSpec => []CleanupAgrees
<1>1. Init => RankInv
  BY DEF Init, RankInv, Ranked
<1>2. IInv /\ RankInv /\ [Next]_vars => RankInv'
  BY RankStep DEF IInv
<1>3. IInv /\ RankInv => CleanupAgrees
  BY CleanupLoopAgrees DEF IInv
<1>4. QED
  BY <1>1, <1>2, <1>3, SafeInvariance, PTL DEF SafeSpec

THEOREM CleanupAlwaysAgrees == Spec => []CleanupAgrees
BY SafeCleanupAgrees, PTL DEF Spec
=============================================================================
