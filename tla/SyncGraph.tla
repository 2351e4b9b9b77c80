----------------------------- MODULE SyncGraph -----------------------------
(***************************************************************************)
(* The master / slave synchronization relations between the children of    *)
(* one container (a scene, a layer), as ISync keeps them for the "sync"    *)
(* node (ISceneSync), with the two things that put them at risk: the       *)
(* deferred deletion of the children, and the sorting of the children that *)
(* every frame makes along the relations.                                  *)
(*                                                                         *)
(* One thread (the time task of IGlue) runs everything here.  Messages are *)
(* applied while phase = "messages"; a frame then sorts the children for   *)
(* the local maps, the slave maps and the view, and cleans the tree up.    *)
(***************************************************************************)
EXTENDS Integers, FiniteSets

CONSTANTS
  Obj,        \* addresses an object may be allocated at
  Name,       \* node names
  NameOf,     \* the name of the node an address is used for
  Map,        \* mapping names ("" is one of them)
  MaxRank,    \* bound: push_backs in a vector of masters that never empties
  MaxSize,    \* bound: children of the container, those flagged deleted included
  MaxDead,    \* bound: children flagged deleted between two cleanups
  Lockable    \* children that receive lock messages

ASSUME ObjAssumption  == IsFiniteSet(Obj)
ASSUME NameAssumption == NameOf \in [Obj -> Name]
ASSUME RankAssumption == {MaxRank, MaxSize, MaxDead} \subseteq Nat
ASSUME LockAssumption == Lockable \subseteq Obj

VARIABLES
  elements,         \* IObject::elements(): the children of the container
  deleted,          \* objects whose fDelete is set
  locked,           \* objects whose fLock is set
  fSlaves2Masters,  \* slave -> its Master records
  fMasters2Slaves,  \* master -> slave -> occurrences in the vector of slaves
  work,             \* calls that the sync message handler has still to make
  subModified,      \* kSubModified in the state of the container
  phase,            \* what the time task is doing
  in, out           \* the local variables of the sort in progress

vars == <<elements, deleted, locked, fSlaves2Masters, fMasters2Slaves, work,
          subModified, phase, in, out>>
graph    == <<fSlaves2Masters, fMasters2Slaves>>
children == <<elements, deleted, locked>>
sorting  == <<in, out>>

Sorts == {"lmap", "smap", "view"}

\* A Master: the object, the two mapping names, and the position it was pushed
\* at in the vector of its slave.
Masters == [master : Obj, mmap : Map, smap : Map, rank : 1..MaxRank]
Calls   == [call : {"sync", "setSyncOptions"}, slave : Obj, master : Obj,
            mmap : Map, smap : Map]

TypeOK ==
  /\ elements \subseteq Obj
  /\ deleted \subseteq Obj
  /\ locked \subseteq Obj
  /\ fSlaves2Masters \in [Obj -> SUBSET Masters]
  /\ fMasters2Slaves \in [Obj -> [Obj -> Nat]]
  /\ work \subseteq Calls
  /\ subModified \in BOOLEAN
  /\ phase \in Sorts \union {"messages", "cleanup"}
  /\ in \subseteq Obj
  /\ out \subseteq Obj

Live == elements \ deleted

-----------------------------------------------------------------------------
(* The relations, as ISync reads them.                                     *)

hasMaster(s) == fSlaves2Masters[s] # {}
hasSlave(m)  == \E s \in Obj : fMasters2Slaves[m][s] > 0

getMasterObjects(s) == {r.master : r \in fSlaves2Masters[s]}
getSlaves(m)        == {s \in Obj : fMasters2Slaves[m][s] > 0}

\* The masters of s whose node name is matched, for one master map.
getMasters(s, pattern, mmap) ==
  {r \in fSlaves2Masters[s] : NameOf[r.master] \in pattern /\ r.mmap = mmap}

getRelation(o1, o2) ==
  IF o2 \in getSlaves(o1) THEN "kMaster"
  ELSE IF o1 \in getSlaves(o2) THEN "kSlave"
  ELSE "kNoRelation"

\* The objects a recursive walk from "from" to the masters visits are the
\* smallest set that contains "from" and the masters of its members.
MasterClosed(C) == \A x \in C : getMasterObjects(x) \subseteq C

Mut_checkLoop(slave, from) == getRelation(slave, from) = "kMaster"

\* checkLoop answers TRUE when the walk from the master meets a slave of slave.
checkLoop(slave, from) ==
  \A C \in SUBSET Obj :
    from \in C /\ MasterClosed(C) =>
      \E x \in C : hasMaster(x) /\ getRelation(slave, x) = "kMaster"

\* push_back: one more than the last rank of the vector.
IsNextRank(s, k) ==
  /\ \A r \in fSlaves2Masters[s] : r.rank < k
  /\ k = 1 \/ \E r \in fSlaves2Masters[s] : r.rank = k - 1

Entries(rels, m) == {r \in rels : r.master = m}

\* Removing from every slave s the records gone[s]: each one leaves the vector
\* of its slave, and one occurrence of the slave leaves the vector of its master.
Mut_Drop(gone) ==
  /\ fSlaves2Masters' = [s \in Obj |-> fSlaves2Masters[s] \ gone[s]]
  /\ fMasters2Slaves' = [m \in Obj |-> [s \in Obj |->
       IF Entries(gone[s], m) # {} THEN 0 ELSE fMasters2Slaves[m][s]]]

Mut2_Drop(gone) ==
  /\ fSlaves2Masters' = [s \in Obj |-> fSlaves2Masters[s] \ gone[s]]
  /\ fMasters2Slaves' = [m \in Obj |-> [s \in Obj |->
       fMasters2Slaves[m][s] - Cardinality(gone[s])]]

Drop(gone) ==
  /\ fSlaves2Masters' = [s \in Obj |-> fSlaves2Masters[s] \ gone[s]]
  /\ fMasters2Slaves' = [m \in Obj |-> [s \in Obj |->
       fMasters2Slaves[m][s] - Cardinality(Entries(gone[s], m))]]

\* remove(slave, m) only acts when the slave is a slave of that master.
Removable(s, rels) == {r \in rels : getRelation(s, r.master) = "kSlave"}

-----------------------------------------------------------------------------
(* Messages to the sync node.                                              *)

Handling == phase = "messages" /\ work = {}
Matched(pattern) == {x \in Live : NameOf[x] \in pattern}

Mut_Existing(s, pattern, mmap, smap) == {}

\* The relations of s that make a sync message an update of their options.
Existing(s, pattern, mmap, smap) ==
  {r \in getMasters(s, pattern, mmap) : r.smap = smap}

\* [1] slave master: for each slave matched, the options of the existing relations
\* are updated or, when there is none, a relation is created with each master
\* matched.  The order of the children is abstracted: the calls come in any order.
SyncCreate(slaves, masters, mmap, smap) ==
  LET S == {s \in Matched(slaves) : Existing(s, masters, mmap, smap) = {}}
      M == Matched(masters)
      updated(s) == {r.master : r \in Existing(s, masters, mmap, smap)}
  IN /\ Handling
     /\ Matched(slaves) # {} /\ M # {}
     /\ S = {} \/ Cardinality(M) <= MaxRank
     /\ \A s \in S : \A r \in fSlaves2Masters[s] : r.rank + Cardinality(M) <= MaxRank
     /\ work' = {c \in Calls :
          /\ c.mmap = mmap /\ c.smap = smap
          /\ c.slave \in Matched(slaves)
          /\ IF c.slave \in S THEN c.call = "sync" /\ c.master \in M
             ELSE c.call = "setSyncOptions" /\ c.master \in updated(c.slave)}
     /\ subModified' = TRUE
     /\ UNCHANGED <<children, graph, phase, sorting>>

\* ISync::sync.
sync(c) ==
  /\ c \in work /\ c.call = "sync"
  /\ work' = work \ {c}
  /\ IF c.slave = c.master \/ checkLoop(c.slave, c.master)
     THEN UNCHANGED graph
     ELSE \E k \in 1..MaxRank :
       /\ IsNextRank(c.slave, k)
       /\ fSlaves2Masters' = [fSlaves2Masters EXCEPT ![c.slave] = @ \union
            {[master |-> c.master, mmap |-> c.mmap, smap |-> c.smap, rank |-> k]}]
       /\ fMasters2Slaves' = [fMasters2Slaves EXCEPT ![c.master][c.slave] = @ + 1]
  /\ UNCHANGED <<children, subModified, phase, sorting>>

\* Master::setSyncOptions: the alignment and stretch of a relation are abstracted.
setSyncOptions(c) ==
  /\ c \in work /\ c.call = "setSyncOptions"
  /\ work' = work \ {c}
  /\ UNCHANGED <<children, graph, subModified, phase, sorting>>

\* [2] slave master del: the handler gives up at the first slave matched that has
\* no such master, after it removed the relations of the slaves before it.
SyncDelete(slaves, masters, mmap) ==
  LET S    == Matched(slaves)
      with == {s \in S : getMasters(s, masters, mmap) # {}}
  IN /\ Handling
     /\ \E done \in SUBSET with :
          /\ with = S => done = S
          /\ done # {}
          /\ Drop([s \in Obj |-> IF s \in done
                                 THEN Removable(s, getMasters(s, masters, mmap))
                                 ELSE {}])
     /\ subModified' = TRUE
     /\ UNCHANGED <<children, work, phase, sorting>>

\* [3] slave: removes all the relations with the slaves matched.
SyncDeleteAll(slaves) ==
  /\ Handling
  /\ Matched(slaves) # {}
  /\ Drop([s \in Obj |-> IF s \in Matched(slaves) THEN fSlaves2Masters[s] ELSE {}])
  /\ subModified' = TRUE
  /\ UNCHANGED <<children, work, phase, sorting>>

-----------------------------------------------------------------------------
(* Cleanup of the relations, D being the objects flagged as deleted.       *)

Dead(D, s) == {r \in fSlaves2Masters[s] : r.master \in D}

\* The records with a deleted master just before r in the vector of s.
DeadRun(D, s, r) ==
  {q \in Dead(D, s) : /\ q.rank < r.rank
                      /\ \A p \in fSlaves2Masters[s] :
                           q.rank < p.rank /\ p.rank < r.rank => p \in Dead(D, s)}

Mut_Erased(D, s) == {}
Mut2_Erased(D, s) ==
  {r \in fSlaves2Masters[s] : \E q \in Dead(D, s) : q.rank + 1 = r.rank}

\* The loop of ISync::cleanup erases the record at index j and goes on at j + 1:
\* it steps over the record that took the place of the erased one.  So in a run
\* of records with deleted masters, the loop erases the first, the third, ...
Erased(D, s) == {r \in Dead(D, s) : Cardinality(DeadRun(D, s, r)) % 2 = 0}

CleanupRelations(D) ==
  Drop([s \in Obj |-> IF s \in D THEN fSlaves2Masters[s]
                      ELSE Removable(s, Erased(D, s))])

-----------------------------------------------------------------------------
(* Messages to the container and its children.                             *)

Referenced(x) == \/ hasMaster(x) \/ hasSlave(x)
                 \/ \E s \in Obj : x \in getMasterObjects(s) \union getSlaves(s)

\* An address that no smart pointer refers to: an object may be allocated there.
Free(x) == x \notin elements /\ ~Referenced(x)

\* A message to an unknown child: IProxy creates it.
Create(x) ==
  /\ Handling
  /\ Free(x)
  /\ Matched({NameOf[x]}) = {}
  /\ elements' = elements \union {x}
  /\ Cardinality(elements') <= MaxSize
  /\ deleted' = deleted \ {x}
  /\ locked' = locked \ {x}
  /\ subModified' = TRUE
  /\ UNCHANGED <<graph, work, phase, sorting>>

\* The del message: refused on a locked object, otherwise the object is flagged.
Delete(x) ==
  /\ Handling
  /\ x \in Live
  /\ deleted' = deleted \union ({x} \ locked)
  /\ Cardinality(deleted' \intersect elements) <= MaxDead
  /\ subModified' = TRUE
  /\ UNCHANGED <<elements, locked, graph, work, phase, sorting>>

\* The lock message, with a null or a non null argument.
Lock(x) ==
  /\ Handling
  /\ x \in Live \intersect Lockable
  /\ locked' \in {locked \union {x}, locked \ {x}}
  /\ subModified' = TRUE
  /\ UNCHANGED <<elements, deleted, graph, work, phase, sorting>>

\* Any other message that is handled under the container.
Modify ==
  /\ Handling
  /\ subModified' = TRUE
  /\ UNCHANGED <<children, graph, work, phase, sorting>>

\* The set message with another type: a new object of that name is added, the old
\* one is deleted (unless it is locked) and the relations are cleaned up at once.
Retype(x, y) ==
  /\ Handling
  /\ x \in Live
  /\ Free(y) /\ NameOf[y] = NameOf[x]
  /\ elements' = elements \union {y}
  /\ Cardinality(elements') <= MaxSize
  /\ deleted' = (deleted \ {y}) \union ({x} \ locked)
  /\ Cardinality(deleted' \intersect elements') <= MaxDead
  /\ locked' = locked \ {y}
  /\ CleanupRelations(deleted')
  /\ subModified' = TRUE
  /\ UNCHANGED <<work, phase, sorting>>

-----------------------------------------------------------------------------
(* The frame.                                                              *)

\* The children have been modified: the three updaters walk them in turn.
FrameStart ==
  /\ Handling
  /\ subModified
  /\ phase' = "lmap"
  /\ in' = elements /\ out' = {}
  /\ UNCHANGED <<children, graph, work, subModified>>

\* The children a pass of the sort moves to its output: those whose slaves (for
\* the map updaters, topologicalSort) or masters (for the view updater,
\* invertedTopologicalSort) are all in the output already.
Ready == {x \in in : IF phase = "view" THEN getMasterObjects(x) \subseteq out
                                       ELSE getSlaves(x) \subseteq out}

\* One turn of the do ... while loop of a sort.
SortPass ==
  /\ phase \in Sorts
  /\ in # {}
  /\ in' = in \ Ready
  /\ out' = out \union Ready
  /\ UNCHANGED <<children, graph, work, subModified, phase>>

\* The loop ends: the updater has walked the children, the next one starts.
SortEnd ==
  /\ phase \in Sorts
  /\ in = {}
  /\ phase' = CASE phase = "lmap" -> "smap"
                [] phase = "smap" -> "view"
                [] phase = "view" -> "cleanup"
  /\ in' = IF phase = "view" THEN {} ELSE elements
  /\ out' = {}
  /\ UNCHANGED <<children, graph, work, subModified>>

Mut_Cleanup ==
  /\ phase = "cleanup"
  /\ UNCHANGED graph
  /\ elements' = Live
  /\ deleted' = {x \in deleted : Referenced(x)'}
  /\ locked' = locked \intersect elements'
  /\ subModified' = FALSE
  /\ phase' = "messages"
  /\ UNCHANGED <<work, sorting>>

\* IObject::cleanup of the container: the sync node comes before the other
\* children, so it is cleaned up before the deleted ones are erased.
Cleanup ==
  /\ phase = "cleanup"
  /\ CleanupRelations(deleted)
  /\ elements' = Live
  /\ deleted' = {x \in deleted : Referenced(x)'}
  /\ locked' = locked \intersect elements'
  /\ subModified' = FALSE
  /\ phase' = "messages"
  /\ UNCHANGED <<work, sorting>>

Init ==
  /\ elements = {} /\ deleted = {} /\ locked = {}
  /\ fSlaves2Masters = [s \in Obj |-> {}]
  /\ fMasters2Slaves = [m \in Obj |-> [s \in Obj |-> 0]]
  /\ work = {}
  /\ subModified = FALSE
  /\ phase = "messages"
  /\ in = {} /\ out = {}

Message ==
  \/ Modify
  \/ \E x \in Obj : Create(x) \/ Delete(x) \/ Lock(x)
  \/ \E x, y \in Obj : Retype(x, y)
  \/ \E slaves, masters \in SUBSET Name, mmap \in Map :
       \/ \E smap \in Map : SyncCreate(slaves, masters, mmap, smap)
       \/ SyncDelete(slaves, masters, mmap)
  \/ \E slaves \in SUBSET Name : SyncDeleteAll(slaves)

Frame == FrameStart \/ SortPass \/ SortEnd \/ Cleanup

Handler == \E c \in work : sync(c) \/ setSyncOptions(c)

Next == Message \/ Handler \/ Frame

SafeSpec == Init /\ [][Next]_vars

\* Once a frame has started, nothing but its own loops delays its end.
Spec == SafeSpec /\ WF_vars(SortPass \/ SortEnd \/ Cleanup)

-----------------------------------------------------------------------------
(* Properties.                                                             *)

Slaved(s, m) == m \in getMasterObjects(s)

\* The relations never form a loop, whatever the sequence of sync messages: every
\* set of objects has one that is slave of none of them (ISync::checkLoop).
Acyclic ==
  \A X \in SUBSET Obj : X # {} => \E x \in X : \A y \in X : ~Slaved(x, y)

\* The two maps of ISync describe the same relations: a slave occurs in the vector
\* of a master once per record of that master in its own vector.  ISync::remove
\* erases what std::find returns without a test: it relies on that.
MapsAgree ==
  \A m, s \in Obj :
    fMasters2Slaves[m][s] = Cardinality(Entries(fSlaves2Masters[s], m))

\* Two objects never have two relations with the same mappings: a sync message
\* that is sent again updates the first one (ISceneSync::syncMsg).
NoTwin ==
  \A s \in Obj : \A q, r \in fSlaves2Masters[s] :
    [q EXCEPT !.rank = r.rank] = r => q = r

\* Every master and every slave is still a child of the container.
NoDangling ==
  \A s, m \in Obj : Slaved(s, m) => {s, m} \subseteq elements

\* As long as no relation is dangling, a pass of a sort always moves a child
\* to the output: the do ... while loops make progress.
SortProgress == phase \in Sorts /\ in # {} /\ NoDangling => Ready # {}

\* A frame that starts without dangling relations ends.
FrameEnds == (phase = "lmap" /\ NoDangling) ~> (phase = "messages")

\* A relation between two objects that are not deleted is only removed by a
\* message to the sync node (a step that neither changes the children nor ends a
\* frame): no cleanup and no deletion of another object removes it.
RelationsKept ==
  [][\A s \in Obj : \A r \in fSlaves2Masters[s] :
       {s, r.master} \subseteq Live \intersect Live' /\ r \notin fSlaves2Masters'[s]
         => UNCHANGED <<children, phase>>]_vars

\* Cleanup of the relations set removes the relations one part of which is
\* flagged as deleted (ISync::cleanup), before the objects are erased.
CleanupComplete ==
  [][Cleanup => \A s, m \in Obj : Slaved(s, m)' => {s, m} \subseteq Live]_vars
=============================================================================
