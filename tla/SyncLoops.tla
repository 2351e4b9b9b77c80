----------------------------- MODULE SyncLoops -----------------------------
(***************************************************************************)
(* Two loops of ISync as they run: the walk of checkLoop along the masters *)
(* of a master, and the loop of cleanup over the vector of a slave.        *)
(* SyncGraph has what they compute in closed form; here are the loops, and *)
(* that they agree.                                                        *)
(***************************************************************************)
EXTENDS SyncGraph, Sequences

\* ISync::checkLoop.
walk(slave) ==
  LET meets[master \in Obj] ==
        /\ hasMaster(master)
        /\ \/ getRelation(slave, master) = "kMaster"
           \/ \E r \in fSlaves2Masters[master] : meets[r.master]
  IN  meets

\* The vector of the masters of a slave, in the order of their push_back.
Vector(rels) ==
  LET pushed[k \in 0..MaxRank] ==
        IF k = 0 THEN <<>>
        ELSE IF \E r \in rels : r.rank = k
          THEN Append(pushed[k - 1], CHOOSE r \in rels : r.rank = k)
        ELSE pushed[k - 1]
  IN  pushed[MaxRank]

\* The vector after the turns of the loop of ISync::cleanup: each turn looks at the next
\* index, whether or not the one before erased its record.  (Len(v) turns are enough.)
erase(v, j) == SubSeq(v, 1, j - 1) \o SubSeq(v, j + 1, Len(v))
cleanupLoop(v) ==
  LET after[j \in 0..Len(v)] ==
        IF j = 0 THEN v
        ELSE LET now == after[j - 1]
             IN  IF j <= Len(now) /\ now[j].master \in deleted THEN erase(now, j) ELSE now
  IN  after[Len(v)]

-----------------------------------------------------------------------------
(* Properties.                                                             *)

\* The walk of checkLoop ends, and answers what the operator of SyncGraph does.
CheckLoopAgrees == \A x, y \in Obj : checkLoop(x, y) <=> walk(x)[y]

\* The loop of cleanup keeps the records that the operator of SyncGraph keeps, in
\* their order.
CleanupAgrees ==
  \A s \in Obj :
    cleanupLoop(Vector(fSlaves2Masters[s])) = Vector(fSlaves2Masters[s] \ Erased(deleted, s))
=============================================================================
