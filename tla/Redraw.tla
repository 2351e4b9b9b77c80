------------------------------- MODULE Redraw -------------------------------
(***************************************************************************)
(* The modification states of the children of a container, which decide    *)
(* what a frame draws again: a message marks its target, the task of the   *)
(* sync node (ISync::ptask) marks the slaves of marked masters, the view   *)
(* updater draws what is marked and the cleanup wipes the marks.  The      *)
(* children and their relations are those of SyncGraph.  The flags of a    *)
(* state are abstracted to whether there is one: the updaters make no      *)
(* difference between a new, a modified and a slave of a modified object.  *)
(***************************************************************************)
EXTENDS SyncGraph, Sequences

CONSTANTS
  Addresses,  \* the objects, in the order of their addresses
  Sessions    \* bound: the objects of one behaviour

ASSUME AddressAssumption ==
  /\ DOMAIN Addresses = 1..Len(Addresses) /\ Len(Addresses) \in Nat
  /\ {Addresses[i] : i \in 1..Len(Addresses)} = Obj

VARIABLES
  modified,  \* objects whose fState is not kClean
  stale,     \* objects whose view does not show what they are, or where
  missed,    \* those that no mark tells, for a reason that the code has
  session    \* what this behaviour is made of

marks      == <<modified, stale, missed>>
redrawVars == <<vars, marks, session>>

RedrawTypeOK ==
  /\ TypeOK
  /\ modified \subseteq Obj /\ stale \subseteq Obj /\ missed \subseteq stale
  /\ session \in Sessions

RedrawInit ==
  /\ Init
  /\ modified = {} /\ stale = {} /\ missed = {}
  /\ session \in Sessions

-----------------------------------------------------------------------------
(* Messages.                                                               *)

\* IObject::setModified: on the objects that a message changes or moves.
setModified(S) ==
  /\ modified' = modified \union S
  /\ stale' = stale \union S
  /\ UNCHANGED <<missed, session>>

\* The slaves that lose or get a relation.
Resynced == {s \in Obj : fSlaves2Masters'[s] # fSlaves2Masters[s]}

DrawCreate(x) == x \in session /\ Create(x) /\ setModified({x})
DrawDelete(x) == Delete(x) /\ setModified({x})
DrawLock(x)   == Lock(x) /\ setModified({x})

\* A message changes a child: its slaves are drawn with its mapping and its date.
DrawModify(x) ==
  /\ Modify /\ x \in Live
  /\ modified' = modified \union {x}
  /\ stale' = stale \union {x} \union getSlaves(x)
  /\ UNCHANGED <<missed, session>>

\* ISync::remove marks the slaves of x, before the frame.
DrawRetype(x, y) == y \in session /\ Retype(x, y) /\ setModified({x, y} \union Resynced)

DrawSync ==
  \E slaves, masters \in SUBSET Name, mmap \in Map :
    \/ \E smap \in Map : /\ SyncCreate(slaves, masters, mmap, smap)
                         /\ setModified(Matched(slaves))
    \/ SyncDelete(slaves, masters, mmap) /\ setModified(Resynced)
    \/ SyncDeleteAll(slaves) /\ setModified(Matched(slaves))

-----------------------------------------------------------------------------
(* The frame.                                                              *)

Mut_ptask(S) == S

\* ISync::ptask walks the masters in the order of their addresses: a slave that is
\* a master is only seen with its new mark when its address comes after the one of
\* its own master.
ptask(S) ==
  LET marked[i \in 0..Len(Addresses)] ==
        IF i = 0 THEN S
        ELSE marked[i - 1] \union (IF Addresses[i] \in marked[i - 1]
                                   THEN getSlaves(Addresses[i]) ELSE {})
  IN marked[Len(Addresses)]

\* IObject::ptask: the objects that a signal drives are marked once the slaves have
\* been, so that their own slaves are missed.
DrawFrame ==
  \E driven \in SUBSET Live :
    LET behind == UNION {getSlaves(m) : m \in driven}
    IN /\ FrameStart
       /\ modified' = ptask(modified) \union driven
       /\ stale' = stale \union driven \union behind
       /\ missed' = missed \union (behind \ modified')
       /\ UNCHANGED session

\* The view updater walks the children it has sorted (ViewUpdater::needupdate).
DrawView ==
  LET drawn == IF phase = "view" THEN Live \intersect modified ELSE {}
  IN /\ SortEnd
     /\ stale' = stale \ drawn
     /\ missed' = missed \ drawn
     /\ UNCHANGED <<modified, session>>

\* The sync node is cleaned up first: ISync::remove marks the slaves of the deleted
\* objects, and their own cleanup wipes that mark.
DrawCleanup ==
  /\ Cleanup
  /\ modified' = {}
  /\ stale' = (stale \union Resynced) \intersect elements'
  /\ missed' = (missed \union Resynced) \intersect elements'
  /\ UNCHANGED session

DrawMessage ==
  \/ \E x \in Obj :
       \/ DrawCreate(x) \/ DrawDelete(x) \/ DrawLock(x) \/ DrawModify(x)
       \/ \E y \in Obj : DrawRetype(x, y)
  \/ DrawSync

RedrawNext ==
  \/ DrawMessage
  \/ Handler /\ UNCHANGED <<marks, session>>
  \/ DrawFrame
  \/ SortPass /\ UNCHANGED <<marks, session>>
  \/ DrawView
  \/ DrawCleanup

\* Once a frame has started, nothing but its own loops delays its end.
RedrawSpec == /\ RedrawInit /\ [][RedrawNext]_redrawVars
              /\ WF_redrawVars(SortPass /\ UNCHANGED <<marks, session>>)
              /\ WF_redrawVars(DrawView) /\ WF_redrawVars(DrawCleanup)

-----------------------------------------------------------------------------
(* Properties.                                                             *)

\* Between two frames, when no message waits for one, every child is shown as it is
\* and where its masters are, but for those that are known to be missed: the slaves
\* of an object that only a signal drives, and those whose master was cleaned up
\* (ISync::ptask, IObject::ptask, IObject::cleanup).
NothingStale ==
  phase = "messages" /\ ~subModified => stale \intersect Live \subseteq missed
=============================================================================
