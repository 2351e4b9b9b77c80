------------------------------- MODULE Scene -------------------------------
(***************************************************************************)
(* A container with everything that its children are known by: the sync    *)
(* relations (SyncGraph), the connections of the signals (Connections),    *)
(* the watched events (Watches), the downloads of their files (Downloads)  *)
(* and the aliases of the application, which hold addresses                *)
(* (IAppl::fAliases).  Creating, deleting, replacing and cleaning up a     *)
(* child update all of them in one step of the time task.                  *)
(***************************************************************************)
EXTENDS Connections, Watches, Downloads

CONSTANTS
  Alias,      \* alternative addresses
  NoName,     \* what an alias that is not defined stands for
  Methods,    \* sequences of methods of a connect or disconnect message
  Sessions    \* bound: the kinds of messages and the objects of one behaviour

ASSUME NoNameAssumption == NoName \notin Name
ASSUME MethodsAssumption == \A ms \in Methods : DOMAIN ms = 1..Len(ms) /\ Len(ms) \in Nat
ASSUME SessionAssumption ==
  Sessions \subseteq [kinds : SUBSET {"sync", "signal", "alias", "watch", "url"},
                      objects : SUBSET Obj]

VARIABLES
  fAliases,   \* alias -> the name of a child of the container
  session     \* what this behaviour is made of

sceneVars == <<vars, signalNode, connections, watches, downloads, fAliases, session>>

SceneTypeOK ==
  /\ TypeOK /\ ConnectionsTypeOK /\ WatchesTypeOK /\ DownloadsTypeOK
  /\ fAliases \in [Alias -> Name \union {NoName}]
  /\ session \in Sessions

SceneInit ==
  /\ Init /\ ConnectionsInit /\ WatchesInit /\ DownloadsInit
  /\ fAliases = [a \in Alias |-> NoName]
  /\ session \in Sessions

-----------------------------------------------------------------------------
(* Aliases.                                                                *)

Mut_delAliases(n) ==
  fAliases' = [a \in {d \in Alias : fAliases[d] # n} |-> fAliases[a]]

delAliases(n) ==
  fAliases' = [a \in Alias |-> IF fAliases[a] = n THEN NoName ELSE fAliases[a]]

AliasDone == /\ subModified' = TRUE
             /\ UNCHANGED <<tree, signalNode, connections, watches, downloads, session>>

\* The alias message, with a name and without: the second deletes the aliases.
addAlias(x, a) ==
  /\ Handling /\ x \in Live
  /\ fAliases' = [fAliases EXCEPT ![a] = NameOf[x]]
  /\ AliasDone

clearAliases(x) ==
  /\ Handling /\ x \in Live
  /\ delAliases(NameOf[x])
  /\ AliasDone

-----------------------------------------------------------------------------
(* Messages to the container and its children.                             *)

ObjectCreate(x) ==
  /\ x \in session.objects
  /\ Create(x)
  /\ NewWatches(x)
  /\ NewDownload(x)
  /\ UNCHANGED <<signalNode, connections, fAliases, session>>

Mut_Deleted(x) ==
  IF x \in locked THEN UNCHANGED <<connections, fAliases>>
  ELSE delAliases(NameOf[x]) /\ UNCHANGED connections

Mut2_Deleted(x) ==
  IF x \in locked THEN UNCHANGED <<connections, fAliases>>
  ELSE cleanupTarget(x) /\ UNCHANGED fAliases

Mut3_Deleted(x) ==
  IF x \in locked THEN UNCHANGED <<connections, fAliases>>
  ELSE /\ connections' = {c \in connections : NameOf[c.object] # NameOf[x]}
       /\ delAliases(NameOf[x])

\* IObject::_del: the aliases go by the address, which another child may bear;
\* the connections go by the object.
Deleted(x) ==
  IF x \in locked THEN UNCHANGED <<connections, fAliases>>
  ELSE delAliases(NameOf[x]) /\ cleanupTarget(x)

ObjectDelete(x) ==
  /\ Delete(x)
  /\ Deleted(x)
  /\ UNCHANGED <<signalNode, watches, downloads, session>>

ObjectLock(x) ==
  /\ Lock(x)
  /\ UNCHANGED <<signalNode, connections, watches, downloads, fAliases, session>>

\* IObject::set with another type: the new object inherits the events before the
\* old one is deleted.  Neither the connections nor the aliases are transferred,
\* nor the relations: the sync node answers nothing to the getAll that asks for
\* them (IVNode::getAll).
Replace(x, y) ==
  /\ y \in session.objects
  /\ Retype(x, y)
  /\ OneUrl'
  /\ TransferWatches(x, y)
  /\ Deleted(x)
  /\ UNCHANGED <<signalNode, session>>

ObjectRetype(x, y) == Replace(x, y) /\ ChangedType(x, y)

\* IUrlIntermediateObject::updateFileSucceded: the real object takes the place of x.
ObjectDownloaded(x, y) == Replace(x, y) /\ updateFileSucceded(x, y)

Mut_SceneCleanup ==
  /\ Mut_Cleanup
  /\ SignalsCleanup
  /\ DropWatches(Obj \ elements')
  /\ DropDownloads({x \in Obj \ elements' : ~Referenced(x)'})
  /\ UNCHANGED <<fAliases, session>>

\* IObject::cleanup of the container and of its signal node.
SceneCleanup ==
  /\ Cleanup
  /\ SignalsCleanup
  /\ DropWatches(Obj \ elements')
  /\ DropDownloads({x \in Obj \ elements' : ~Referenced(x)'})
  /\ UNCHANGED <<fAliases, session>>

-----------------------------------------------------------------------------
SyncMessage ==
  \E slaves, masters \in SUBSET Name, mmap \in Map :
    \/ \E smap \in Map : SyncCreate(slaves, masters, mmap, smap)
    \/ SyncDelete(slaves, masters, mmap)
    \/ SyncDeleteAll(slaves)

OnlySync == UNCHANGED <<signalNode, connections, watches, downloads, fAliases, session>>

UrlMessage ==
  \/ NothingNew \/ NullDownloader \/ UnknownType
  \/ \E x \in Obj :
       \/ updateFileCanceled(x)
       \/ \E p \in Path, type \in Asked : setUrl(x, p, type)
       \/ \E outcome \in {"data", "nothing", "failed"} : fileDownloaded(x, outcome)

Kind(k) == k \in session.kinds

SceneMessage ==
  \/ \E x \in Obj :
       \/ ObjectCreate(x) \/ ObjectDelete(x) \/ ObjectLock(x)
       \/ \E y \in Obj : ObjectRetype(x, y) \/ ObjectDownloaded(x, y)
       \/ Kind("watch") /\ WatchMessage(x)
            /\ UNCHANGED <<signalNode, connections, downloads, fAliases, session>>
       \/ Kind("alias") /\ (clearAliases(x) \/ \E a \in Alias : addAlias(x, a))
  \/ Kind("sync") /\ SyncMessage /\ OnlySync
  \/ Kind("signal") /\ SignalNodeMessage(Methods)
       /\ UNCHANGED <<watches, downloads, fAliases, session>>
  \/ Kind("url") /\ UrlMessage
       /\ UNCHANGED <<signalNode, connections, watches, fAliases, session>>

Running ==
  \/ SceneMessage
  \/ Handler /\ OnlySync
  \/ (FrameStart \/ SortPass \/ SortEnd) /\ OnlySync
  \/ SceneCleanup

\* After a crash the program is gone.
SceneNext == IF crashed THEN UNCHANGED sceneVars ELSE Running

SceneSpec == SceneInit /\ [][SceneNext]_sceneVars

-----------------------------------------------------------------------------
(* Properties.                                                             *)

\* An alias leads to a child that exists: the deletion of the last child of that
\* address, or its replacement, removes it (IObject::_del).
AliasesAlive ==
  \A a \in Alias : fAliases[a] # NoName => \E x \in Live : NameOf[x] = fAliases[a]
=============================================================================
