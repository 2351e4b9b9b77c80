---------------------------- MODULE SceneProofs ----------------------------
(***************************************************************************)
(* Proofs about Scene, for every set of objects, signals, events and       *)
(* aliases, every bound and every family of sessions.                      *)
(***************************************************************************)
EXTENDS Scene, SyncGraphProofs

(* The relations inside the scene.                                         *)

\* Every step of the scene is a step of the relations: what SyncGraphProofs shows
\* of them holds in the scene.
THEOREM SceneSyncs == SceneSpec => SafeSpec
<1>1. SceneInit => Init
  BY DEF SceneInit
<1>2. [SceneNext]_sceneVars => [Next]_vars
  <2> SUFFICES ASSUME [SceneNext]_sceneVars
               PROVE  [Next]_vars
    OBVIOUS
  <2>1. ASSUME Handling, subModified' \in {subModified, TRUE}, UNCHANGED tree
        PROVE  Modify \/ UNCHANGED vars
    BY <2>1 DEF Modify, tree, vars, children, graph, sorting
  <2>2. CASE UNCHANGED sceneVars
    BY <2>2 DEF sceneVars
  <2>3. CASE \E x \in Obj : \/ ObjectCreate(x) \/ ObjectDelete(x) \/ ObjectLock(x)
                            \/ \E y \in Obj : ObjectRetype(x, y) \/ ObjectDownloaded(x, y)
    BY <2>3 DEF ObjectCreate, ObjectDelete, ObjectLock, ObjectRetype, ObjectDownloaded, Replace,
                Next, Message
  <2>4. ASSUME NEW x \in Obj, WatchMessage(x)
        PROVE  [Next]_vars
    <3>1. Handling /\ subModified' = TRUE /\ UNCHANGED tree
      BY <2>4 DEF WatchMessage, reset, pushWatch, popWatch, clearMsg, setMsg, addMsg,
                  Watching, WatchDone, watchTree, tree
    <3>2. QED
      BY <3>1, <2>1 DEF Next, Message
  <2>5. CASE \E x \in Obj : clearAliases(x) \/ \E a \in Alias : addAlias(x, a)
    BY <2>5, <2>1 DEF clearAliases, addAlias, AliasDone, Next, Message
  <2>6. CASE SyncMessage
    BY <2>6 DEF SyncMessage, Next, Message
  <2>7. CASE SignalNodeMessage(Methods)
    <3>1. PICK s \in Sig :
            \/ SignalCreate(s) \/ SignalDelete(s) \/ SignalLock(s) \/ disconnectSignal(s)
            \/ \E who \in Name \union Pattern :
                 \/ disconnectObject(s, who)
                 \/ \E ms \in Methods : connect(s, who, ms) \/ disconnectMethods(s, who, ms)
      BY <2>7 DEF SignalNodeMessage
    <3>2. ASSUME SignalCreate(s) \/ SignalDelete(s) \/ SignalLock(s) \/ disconnectSignal(s)
          PROVE  Handling /\ UNCHANGED tree /\ subModified' \in {subModified, TRUE}
      BY <3>2 DEF SignalCreate, SignalDelete, SignalLock, disconnectSignal
    <3>3. ASSUME NEW who, disconnectObject(s, who)
          PROVE  Handling /\ UNCHANGED tree /\ subModified' \in {subModified, TRUE}
      BY <3>3 DEF disconnectObject
    <3>4. ASSUME NEW who, NEW ms, connect(s, who, ms)
          PROVE  Handling /\ UNCHANGED tree /\ subModified' \in {subModified, TRUE}
      BY <3>4 DEF connect, Processed
    <3>5. ASSUME NEW who, NEW ms, disconnectMethods(s, who, ms)
          PROVE  Handling /\ UNCHANGED tree /\ subModified' \in {subModified, TRUE}
      BY <3>5 DEF disconnectMethods, Processed
    <3>6. Handling /\ UNCHANGED tree /\ subModified' \in {subModified, TRUE}
      BY <3>1, <3>2, <3>3, <3>4, <3>5
    <3>7. QED
      BY <3>6, <2>1 DEF Next, Message
  <2>8. CASE Handler \/ FrameStart \/ SortPass \/ SortEnd \/ SceneCleanup
    BY <2>8 DEF SceneCleanup, Next, Frame
  <2>9. CASE UrlMessage
    <3>1. Handling /\ UNCHANGED tree /\ subModified' \in {subModified, TRUE}
      BY <2>9 DEF UrlMessage, NothingNew, Told, Refused, NullDownloader, UnknownType, Success,
           Delivered, setUrl, updateFileCanceled, fileDownloaded, Downloading, downloadTree, tree
    <3>2. QED
      BY <3>1, <2>1 DEF Next, Message
  <2>10. QED
    BY <2>2, <2>3, <2>4, <2>5, <2>6, <2>7, <2>8, <2>9 DEF SceneNext, Running, SceneMessage
<1>3. QED
  BY <1>1, <1>2, PTL DEF SceneSpec, SafeSpec

\* The two maps of ISync agree in the scene.
THEOREM SceneMapsAgree == SceneSpec => []MapsAgree
<1>1. IInv => MapsAgree
  BY DEF IInv, GraphInv
<1>2. QED
  BY <1>1, SceneSyncs, SafeInvariance, PTL

\* The loop of ISync::cleanup, that goes on after the record that replaces an erased
\* one, keeps the relations of the model, in the scene too.
THEOREM SceneCleanupAgrees == SceneSpec => []CleanupAgrees
BY SceneSyncs, SafeCleanupAgrees, PTL

\* Two objects of the scene never have two relations with the same mappings.
THEOREM SceneNoTwin == SceneSpec => []NoTwin
BY SceneSyncs, SafeNoTwins, PTL

-----------------------------------------------------------------------------
(* The connections and the aliases.                                        *)

Ends == /\ ConnectionsTypeOK
        /\ fAliases \in [Alias -> Name \union {NoName}]
        /\ TargetsAlive
        /\ AliasesAlive

\* What a step may do to the children and the signals without harm to what refers
\* to them: nothing that is alive goes.
LEMMA EndsStay ==
  ASSUME Ends, Live \subseteq Live', LiveSignals \subseteq LiveSignals',
         signals' \subseteq Sig, sigDeleted' \subseteq Sig, sigLocked' \subseteq Sig,
         connections' \subseteq connections, UNCHANGED fAliases
  PROVE  Ends'
BY DEF Ends, ConnectionsTypeOK, TargetsAlive, AliasesAlive

\* The deletion of a child, alone or after the birth of another one.
LEMMA EndsDelete ==
  ASSUME Ends, NEW x \in Obj, Deleted(x), UNCHANGED signalNode,
         Live \ {x} \subseteq Live', x \in locked => x \in Live'
  PROVE  Ends'
<1> USE NoNameAssumption, NameAssumption DEF Ends, ConnectionsTypeOK, TargetsAlive, AliasesAlive
<1>1. LiveSignals' = LiveSignals
  BY DEF signalNode, LiveSignals
<1>2. CASE x \in locked
  BY <1>1, <1>2 DEF Deleted, signalNode
<1>3. CASE x \notin locked
  <2>1. delAliases(NameOf[x]) /\ cleanupTarget(x)
    BY <1>3 DEF Deleted
  <2>2. TargetsAlive' /\ ConnectionsTypeOK'
    BY <1>1, <2>1 DEF cleanupTarget, signalNode
  <2>3. /\ fAliases' \in [Alias -> Name \union {NoName}]
        /\ \A a \in Alias : fAliases'[a] # NoName =>
             fAliases'[a] = fAliases[a] /\ fAliases[a] # NameOf[x]
    BY <2>1 DEF delAliases
  <2>4. AliasesAlive'
    <3> SUFFICES ASSUME NEW a \in Alias, fAliases'[a] # NoName
                 PROVE  \E y \in Live' : NameOf[y] = fAliases'[a]
      OBVIOUS
    <3>1. PICK y \in Live : NameOf[y] = fAliases[a]
      BY <2>3
    <3>2. y # x
      BY <3>1, <2>3
    <3>3. QED
      BY <3>1, <3>2, <2>3
  <2>5. QED
    BY <2>2, <2>3, <2>4
<1>4. QED
  BY <1>2, <1>3

\* The messages to the signals and to their node.
LEMMA EndsSignals ==
  ASSUME TypeOK, Ends, SignalNodeMessage(Methods), UNCHANGED fAliases
  PROVE  Ends'
<1> USE DEF Ends, ConnectionsTypeOK, TargetsAlive, AliasesAlive
<1>1. UNCHANGED tree
  BY DEF SignalNodeMessage, SignalCreate, SignalDelete, SignalLock, connect,
         disconnectSignal, disconnectObject, disconnectMethods
<1>2. Live' = Live
  BY <1>1 DEF tree, children, Live
<1>3. PICK s \in Sig :
        \/ SignalCreate(s) \/ SignalDelete(s) \/ SignalLock(s)
        \/ disconnectSignal(s)
        \/ \E who \in Name \union Pattern :
             \/ disconnectObject(s, who)
             \/ \E ms \in Methods : connect(s, who, ms) \/ disconnectMethods(s, who, ms)
  BY DEF SignalNodeMessage
<1>4. CASE SignalCreate(s)
  BY <1>2, <1>4, EndsStay DEF SignalCreate, LiveSignals
<1>5. CASE SignalDelete(s)
  BY <1>2, <1>5 DEF SignalDelete, cleanupSignal, LiveSignals
<1>6. CASE SignalLock(s)
  BY <1>2, <1>6 DEF SignalLock, LiveSignals
<1>7. ASSUME UNCHANGED signalNode, connections' \subseteq connections
      PROVE  Ends'
  BY <1>2, <1>7, EndsStay DEF signalNode, LiveSignals
<1>8. CASE disconnectSignal(s)
  BY <1>7, <1>8 DEF disconnectSignal
<1>9. CASE \E who \in Name \union Pattern : disconnectObject(s, who)
  BY <1>7, <1>9 DEF disconnectObject
<1>10. CASE \E who \in Name \union Pattern, ms \in Methods : disconnectMethods(s, who, ms)
  BY <1>7, <1>10 DEF disconnectMethods
<1>11. ASSUME NEW who \in Name \union Pattern, NEW ms \in Methods, connect(s, who, ms)
       PROVE  Ends'
  <2> DEFINE unknown == {i \in DOMAIN ms : ms[i] \notin Method}
             made == {ms[i] : i \in Before(ms, unknown)}
  <2>1. PICK x \in Found(who) :
          connections' = {c \in connections : ~ \E m \in made : Keyed(c, who, m)} \union
            {[object |-> x, signal |-> s, who |-> who, method |-> m] : m \in made}
    BY <1>11 DEF connect
  <2>2. made \subseteq Method
    <3>1. \A i \in DOMAIN ms : i \in 1..i
      BY MethodsAssumption
    <3>2. QED
      BY <3>1 DEF Before
  <2>3. s \in LiveSignals /\ UNCHANGED signalNode
    BY <1>11 DEF connect
  <2>4. x \in Live /\ x \in Obj
    BY <2>1 DEF Found, Live, TypeOK
  <2>5. LiveSignals' = LiveSignals /\ s \in Sig
    BY <2>3 DEF signalNode, LiveSignals
  <2>6. connections' \subseteq Connection
    <3>1. ASSUME NEW m \in made
          PROVE  [object |-> x, signal |-> s, who |-> who, method |-> m] \in Connection
      BY <2>2, <2>4, <2>5, <3>1 DEF Connection
    <3>2. QED
      BY <2>1, <3>1
  <2>7. TargetsAlive'
    <3> SUFFICES ASSUME NEW c \in connections'
                 PROVE  c.object \in Live /\ c.signal \in LiveSignals
      BY <1>2, <2>5
    <3>1. CASE c \in connections
      BY <3>1
    <3>2. CASE \E m \in made :
                 c = [object |-> x, signal |-> s, who |-> who, method |-> m]
      BY <2>3, <2>4, <3>2
    <3>3. QED
      BY <2>1, <3>1, <3>2
  <2>8. AliasesAlive' /\ fAliases' \in [Alias -> Name \union {NoName}]
    BY <1>2
  <2>9. signals' \subseteq Sig /\ sigDeleted' \subseteq Sig /\ sigLocked' \subseteq Sig
    BY <2>3 DEF signalNode
  <2>10. QED
    BY <2>6, <2>7, <2>8, <2>9
<1>12. QED
  BY <1>3, <1>4, <1>5, <1>6, <1>8, <1>9, <1>10, <1>11

\* Every step of the scene keeps the ends of the connections and of the aliases.
LEMMA EndsStep ==
  ASSUME TypeOK, Ends, [SceneNext]_sceneVars
  PROVE  Ends'
<1>1. ASSUME UNCHANGED <<elements, deleted, signalNode, connections, fAliases>>
      PROVE  Ends'
  BY <1>1 DEF Ends, ConnectionsTypeOK, TargetsAlive, AliasesAlive, Live, LiveSignals,
              signalNode
<1>2. CASE UNCHANGED sceneVars
  BY <1>1, <1>2 DEF sceneVars, vars, children
<1>3. ASSUME NEW x \in Obj, ObjectCreate(x)
      PROVE  Ends'
  <2>1. Live \subseteq Live' /\ LiveSignals' = LiveSignals
    BY <1>3 DEF ObjectCreate, Create, Free, Live, LiveSignals, signalNode
  <2>2. QED
    BY <1>3, <2>1, EndsStay DEF ObjectCreate, signalNode, Ends, ConnectionsTypeOK
<1>4. ASSUME NEW x \in Obj, ObjectDelete(x)
      PROVE  Ends'
  <2>1. Live \ {x} \subseteq Live' /\ (x \in locked => x \in Live')
    BY <1>4 DEF ObjectDelete, Delete, Live
  <2>2. QED
    BY <1>4, <2>1, EndsDelete DEF ObjectDelete
<1>5. ASSUME NEW x \in Obj, NEW y \in Obj, Replace(x, y)
      PROVE  Ends'
  <2>1. Live \ {x} \subseteq Live' /\ (x \in locked => x \in Live')
    BY <1>5 DEF Replace, Retype, Free, Live
  <2>2. QED
    BY <1>5, <2>1, EndsDelete DEF Replace
<1>6. ASSUME NEW x \in Obj, ObjectLock(x)
      PROVE  Ends'
  BY <1>1, <1>6 DEF ObjectLock, Lock
<1>7. ASSUME NEW x \in Obj, WatchMessage(x), UNCHANGED <<signalNode, connections, fAliases>>
      PROVE  Ends'
  <2>1. UNCHANGED <<elements, deleted>>
    BY <1>7 DEF WatchMessage, reset, pushWatch, popWatch, clearMsg, setMsg, addMsg,
                WatchDone, watchTree, children
  <2>2. QED
    BY <1>1, <1>7, <2>1
<1>8. ASSUME NEW x \in Obj, NEW a \in Alias, addAlias(x, a)
      PROVE  Ends'
  BY <1>8, NameAssumption DEF addAlias, AliasDone, Ends, ConnectionsTypeOK, TargetsAlive,
       AliasesAlive, Live, LiveSignals, signalNode, tree, children
<1>9. ASSUME NEW x \in Obj, clearAliases(x)
      PROVE  Ends'
  BY <1>9 DEF clearAliases, delAliases, AliasDone, Ends, ConnectionsTypeOK, TargetsAlive,
       AliasesAlive, Live, LiveSignals, signalNode, tree, children
<1>10. CASE SyncMessage /\ OnlySync
  BY <1>1, <1>10 DEF SyncMessage, OnlySync, SyncCreate, SyncDelete, SyncDeleteAll, children
<1>11. CASE SignalNodeMessage(Methods) /\ UNCHANGED fAliases
  BY <1>11, EndsSignals
<1>12. CASE Handler /\ OnlySync
  BY <1>1, <1>12 DEF Handler, sync, setSyncOptions, OnlySync, children
<1>13. CASE (FrameStart \/ SortPass \/ SortEnd) /\ OnlySync
  BY <1>1, <1>13 DEF FrameStart, SortPass, SortEnd, OnlySync, children
<1>14. CASE SceneCleanup
  <2>1. Live' = Live
    BY <1>14 DEF SceneCleanup, Cleanup, Live
  <2>2. LiveSignals' = LiveSignals
    BY <1>14 DEF SceneCleanup, SignalsCleanup, LiveSignals
  <2>3. QED
    BY <1>14, <2>1, <2>2, EndsStay
      DEF SceneCleanup, SignalsCleanup, Ends, ConnectionsTypeOK, LiveSignals
<1>15. CASE UrlMessage /\ UNCHANGED <<signalNode, connections, fAliases>>
  <2>1. UNCHANGED <<elements, deleted>>
    BY <1>15 DEF UrlMessage, NothingNew, NullDownloader, UnknownType, setUrl,
                 updateFileCanceled, fileDownloaded, downloadTree, children
  <2>2. QED
    BY <1>1, <1>15, <2>1
<1>16. QED
  BY <1>2, <1>3, <1>4, <1>5, <1>6, <1>7, <1>8, <1>9, <1>10, <1>11, <1>12, <1>13, <1>14, <1>15
    DEF SceneNext, Running, SceneMessage, ObjectRetype, ObjectDownloaded

LEMMA EndsInvariant == SceneSpec => []Ends
<1>1. SceneInit => Ends
  BY NoNameAssumption
    DEF SceneInit, ConnectionsInit, Ends, ConnectionsTypeOK, TargetsAlive, AliasesAlive
<1>2. IInv => TypeOK
  BY DEF IInv
<1>3. QED
  BY <1>1, <1>2, EndsStep, SceneSyncs, SafeInvariance, PTL DEF SceneSpec

\* A connection binds a signal and an object that both exist, and an alias leads to
\* an object that exists: no sequence of messages and frames leaves processSig or
\* SigModified::updateTo with the address of an object that is gone.
THEOREM ConnectionsAlive == SceneSpec => []TargetsAlive
BY EndsInvariant, PTL DEF Ends

THEOREM AliasesLead == SceneSpec => []AliasesAlive
BY EndsInvariant, PTL DEF Ends

\* No message to an object and no frame loses a connection whose ends both remain.
THEOREM ConnectionsStay == SceneSpec => ConnectionsKept
<1> DEFINE Kept == \A c \in connections \ connections' :
                     c.object \in Live' /\ c.signal \in signals' \ sigDeleted'
                       => UNCHANGED <<children, phase>>
           connectionVars == <<vars, signalNode, connections>>
<1>1. ASSUME Ends, [SceneNext]_sceneVars
      PROVE  Kept
  <2>1. ASSUME UNCHANGED connections
        PROVE  Kept
    BY <2>1
  <2>2. CASE UNCHANGED sceneVars
    BY <2>2 DEF sceneVars
  <2>3. ASSUME NEW x \in Obj, ObjectDelete(x)
        PROVE  Kept
    <3>1. CASE x \in locked
      BY <2>1, <2>3, <3>1 DEF ObjectDelete, Deleted
    <3>2. CASE x \notin locked
      BY <2>3, <3>2 DEF ObjectDelete, Delete, Deleted, cleanupTarget, Live
    <3>3. QED
      BY <3>1, <3>2
  <2>4. ASSUME NEW x \in Obj, NEW y \in Obj, Replace(x, y)
        PROVE  Kept
    <3>1. CASE x \in locked
      BY <2>1, <2>4, <3>1 DEF Replace, Deleted
    <3>2. CASE x \notin locked
      <4>1. x \notin Live'
        BY <2>4, <3>2 DEF Replace, Retype, Free, Live
      <4>2. QED
        BY <2>4, <3>2, <4>1 DEF Replace, Deleted, cleanupTarget
    <3>3. QED
      BY <3>1, <3>2
  <2>5. ASSUME NEW x \in Obj, ObjectCreate(x) \/ ObjectLock(x)
        PROVE  Kept
    BY <2>1, <2>5 DEF ObjectCreate, ObjectLock
  <2>6. ASSUME NEW x \in Obj, clearAliases(x) \/ \E a \in Alias : addAlias(x, a)
        PROVE  Kept
    BY <2>1, <2>6 DEF clearAliases, addAlias, AliasDone
  <2>7. CASE SignalNodeMessage(Methods)
    <3>1. UNCHANGED tree
      BY <2>7 DEF SignalNodeMessage, SignalCreate, SignalDelete, SignalLock, connect,
                  disconnectSignal, disconnectObject, disconnectMethods
    <3>2. QED
      BY <3>1 DEF tree
  <2>8. CASE SceneCleanup
    BY <2>1, <2>8 DEF SceneCleanup, SignalsCleanup
  <2>9. CASE OnlySync \/ UNCHANGED connections
    BY <2>1, <2>9 DEF OnlySync
  <2> HIDE DEF Kept
  <2>10. QED
    BY <1>1, <2>2, <2>3, <2>4, <2>5, <2>6, <2>7, <2>8, <2>9
      DEF SceneNext, Running, SceneMessage, ObjectRetype, ObjectDownloaded
<1>2. Ends /\ [SceneNext]_sceneVars => [Kept]_connectionVars
  BY <1>1
<1>3. QED
  BY <1>2, EndsInvariant, PTL DEF SceneSpec, ConnectionsKept

-----------------------------------------------------------------------------
(* The mouse events.                                                       *)

\* MouseReached is not inductive: pop restores a map whose mouse events the object
\* may have forgotten.  Whoever has such a map, current or saved, has a view that
\* accepts the mouse or was told nothing.
Reached(x) == x \in view \union untold

MouseInv ==
  /\ fMsgMap \in [Obj -> Maps]
  /\ fWatchStack \in [Obj -> Seq(Maps)]
  /\ fMouseSensible \subseteq Obj
  /\ \A x \in Obj : /\ checkMouseSensibility(fMsgMap[x]) => x \in fMouseSensible
                    /\ x \in fMouseSensible => Reached(x)
                    /\ \A i \in 1..Len(fWatchStack[x]) :
                         checkMouseSensibility(fWatchStack[x][i]) => Reached(x)

LEMMA MouseNoMap == NoMap \in Maps /\ ~checkMouseSensibility(NoMap)
BY MouseAssumption DEF NoMap, Maps, checkMouseSensibility

\* A new list for event e, or the one the entry has.
LEMMA MouseSet ==
  ASSUME MouseInv, NEW x \in Obj, NEW e \in Event, NEW l \in List,
         fMsgMap' = [fMsgMap EXCEPT ![x][e] = l], Sensible(x, e), UNCHANGED fWatchStack
  PROVE  MouseInv'
<1> USE MouseAssumption DEF MouseInv, Maps, checkMouseSensibility
<1>1. fMsgMap' \in [Obj -> Maps] /\ fMouseSensible' \subseteq Obj
  BY DEF Sensible
<1>2. \A y \in Obj : Reached(y) => Reached(y)'
  BY DEF Sensible, Tell, Reached
<1>3. \A y \in Obj : y \in fMouseSensible' => Reached(y)'
  BY <1>2 DEF Sensible, Tell, Reached
<1>4. ASSUME NEW y \in Obj, checkMouseSensibility(fMsgMap'[y])
      PROVE  y \in fMouseSensible'
  BY <1>4 DEF Sensible, Tell
<1>5. QED
  BY <1>1, <1>2, <1>3, <1>4

LEMMA MouseReset ==
  ASSUME MouseInv, NEW x \in Obj, Reset(x)
  PROVE  MouseInv'
<1> USE MouseNoMap DEF MouseInv
<1>1. /\ fMsgMap' \in [Obj -> Maps] /\ fWatchStack' \in [Obj -> Seq(Maps)]
      /\ fMouseSensible' \subseteq Obj
  BY DEF Reset
<1>2. \A y \in Obj \ {x} : Reached(y)' = Reached(y)
  BY DEF Reset, Tell, Reached
<1>3. \A y \in Obj \ {x} : /\ fMsgMap'[y] = fMsgMap[y]
                           /\ fWatchStack'[y] = fWatchStack[y]
                           /\ y \in fMouseSensible' <=> y \in fMouseSensible
  BY DEF Reset
<1>4. fMsgMap'[x] = NoMap /\ fWatchStack'[x] = <<>> /\ x \notin fMouseSensible'
  BY DEF Reset
<1>5. QED
  BY <1>1, <1>2, <1>3, <1>4

LEMMA MouseWatch ==
  ASSUME MouseInv, NEW x \in Obj, WatchMessage(x)
  PROVE  MouseInv'
<1> USE DEF MouseInv
<1>1. CASE reset(x)
  BY <1>1, MouseReset DEF reset
<1>2. CASE pushWatch(x)
  <2>1. UNCHANGED <<fMsgMap, fMouseSensible, view, untold>>
    BY <1>2 DEF pushWatch
  <2>2. fWatchStack' = [fWatchStack EXCEPT ![x] = Append(fWatchStack[x], fMsgMap[x])]
    BY <1>2 DEF pushWatch
  <2>3. fWatchStack' \in [Obj -> Seq(Maps)]
    BY <2>2
  <2>4. checkMouseSensibility(fMsgMap[x]) => Reached(x)
    OBVIOUS
  <2>5. ASSUME NEW y \in Obj, NEW i \in 1..Len(fWatchStack'[y]),
               checkMouseSensibility(fWatchStack'[y][i])
        PROVE  Reached(y)
    <3>1. CASE y # x
      BY <2>2, <2>5, <3>1
    <3>2. CASE y = x /\ i <= Len(fWatchStack[x])
      BY <2>2, <2>5, <3>2
    <3>3. CASE y = x /\ i = Len(fWatchStack[x]) + 1
      BY <2>2, <2>4, <2>5, <3>3
    <3>4. QED
      BY <2>2, <3>1, <3>2, <3>3
  <2>6. QED
    BY <2>1, <2>3, <2>5 DEF Reached
<1>3. CASE popWatch(x)
  <2>1. CASE fWatchStack[x] = <<>>
    BY <1>3, <2>1, MouseReset DEF popWatch
  <2>2. CASE fWatchStack[x] # <<>>
    <3> DEFINE top == Last(fWatchStack[x])
    <3>1. /\ fMsgMap' = [fMsgMap EXCEPT ![x] = top]
          /\ fWatchStack' = [fWatchStack EXCEPT ![x] = Front(fWatchStack[x])]
          /\ fMouseSensible' = IF checkMouseSensibility(top)
                               THEN fMouseSensible \union {x}
                               ELSE fMouseSensible \ {x}
          /\ UNCHANGED <<view, untold>>
      BY <1>3, <2>2 DEF popWatch
    <3>2. top = fWatchStack[x][Len(fWatchStack[x])] /\ Len(fWatchStack[x]) \in Nat \ {0}
      BY <2>2 DEF Last
    <3>3. top \in Maps /\ (checkMouseSensibility(top) => Reached(x))
      BY <3>2
    <3>4. /\ Front(fWatchStack[x]) \in Seq(Maps)
          /\ \A i \in 1..Len(Front(fWatchStack[x])) :
               i \in 1..Len(fWatchStack[x]) /\ Front(fWatchStack[x])[i] = fWatchStack[x][i]
      BY <3>2 DEF Front
    <3> HIDE DEF top
    <3>5. /\ fMsgMap' \in [Obj -> Maps] /\ fWatchStack' \in [Obj -> Seq(Maps)]
          /\ fMouseSensible' \subseteq Obj
      BY <3>1, <3>3, <3>4
    <3>6. ASSUME NEW y \in Obj
          PROVE  /\ checkMouseSensibility(fMsgMap'[y]) => y \in fMouseSensible'
                 /\ y \in fMouseSensible' => Reached(y)
                 /\ \A i \in 1..Len(fWatchStack'[y]) :
                      checkMouseSensibility(fWatchStack'[y][i]) => Reached(y)
      BY <3>1, <3>3, <3>4
    <3>7. QED
      BY <3>1, <3>5, <3>6 DEF Reached
  <2>3. QED
    BY <2>1, <2>2
<1>4. ASSUME NEW e \in Event, clearMsg(x, e)
      PROVE  MouseInv'
  <2>1. fMsgMap' \in [Obj -> Maps]
    BY <1>4 DEF clearMsg, Maps
  <2>2. \A y \in Obj : checkMouseSensibility(fMsgMap'[y]) => checkMouseSensibility(fMsgMap[y])
    BY <1>4, MouseAssumption DEF clearMsg, checkMouseSensibility, Maps
  <2>3. QED
    BY <1>4, <2>1, <2>2 DEF clearMsg, Reached
<1>5. ASSUME NEW e \in Event, NEW m \in Msg, setMsg(x, e, m)
      PROVE  MouseInv'
  BY <1>5, MouseSet DEF setMsg
<1>6. ASSUME NEW e \in Event, NEW m \in Msg, addMsg(x, e, m)
      PROVE  MouseInv'
  BY <1>6, MouseSet DEF addMsg
<1>7. QED
  BY <1>1, <1>2, <1>3, <1>4, <1>5, <1>6 DEF WatchMessage

LEMMA MouseStep ==
  ASSUME MouseInv, [SceneNext]_sceneVars
  PROVE  MouseInv'
<1> USE MouseNoMap DEF MouseInv
<1>1. ASSUME UNCHANGED watches
      PROVE  MouseInv'
  BY <1>1 DEF watches, Reached
<1>2. ASSUME NEW x \in Obj, NewWatches(x)
      PROVE  MouseInv'
  <2>1. \A y \in Obj \ {x} : Reached(y)' = Reached(y)
    BY <1>2 DEF NewWatches, Reached
  <2>2. QED
    BY <1>2, <2>1 DEF NewWatches
<1>3. ASSUME NEW x \in Obj, NEW y \in Obj, TransferWatches(x, y)
      PROVE  MouseInv'
  <2>1. \A z \in Obj : Reached(z) \/ z = y => Reached(z)'
    BY <1>3 DEF TransferWatches, Reached
  <2>2. QED
    BY <1>3, <2>1 DEF TransferWatches
<1>4. ASSUME NEW gone, DropWatches(gone)
      PROVE  MouseInv'
  <2>1. \A z \in Obj \ gone : Reached(z)' = Reached(z)
    BY <1>4 DEF DropWatches, Reached
  <2>2. /\ fMsgMap' \in [Obj -> Maps] /\ fWatchStack' \in [Obj -> Seq(Maps)]
        /\ fMouseSensible' \subseteq Obj
    BY <1>4 DEF DropWatches
  <2>3. ASSUME NEW z \in Obj
        PROVE  /\ checkMouseSensibility(fMsgMap'[z]) => z \in fMouseSensible'
               /\ z \in fMouseSensible' => Reached(z)'
               /\ \A i \in 1..Len(fWatchStack'[z]) :
                    checkMouseSensibility(fWatchStack'[z][i]) => Reached(z)'
    <3>1. CASE z \in gone
      BY <1>4, <3>1 DEF DropWatches
    <3>2. CASE z \notin gone
      BY <1>4, <2>1, <3>2 DEF DropWatches
    <3>3. QED
      BY <3>1, <3>2
  <2>4. QED
    BY <2>2, <2>3
<1>5. CASE UNCHANGED sceneVars
  BY <1>1, <1>5 DEF sceneVars
<1>6. ASSUME NEW x \in Obj, ObjectCreate(x) \/ ObjectDelete(x) \/ ObjectLock(x)
      PROVE  MouseInv'
  BY <1>1, <1>2, <1>6 DEF ObjectCreate, ObjectDelete, ObjectLock
<1>7. ASSUME NEW x \in Obj, NEW y \in Obj, Replace(x, y)
      PROVE  MouseInv'
  BY <1>3, <1>7 DEF Replace
<1>8. ASSUME NEW x \in Obj, clearAliases(x) \/ \E a \in Alias : addAlias(x, a)
      PROVE  MouseInv'
  BY <1>1, <1>8 DEF clearAliases, addAlias, AliasDone
<1>9. CASE SceneCleanup
  BY <1>4, <1>9 DEF SceneCleanup
<1>10. QED
  BY <1>1, <1>5, <1>6, <1>7, <1>8, <1>9, MouseWatch
    DEF SceneNext, Running, SceneMessage, OnlySync, ObjectRetype, ObjectDownloaded

\* An object that watches a mouse event gets it, through any sequence of watch,
\* watch+, push and pop, on every object whose view was told of its events.
THEOREM MouseWatched == SceneSpec => []MouseReached
<1>1. SceneInit => MouseInv
  BY MouseNoMap DEF SceneInit, WatchesInit, MouseInv, Reached
<1>2. MouseInv /\ TypeOK => MouseReached
  BY MouseAssumption DEF MouseInv, MouseReached, checkMouseSensibility, Reached, TypeOK, Live
<1>3. IInv => TypeOK
  BY DEF IInv
<1>4. QED
  BY <1>1, <1>2, <1>3, MouseStep, SceneSyncs, SafeInvariance, PTL DEF SceneSpec

-----------------------------------------------------------------------------
(* The saved events.                                                       *)

Stored == [Event -> Seq(Msg)]

SavedInv ==
  /\ content \in [List -> Seq(Msg)]
  /\ saved \in [Obj -> Seq(Stored)]
  /\ \A x \in Obj : Len(saved[x]) = Len(fWatchStack[x])
  /\ SavedOnlyGrow

LEMMA PrefixAppend ==
  ASSUME NEW s \in Seq(Msg), NEW t \in Seq(Msg), NEW m \in Msg, IsPrefix(s, t)
  PROVE  IsPrefix(s, Append(t, m))
<1>1. Len(s) <= Len(t) /\ Len(Append(t, m)) = Len(t) + 1
  BY DEF IsPrefix
<1>2. SubSeq(Append(t, m), 1, Len(s)) = SubSeq(t, 1, Len(s))
  BY <1>1
<1>3. QED
  BY <1>1, <1>2 DEF IsPrefix

LEMMA PrefixSelf == ASSUME NEW s \in Seq(Msg) PROVE IsPrefix(s, s)
BY DEF IsPrefix

\* The lists that a stack refers to are left alone or appended to.
LEMMA SavedGrow ==
  ASSUME MouseInv, SavedInv, content' \in [List -> Seq(Msg)],
         UNCHANGED <<fWatchStack, saved>>,
         \A l \in List : Used(l) => \/ content'[l] = content[l]
                                   \/ \E m \in Msg : content'[l] = Append(content[l], m)
  PROVE  SavedInv'
<1> USE DEF SavedInv
<1>1. ASSUME NEW x \in Obj, NEW i \in DOMAIN fWatchStack[x], NEW e \in Event
      PROVE  IsPrefix(saved[x][i][e], Messages(fWatchStack[x][i][e])')
  <2> DEFINE l == fWatchStack[x][i][e]
             s == saved[x][i][e]
  <2>1. l \in List \union {NoList} /\ s \in Seq(Msg) /\ IsPrefix(s, Messages(l))
    <3>1. fWatchStack[x] \in Seq(Maps) /\ saved[x] \in Seq(Stored)
      BY DEF MouseInv
    <3>2. fWatchStack[x][i] \in Maps /\ saved[x][i] \in Stored
      BY <3>1
    <3>3. QED
      BY <3>2 DEF Maps, Stored, SavedOnlyGrow
  <2>2. CASE l = NoList
    BY <2>1, <2>2 DEF Messages
  <2>3. CASE l # NoList
    <3>1. l \in List /\ Used(l)
      BY <2>1, <2>3 DEF Used, Refers
    <3> HIDE DEF l
    <3>2. content[l] \in Seq(Msg) /\ IsPrefix(s, content[l])
      BY <2>1, <2>3, <3>1 DEF Messages
    <3>3. IsPrefix(s, content'[l])
      BY <2>1, <3>1, <3>2, PrefixAppend
    <3>4. Messages(l)' = content'[l]
      BY <2>3 DEF Messages, l
    <3>5. QED
      BY <3>3, <3>4 DEF l, Messages
  <2>4. QED
    BY <2>2, <2>3
<1>2. SavedOnlyGrow'
  BY <1>1 DEF SavedOnlyGrow, Messages
<1>3. QED
  BY <1>2

\* The stack of y becomes empty, or the one of another object: the lists are shared.
LEMMA SavedMove ==
  ASSUME MouseInv, SavedInv, UNCHANGED content,
         \A y \in Obj : \/ fWatchStack'[y] = <<>> /\ saved'[y] = <<>>
                       \/ \E x \in Obj : /\ fWatchStack'[y] = fWatchStack[x]
                                         /\ saved'[y] = saved[x],
         saved' \in [Obj -> Seq(Stored)]
  PROVE  SavedInv'
<1>1. SavedOnlyGrow'
  BY DEF SavedInv, SavedOnlyGrow, Messages
<1>2. QED
  BY <1>1 DEF SavedInv

LEMMA SavedReset ==
  ASSUME MouseInv, SavedInv, NEW x \in Obj, Reset(x)
  PROVE  SavedInv'
<1>1. /\ fWatchStack' = [fWatchStack EXCEPT ![x] = <<>>]
      /\ saved' = [saved EXCEPT ![x] = <<>>]
      /\ UNCHANGED content
  BY DEF Reset
<1>2. saved' \in [Obj -> Seq(Stored)]
  BY <1>1 DEF SavedInv
<1>3. ASSUME NEW y \in Obj
      PROVE  \/ fWatchStack'[y] = <<>> /\ saved'[y] = <<>>
             \/ fWatchStack'[y] = fWatchStack[y] /\ saved'[y] = saved[y]
  <2>1. CASE y = x
    BY <1>1, <2>1 DEF MouseInv, SavedInv
  <2>2. CASE y # x
    BY <1>1, <2>2 DEF MouseInv, SavedInv
  <2>3. QED
    BY <2>1, <2>2
<1>4. QED
  BY <1>1, <1>2, <1>3, SavedMove

LEMMA SavedWatch ==
  ASSUME MouseInv, SavedInv, NEW x \in Obj, WatchMessage(x)
  PROVE  SavedInv'
<1>1. CASE reset(x)
  BY <1>1, SavedReset DEF reset
<1>2. CASE pushWatch(x)
  <2> DEFINE map == fMsgMap[x]
  <2>1. /\ fWatchStack' = [fWatchStack EXCEPT ![x] = Append(fWatchStack[x], map)]
        /\ saved' = [saved EXCEPT ![x] = Append(saved[x], Resolve(map))]
        /\ UNCHANGED content
    BY <1>2 DEF pushWatch
  <2>2. \A e \in Event : Messages(map[e]) \in Seq(Msg)
    BY DEF MouseInv, SavedInv, Maps, Messages
  <2>3. Resolve(map) \in Stored
    BY <2>2 DEF Resolve, Stored
  <2>4. \A e \in Event : IsPrefix(Resolve(map)[e], Messages(map[e]))
    BY <2>2, PrefixSelf DEF Resolve
  <2>5. /\ saved' \in [Obj -> Seq(Stored)]
        /\ \A y \in Obj : Len(saved'[y]) = Len(fWatchStack'[y])
    BY <2>1, <2>3 DEF MouseInv, SavedInv
  <2>6. ASSUME NEW y \in Obj, NEW i \in DOMAIN fWatchStack'[y], NEW e \in Event
        PROVE  IsPrefix(saved'[y][i][e], Messages(fWatchStack'[y][i][e]))
    <3>1. CASE y # x
      BY <2>1, <3>1 DEF SavedInv, SavedOnlyGrow, MouseInv
    <3>2. CASE y = x /\ i <= Len(fWatchStack[x])
      <4>1. fWatchStack[x] \in Seq(Maps) /\ saved[x] \in Seq(Stored)
             /\ Len(saved[x]) = Len(fWatchStack[x])
        BY DEF MouseInv, SavedInv
      <4>2. i \in 1..Len(fWatchStack[x])
        BY <2>1, <3>2, <4>1 DEF MouseInv
      <4>3. fWatchStack'[x][i] = fWatchStack[x][i] /\ saved'[x][i] = saved[x][i]
        BY <2>1, <2>3, <4>1, <4>2 DEF MouseInv, SavedInv
      <4>4. QED
        BY <3>2, <4>1, <4>2, <4>3 DEF SavedInv, SavedOnlyGrow
    <3>3. CASE y = x /\ i = Len(fWatchStack[x]) + 1
      <4>1. fWatchStack'[x][i] = map /\ saved'[x][i] = Resolve(map)
        BY <2>1, <2>3, <3>3 DEF MouseInv, SavedInv
      <4>2. QED
        BY <2>4, <3>3, <4>1
    <3>4. i \in 1..Len(fWatchStack[x]) + 1 \/ y # x
      BY <2>1 DEF MouseInv
    <3>5. QED
      BY <3>1, <3>2, <3>3, <3>4 DEF MouseInv
  <2>7. SavedOnlyGrow'
    <3>1. UNCHANGED content
      BY <2>1
    <3>2. QED
      BY <2>6, <3>1 DEF SavedOnlyGrow, Messages
  <2>8. QED
    BY <2>1, <2>5, <2>7 DEF SavedInv
<1>3. CASE popWatch(x)
  <2>1. CASE fWatchStack[x] = <<>>
    BY <1>3, <2>1, SavedReset DEF popWatch
  <2>2. CASE fWatchStack[x] # <<>>
    <3>1. /\ fWatchStack' = [fWatchStack EXCEPT ![x] = Front(fWatchStack[x])]
          /\ saved' = [saved EXCEPT ![x] = Front(saved[x])]
          /\ UNCHANGED content
      BY <1>3, <2>2 DEF popWatch
    <3>2. /\ fWatchStack[x] \in Seq(Maps) /\ saved[x] \in Seq(Stored)
          /\ Len(saved[x]) = Len(fWatchStack[x]) /\ Len(saved[x]) \in Nat \ {0}
      BY <2>2 DEF MouseInv, SavedInv
    <3>3. /\ Front(saved[x]) \in Seq(Stored)
          /\ Len(Front(saved[x])) = Len(Front(fWatchStack[x]))
          /\ \A i \in DOMAIN Front(fWatchStack[x]) :
               /\ i \in DOMAIN fWatchStack[x]
               /\ Front(fWatchStack[x])[i] = fWatchStack[x][i]
               /\ Front(saved[x])[i] = saved[x][i]
      BY <3>2 DEF Front
    <3>4. ASSUME NEW y \in Obj, NEW i \in DOMAIN fWatchStack'[y], NEW e \in Event
          PROVE  /\ i \in DOMAIN fWatchStack[y]
                 /\ fWatchStack'[y][i] = fWatchStack[y][i]
                 /\ saved'[y][i] = saved[y][i]
      BY <3>1, <3>3 DEF SavedInv, MouseInv
    <3>5. SavedOnlyGrow'
      BY <3>1, <3>4 DEF SavedInv, SavedOnlyGrow, Messages
    <3>6. QED
      BY <3>1, <3>3, <3>5 DEF SavedInv, MouseInv
  <2>3. QED
    BY <2>1, <2>2
<1>4. ASSUME NEW e \in Event, clearMsg(x, e)
      PROVE  SavedInv'
  BY <1>4, SavedGrow DEF clearMsg, SavedInv
<1>5. ASSUME NEW e \in Event, NEW m \in Msg, setMsg(x, e, m)
      PROVE  SavedInv'
  <2>1. PICK l \in List : IsNewList(l) /\ content' = [content EXCEPT ![l] = <<m>>]
    BY <1>5 DEF setMsg
  <2>2. content' \in [List -> Seq(Msg)]
    BY <2>1 DEF SavedInv
  <2>3. QED
    BY <1>5, <2>1, <2>2, SavedGrow DEF setMsg, IsNewList, SavedInv
<1>6. ASSUME NEW e \in Event, NEW m \in Msg, addMsg(x, e, m)
      PROVE  SavedInv'
  <2> DEFINE k == fMsgMap[x][e]
  <2>1. PICK l \in List :
          /\ IF k = NoList THEN IsNewList(l) ELSE l = k
          /\ content' = [content EXCEPT ![l] = Append(Messages(k), m)]
    BY <1>6 DEF addMsg
  <2>2. Messages(k) \in Seq(Msg) /\ (k # NoList => Messages(k) = content[k])
    BY DEF MouseInv, SavedInv, Maps, Messages
  <2> HIDE DEF k
  <2>3. content' \in [List -> Seq(Msg)]
    BY <2>1, <2>2 DEF SavedInv
  <2>4. \A j \in List : Used(j) => \/ content'[j] = content[j]
                                  \/ \E n \in Msg : content'[j] = Append(content[j], n)
    BY <2>1, <2>2 DEF IsNewList, SavedInv
  <2>5. QED
    BY <1>6, <2>3, <2>4, SavedGrow DEF addMsg
<1>7. QED
  BY <1>1, <1>2, <1>3, <1>4, <1>5, <1>6 DEF WatchMessage

LEMMA SavedStep ==
  ASSUME MouseInv, SavedInv, [SceneNext]_sceneVars
  PROVE  SavedInv'
<1> USE DEF SavedInv, MouseInv
<1>1. ASSUME UNCHANGED watches
      PROVE  SavedInv'
  BY <1>1 DEF watches, SavedOnlyGrow, Messages
<1>2. ASSUME NEW x \in Obj, NewWatches(x)
      PROVE  SavedInv'
  <2>1. saved' \in [Obj -> Seq(Stored)] /\ UNCHANGED content
    BY <1>2 DEF NewWatches
  <2>2. ASSUME NEW y \in Obj
        PROVE  \/ fWatchStack'[y] = <<>> /\ saved'[y] = <<>>
               \/ fWatchStack'[y] = fWatchStack[y] /\ saved'[y] = saved[y]
    BY <1>2 DEF NewWatches
  <2> HIDE DEF SavedInv, MouseInv
  <2>3. QED
    BY <2>1, <2>2, SavedMove
<1>3. ASSUME NEW x \in Obj, NEW y \in Obj, TransferWatches(x, y)
      PROVE  SavedInv'
  <2>1. saved' \in [Obj -> Seq(Stored)] /\ UNCHANGED content
    BY <1>3 DEF TransferWatches
  <2>2. ASSUME NEW z \in Obj
        PROVE  \E v \in Obj : fWatchStack'[z] = fWatchStack[v] /\ saved'[z] = saved[v]
    BY <1>3 DEF TransferWatches
  <2> HIDE DEF SavedInv, MouseInv
  <2>3. QED
    BY <2>1, <2>2, SavedMove
<1>4. ASSUME NEW gone, DropWatches(gone)
      PROVE  SavedInv'
  <2>1. saved' \in [Obj -> Seq(Stored)] /\ UNCHANGED content
    BY <1>4 DEF DropWatches
  <2>2. ASSUME NEW y \in Obj
        PROVE  \/ fWatchStack'[y] = <<>> /\ saved'[y] = <<>>
               \/ fWatchStack'[y] = fWatchStack[y] /\ saved'[y] = saved[y]
    <3>1. CASE y \in gone
      BY <1>4, <3>1 DEF DropWatches
    <3>2. CASE y \notin gone
      BY <1>4, <3>2 DEF DropWatches
    <3>3. QED
      BY <3>1, <3>2
  <2> HIDE DEF SavedInv, MouseInv
  <2>3. QED
    BY <2>1, <2>2, SavedMove
<1>5. CASE UNCHANGED sceneVars
  BY <1>1, <1>5 DEF sceneVars
<1>6. ASSUME NEW x \in Obj, ObjectCreate(x) \/ ObjectDelete(x) \/ ObjectLock(x)
      PROVE  SavedInv'
  BY <1>1, <1>2, <1>6 DEF ObjectCreate, ObjectDelete, ObjectLock
<1>7. ASSUME NEW x \in Obj, NEW y \in Obj, Replace(x, y)
      PROVE  SavedInv'
  BY <1>3, <1>7 DEF Replace
<1>8. ASSUME NEW x \in Obj, clearAliases(x) \/ \E a \in Alias : addAlias(x, a)
      PROVE  SavedInv'
  BY <1>1, <1>8 DEF clearAliases, addAlias, AliasDone
<1>9. CASE SceneCleanup
  BY <1>4, <1>9 DEF SceneCleanup
<1> HIDE DEF SavedInv, MouseInv
<1>10. QED
  BY <1>1, <1>5, <1>6, <1>7, <1>8, <1>9, SavedWatch
    DEF SceneNext, Running, SceneMessage, OnlySync, ObjectRetype, ObjectDownloaded

\* pop restores what push saved, and nothing but what watch+ added since: setting,
\* clearing or transferring events never rewrites a list that a saved state shares.
THEOREM SavedKept == SceneSpec => []SavedOnlyGrow
<1>1. SceneInit => MouseInv /\ SavedInv
  BY MouseNoMap
    DEF SceneInit, WatchesInit, MouseInv, Reached, SavedInv, SavedOnlyGrow, Stored
<1>2. SavedInv => SavedOnlyGrow
  BY DEF SavedInv
<1>3. QED
  BY <1>1, <1>2, MouseStep, SavedStep, PTL DEF SceneSpec

-----------------------------------------------------------------------------
(* The downloads.                                                          *)

Post == [to : Name, msg : {"success", "error"}]

\* What the two properties of Downloads rest on: only an intermediate object has a
\* downloader, which was given the path of the object, and the data of another object are
\* those of its path.
DownloadInv ==
  /\ fFile \in [Obj -> Path \union {NoPath}]
  /\ fData \in [Obj -> Path \union {NoPath}]
  /\ downloader \in [Obj -> Downloaders]
  /\ posted \in Seq(Post)
  /\ locked \subseteq Lockable
  /\ \A x \in Obj :
       /\ downloader[x].state # "none" => x \in Url /\ downloader[x].url = fFile[x]
       /\ x \notin Url => fData[x] \in {fFile[x], NoPath}
  /\ ReadyPosted

\* What is left of the messages when the first one is taken, or one is added.
LEMMA PostTaken ==
  ASSUME NEW s \in Seq(Post), NEW i \in 1..Len(s), i # 1
  PROVE  i - 1 \in DOMAIN Tail(s) /\ Tail(s)[i - 1] = s[i]
<1>1. s # <<>>
  OBVIOUS
<1>2. QED
  BY <1>1

LEMMA PostAdded ==
  ASSUME NEW s \in Seq(Post), NEW m \in Post
  PROVE  /\ Len(s) + 1 \in DOMAIN Append(s, m) /\ Append(s, m)[Len(s) + 1] = m
         /\ \A i \in DOMAIN s : i \in DOMAIN Append(s, m) /\ Append(s, m)[i] = s[i]
OBVIOUS

LEMMA DownloaderState ==
  ASSUME NEW x \in Obj, NEW p \in Paths(x), NEW type \in Types
  PROVE  /\ p \in Path \union {NoPath}
         /\ Downloader(p, type) \in Downloaders
         /\ Downloader(p, type).state \in {"none", "waiting"}
         /\ Downloader(p, type).state # "none" => x \in Url /\ Downloader(p, type).url = p
BY PathAssumption DEF Paths, Downloader, NoDownloader, Downloaders, States, Types

LEMMA DownloaderNone == NoDownloader \in Downloaders /\ NoDownloader.state = "none"
BY DEF NoDownloader, Downloaders, States

\* The messages that are not about the downloads.
LEMMA DownloadsAlone ==
  ASSUME DownloadInv, UNCHANGED downloads, locked' \subseteq Lockable, Live' \subseteq Live
  PROVE  DownloadInv'
BY DEF DownloadInv, downloads, ReadyPosted

\* One object gets a new file, and a new downloader or none; x may lose its own.
LEMMA DownloadsStart ==
  ASSUME TypeOK, DownloadInv, NEW x \in Obj, NEW y \in Obj,
         NEW p \in Paths(y), NEW type \in Asked,
         fFile' = [fFile EXCEPT ![y] = p],
         downloader' = [downloader EXCEPT ![x] = NoDownloader, ![y] = Downloader(p, type)],
         \/ fData' = [fData EXCEPT ![y] = NoPath]
         \/ y \in Url /\ UNCHANGED fData,
         UNCHANGED posted, locked' \subseteq Lockable, Live' \subseteq Live \union {y}
  PROVE  DownloadInv'
<1> USE DEF DownloadInv
<1>1. /\ p \in Path \union {NoPath}
      /\ Downloader(p, type) \in Downloaders
      /\ Downloader(p, type).state \in {"none", "waiting"}
      /\ Downloader(p, type).state # "none" => y \in Url /\ Downloader(p, type).url = p
  BY DownloaderState, AskedAssumption
<1>2. /\ fFile' \in [Obj -> Path \union {NoPath}]
      /\ fData' \in [Obj -> Path \union {NoPath}]
      /\ downloader' \in [Obj -> Downloaders]
  BY <1>1, DownloaderNone
<1>3. ASSUME NEW z \in Obj
      PROVE  /\ downloader'[z].state # "none" => z \in Url /\ downloader'[z].url = fFile'[z]
             /\ z \notin Url => fData'[z] \in {fFile'[z], NoPath}
             /\ downloader'[z].state \in {"data", "told"}
                  => downloader'[z] = downloader[z] /\ z # y
  <2>1. CASE z = y
    BY <1>1, <2>1
  <2>2. CASE z # y /\ z = x
    BY <2>2, DownloaderNone
  <2>3. CASE z # y /\ z # x
    BY <2>3
  <2>4. QED
    BY <2>1, <2>2, <2>3
<1>4. ReadyPosted'
  <2>1. Live' \subseteq Obj
    BY DEF TypeOK, Live
  <2>2. QED
    BY <1>3, <2>1 DEF ReadyPosted
<1>5. QED
  BY <1>2, <1>3, <1>4

\* What the next message leaves to be told, when it does so of all the objects it reaches.
LEMMA PostLeft ==
  ASSUME DownloadInv, posted # <<>>, posted' = Tail(posted),
         NEW x \in Live, downloader[x].state = "data",
         Head(posted) # [to |-> NameOf[x], msg |-> "success"]
  PROVE  \E i \in DOMAIN posted' : posted'[i] = [to |-> NameOf[x], msg |-> "success"]
<1>1. posted \in Seq(Post)
  BY DEF DownloadInv
<1>2. PICK i \in 1..Len(posted) : posted[i] = [to |-> NameOf[x], msg |-> "success"]
  BY <1>1 DEF DownloadInv, ReadyPosted
<1>3. i # 1
  BY <1>1, <1>2
<1>4. i - 1 \in DOMAIN posted' /\ posted'[i - 1] = posted[i]
  BY <1>1, <1>3, PostTaken
<1>5. QED
  BY <1>2, <1>4

LEMMA DownloadsUrl ==
  ASSUME TypeOK, DownloadInv, UrlMessage
  PROVE  DownloadInv'
<1>1. Live' = Live /\ UNCHANGED locked
  BY DEF UrlMessage, NothingNew, NullDownloader, UnknownType, setUrl, updateFileCanceled,
         fileDownloaded, downloadTree, children, Live
<1>2. locked \subseteq Lockable /\ Live \subseteq Obj
  BY DEF DownloadInv, TypeOK, Live
<1>3. CASE NullDownloader
  BY <1>1, <1>3 DEF NullDownloader, DownloadInv, ReadyPosted
<1>4. CASE NothingNew
  <2>1. posted # <<>> /\ posted' = Tail(posted) /\ UNCHANGED <<fFile, fData, downloader>>
    BY <1>4 DEF NothingNew, Told, Refused, Delivered
  <2>2. \A x \in Live : downloader[x].state = "data" =>
          Head(posted) # [to |-> NameOf[x], msg |-> "success"]
    <3> SUFFICES ASSUME NEW x \in Live, downloader[x].state = "data",
                        Head(posted) = [to |-> NameOf[x], msg |-> "success"]
                 PROVE  FALSE
      OBVIOUS
    <3>1. x \in Targets(Head(posted).to)
      BY <1>2 DEF Targets, Matched, DownloadInv
    <3>2. PICK z \in Url : Delivered({z}) /\ ~HasData(z)
      BY <1>4, <3>1 DEF NothingNew, Told, Refused, Delivered
    <3>3. QED
      BY <3>1, <3>2 DEF Delivered, HasData
  <2>3. ReadyPosted'
    BY <1>1, <2>1, <2>2, PostLeft DEF ReadyPosted, DownloadInv
  <2>4. QED
    BY <1>1, <2>1, <2>3 DEF DownloadInv
<1>5. ASSUME NEW x \in Obj, updateFileCanceled(x)
      PROVE  DownloadInv'
  <2>1. /\ downloader' = [downloader EXCEPT ![x] = NoDownloader]
        /\ UNCHANGED <<fFile, fData, posted>>
    BY <1>5 DEF updateFileCanceled
  <2>2. NoDownloader \in Downloaders /\ NoDownloader.state = "none"
    BY DownloaderNone
  <2>3. \A z \in Obj : downloader'[z].state # "none" => downloader'[z] = downloader[z]
    BY <2>1, <2>2 DEF DownloadInv
  <2>4. ReadyPosted'
    BY <1>1, <1>2, <2>1, <2>3 DEF DownloadInv, ReadyPosted
  <2>5. QED
    BY <1>1, <2>1, <2>2, <2>3, <2>4 DEF DownloadInv
<1>6. ASSUME NEW x \in Obj, NEW p \in Path, NEW type \in Asked, setUrl(x, p, type)
      PROVE  DownloadInv'
  <2>1. /\ x \in Url /\ p \in Paths(x)
        /\ fFile' = [fFile EXCEPT ![x] = p]
        /\ downloader' = [downloader EXCEPT ![x] = Downloader(p, type)]
        /\ UNCHANGED <<fData, posted>>
    BY <1>6 DEF setUrl, Downloading, Paths
  <2>2. downloader' = [downloader EXCEPT ![x] = NoDownloader, ![x] = Downloader(p, type)]
    BY <2>1 DEF DownloadInv
  <2>3. QED
    BY <1>1, <1>2, <2>1, <2>2, DownloadsStart DEF DownloadInv
<1>7. ASSUME NEW x \in Obj, NEW outcome \in {"data", "nothing", "failed"},
             fileDownloaded(x, outcome)
      PROVE  DownloadInv'
  <2> DEFINE m == [to |-> NameOf[x],
                   msg |-> IF outcome = "failed" THEN "error" ELSE "success"]
  <2>1. /\ downloader[x].state = "waiting"
        /\ downloader' = [downloader EXCEPT ![x].state = outcome]
        /\ posted' = Append(posted, m)
        /\ UNCHANGED <<fFile, fData>>
    BY <1>7 DEF fileDownloaded
  <2>2. m \in Post /\ posted' \in Seq(Post)
    <3>1. NameOf[x] \in Name
      BY NameAssumption
    <3>2. m \in Post
      BY <3>1 DEF Post
    <3>3. posted \in Seq(Post)
      BY DEF DownloadInv
    <3> HIDE DEF m
    <3>4. QED
      BY <2>1, <3>2, <3>3
  <2> HIDE DEF m
  <2>3. /\ Len(posted) + 1 \in DOMAIN posted' /\ posted'[Len(posted) + 1] = m
        /\ \A i \in DOMAIN posted : i \in DOMAIN posted' /\ posted'[i] = posted[i]
    <3>1. posted \in Seq(Post)
      BY DEF DownloadInv
    <3>2. QED
      BY <2>1, <2>2, <3>1, PostAdded
  <2>4. /\ downloader' \in [Obj -> Downloaders]
        /\ downloader'[x].state = outcome /\ downloader'[x].url = downloader[x].url
        /\ \A z \in Obj \ {x} : downloader'[z] = downloader[z]
    BY <2>1 DEF DownloadInv, Downloaders, States
  <2>5. ASSUME NEW z \in Live, downloader'[z].state = "told"
        PROVE  downloader'[z] = downloader[z]
    BY <1>2, <2>4, <2>5
  <2>6. ReadyPosted'
    <3>1. ASSUME NEW z \in Live, downloader'[z].state = "data"
          PROVE  \E i \in DOMAIN posted' :
                   posted'[i] = [to |-> NameOf[z], msg |-> "success"]
      <4>1. CASE z = x
        BY <2>3, <2>4, <3>1, <4>1 DEF m
      <4>2. CASE z # x
        BY <1>2, <2>3, <2>4, <3>1, <4>2 DEF DownloadInv, ReadyPosted
      <4>3. QED
        BY <4>1, <4>2
    <3>2. QED
      BY <1>1, <2>5, <3>1 DEF ReadyPosted, DownloadInv
  <2>7. \A z \in Obj : downloader'[z].state # "none" =>
                         z \in Url /\ downloader'[z].url = fFile[z]
    BY <2>1, <2>4 DEF DownloadInv
  <2>8. QED
    BY <1>1, <2>1, <2>2, <2>4, <2>6, <2>7 DEF DownloadInv
<1>8. CASE UnknownType
  <2>1. PICK x \in Url : /\ Success(x) /\ HasData(x) /\ downloader[x].type = "unknown"
                         /\ downloader' = [downloader EXCEPT ![x].state = "told"]
    BY <1>8 DEF UnknownType
  <2>2. posted # <<>> /\ posted' = Tail(posted) /\ UNCHANGED <<fFile, fData>>
    BY <1>8, <2>1 DEF UnknownType, Success, Delivered
  <2>3. x \in Obj
    BY UrlAssumption
  <2>4. /\ downloader' \in [Obj -> Downloaders]
        /\ downloader'[x].state = "told" /\ downloader'[x].type = "unknown"
        /\ downloader'[x].url = downloader[x].url /\ downloader[x].state # "none"
        /\ \A z \in Obj \ {x} : downloader'[z] = downloader[z]
    BY <2>1, <2>3 DEF DownloadInv, Downloaders, States, HasData
  <2>5. ASSUME NEW z \in Live
        PROVE  /\ downloader'[z].state = "data" =>
                    \E i \in DOMAIN posted' : posted'[i] = [to |-> NameOf[z], msg |-> "success"]
               /\ downloader'[z].state = "told" =>
                    z \in Lockable \/ downloader'[z].type = "unknown"
    <3>1. CASE z = x
      BY <2>4, <3>1
    <3>2. CASE z # x
      <4>1. downloader'[z] = downloader[z]
        BY <1>2, <2>4, <3>2
      <4>2. ASSUME downloader[z].state = "data"
            PROVE  Head(posted) # [to |-> NameOf[z], msg |-> "success"]
        BY <1>2, <2>1, <3>2, <4>2 DEF Success, Delivered, Targets, Matched, DownloadInv
      <4>3. QED
        BY <2>2, <4>1, <4>2, PostLeft DEF DownloadInv, ReadyPosted
    <3>3. QED
      BY <3>1, <3>2
  <2>6. ReadyPosted'
    BY <1>1, <2>5 DEF ReadyPosted
  <2>7. \A z \in Obj : downloader'[z].state # "none" =>
                         z \in Url /\ downloader'[z].url = fFile[z]
    BY <2>4 DEF DownloadInv
  <2>8. posted' \in Seq(Post)
    BY <2>2 DEF DownloadInv
  <2>9. QED
    BY <1>1, <2>2, <2>4, <2>6, <2>7, <2>8 DEF DownloadInv
<1>9. QED
  BY <1>3, <1>4, <1>5, <1>6, <1>7, <1>8 DEF UrlMessage

\* The replacement of an intermediate object by the one of its data.
LEMMA DownloadsDone ==
  ASSUME TypeOK, DownloadInv, NEW x \in Obj, NEW y \in Obj, ObjectDownloaded(x, y)
  PROVE  DownloadInv'
<1> DEFINE type == downloader[x].type
           file == IF type = "graphic" THEN NoPath ELSE fFile[x]
           data == IF type = "graphic" THEN NoPath ELSE downloader[x].url
<1>1. /\ posted # <<>> /\ Targets(Head(posted).to) = {x} /\ Head(posted).msg = "success"
      /\ downloader[x].state \in {"data", "told"}
      /\ fFile' = [fFile EXCEPT ![y] = file]
      /\ fData' = [fData EXCEPT ![y] = data]
      /\ downloader' = [downloader EXCEPT ![x].state = "told", ![y] = NoDownloader]
      /\ posted' = Tail(posted)
  BY DEF ObjectDownloaded, updateFileSucceded, Success, Delivered, HasData
<1>2. x \in Url /\ downloader[x].url = fFile[x]
  BY <1>1 DEF DownloadInv
<1>3. /\ Live' \subseteq Live \union {y} /\ Live' \subseteq Obj
      /\ x \in Live' => x \in Lockable
      /\ locked' \subseteq Lockable /\ x # y
  BY DEF ObjectDownloaded, Replace, Retype, Free, Live, DownloadInv, TypeOK
<1>4. /\ file \in Path \union {NoPath} /\ data \in Path \union {NoPath}
      /\ data \in {file, NoPath}
  BY <1>2 DEF DownloadInv
<1> HIDE DEF file, data, type
<1>5. /\ downloader'[x] = [downloader[x] EXCEPT !.state = "told"]
      /\ downloader'[y] = NoDownloader
      /\ \A z \in Obj \ {x, y} : downloader'[z] = downloader[z]
  BY <1>1, <1>3 DEF DownloadInv
<1>6. /\ fFile' \in [Obj -> Path \union {NoPath}]
      /\ fData' \in [Obj -> Path \union {NoPath}]
      /\ posted' \in Seq(Post)
  BY <1>1, <1>4 DEF DownloadInv
<1>7. downloader' \in [Obj -> Downloaders]
  <2>1. [downloader[x] EXCEPT !.state = "told"] \in Downloaders
    BY DEF DownloadInv, Downloaders, States
  <2>2. QED
    BY <1>1, <1>5, <2>1, DownloaderNone DEF DownloadInv
<1>8. ASSUME NEW z \in Obj
      PROVE  /\ downloader'[z].state # "none" => z \in Url /\ downloader'[z].url = fFile'[z]
             /\ z \notin Url => fData'[z] \in {fFile'[z], NoPath}
  <2>1. CASE z = y
    BY <1>1, <1>4, <1>5, <2>1, DownloaderNone DEF DownloadInv
  <2>2. CASE z = x
    <3>1. downloader'[x].url = downloader[x].url /\ fFile'[x] = fFile[x]
      BY <1>1, <1>3, <1>5 DEF DownloadInv, Downloaders
    <3>2. QED
      BY <1>2, <2>2, <3>1
  <2>3. CASE z \notin {x, y}
    BY <1>1, <1>5, <2>3 DEF DownloadInv
  <2>4. QED
    BY <2>1, <2>2, <2>3
<1>9. ASSUME NEW z \in Live'
      PROVE  /\ downloader'[z].state = "data" =>
                  \E i \in DOMAIN posted' : posted'[i] = [to |-> NameOf[z], msg |-> "success"]
             /\ downloader'[z].state = "told" =>
                  z \in Lockable \/ downloader'[z].type = "unknown"
  <2>1. CASE z = x
    <3>1. downloader'[x].state = "told"
      BY <1>5 DEF DownloadInv, Downloaders
    <3>2. QED
      BY <1>3, <2>1, <3>1
  <2>2. CASE z = y
    BY <1>5, <2>2, DownloaderNone
  <2>3. CASE z \notin {x, y}
    <3>1. z \in Live /\ downloader'[z] = downloader[z]
      BY <1>3, <1>5, <2>3
    <3>2. ASSUME downloader[z].state = "data"
          PROVE  Head(posted) # [to |-> NameOf[z], msg |-> "success"]
      BY <1>1, <1>3, <2>3, <3>1, <3>2 DEF Targets, Matched, DownloadInv
    <3>3. QED
      BY <1>1, <3>1, <3>2, PostLeft DEF DownloadInv, ReadyPosted
  <2>4. QED
    BY <2>1, <2>2, <2>3
<1>10. ReadyPosted'
  BY <1>9 DEF ReadyPosted
<1>11. QED
  BY <1>3, <1>6, <1>7, <1>8, <1>10 DEF DownloadInv

LEMMA DownloadsStep ==
  ASSUME TypeOK, DownloadInv, [SceneNext]_sceneVars
  PROVE  DownloadInv'
<1>1. locked \subseteq Lockable
  BY DEF DownloadInv
<1>2. CASE UNCHANGED sceneVars
  BY <1>1, <1>2, DownloadsAlone DEF sceneVars, vars, children, Live
<1>3. ASSUME NEW x \in Obj, ObjectCreate(x)
      PROVE  DownloadInv'
  <2>1. PICK p \in Paths(x), type \in Asked :
          /\ fFile' = [fFile EXCEPT ![x] = p]
          /\ downloader' = [downloader EXCEPT ![x] = Downloader(p, type)]
    BY <1>3 DEF ObjectCreate, NewDownload
  <2>2. downloader' = [downloader EXCEPT ![x] = NoDownloader, ![x] = Downloader(p, type)]
    BY <2>1 DEF DownloadInv
  <2>3. fData' = [fData EXCEPT ![x] = NoPath] /\ UNCHANGED posted
    BY <1>3 DEF ObjectCreate, NewDownload
  <2>4. Live' \subseteq Live \union {x} /\ locked' \subseteq Lockable
    BY <1>1, <1>3 DEF ObjectCreate, Create, Live
  <2>5. QED
    BY <2>1, <2>2, <2>3, <2>4, DownloadsStart
<1>4. ASSUME NEW x \in Obj, NEW y \in Obj, ObjectRetype(x, y)
      PROVE  DownloadInv'
  <2>1. PICK p \in Paths(y), type \in Asked :
          /\ fFile' = [fFile EXCEPT ![y] = p]
          /\ downloader' = [downloader EXCEPT ![x] = NoDownloader, ![y] = Downloader(p, type)]
    BY <1>4 DEF ObjectRetype, ChangedType
  <2>2. fData' = [fData EXCEPT ![y] = NoPath] /\ UNCHANGED posted
    BY <1>4 DEF ObjectRetype, ChangedType
  <2>3. Live' \subseteq Live \union {y} /\ locked' \subseteq Lockable
    BY <1>1, <1>4 DEF ObjectRetype, Replace, Retype, Live
  <2>4. QED
    BY <2>1, <2>2, <2>3, DownloadsStart
<1>5. ASSUME NEW x \in Obj, ObjectDelete(x) \/ ObjectLock(x)
      PROVE  DownloadInv'
  BY <1>1, <1>5, DownloadsAlone DEF ObjectDelete, Delete, ObjectLock, Lock, Live
<1>6. ASSUME NEW x \in Obj, WatchMessage(x), UNCHANGED downloads
      PROVE  DownloadInv'
  <2>1. UNCHANGED children
    BY <1>6 DEF WatchMessage, reset, pushWatch, popWatch, clearMsg, setMsg, addMsg,
                WatchDone, watchTree
  <2>2. QED
    BY <1>1, <1>6, <2>1, DownloadsAlone DEF children, Live
<1>7. ASSUME NEW x \in Obj, clearAliases(x) \/ \E a \in Alias : addAlias(x, a)
      PROVE  DownloadInv'
  BY <1>1, <1>7, DownloadsAlone DEF clearAliases, addAlias, AliasDone, tree, children, Live
<1>8. CASE SyncMessage /\ OnlySync
  BY <1>1, <1>8, DownloadsAlone
    DEF SyncMessage, SyncCreate, SyncDelete, SyncDeleteAll, OnlySync, children, Live
<1>9. CASE SignalNodeMessage(Methods) /\ UNCHANGED downloads
  <2>1. UNCHANGED children
    BY <1>9 DEF SignalNodeMessage, SignalCreate, SignalDelete, SignalLock, connect,
                disconnectSignal, disconnectObject, disconnectMethods, tree
  <2>2. QED
    BY <1>1, <1>9, <2>1, DownloadsAlone DEF children, Live
<1>10. CASE (Handler \/ FrameStart \/ SortPass \/ SortEnd) /\ OnlySync
  BY <1>1, <1>10, DownloadsAlone
    DEF Handler, sync, setSyncOptions, FrameStart, SortPass, SortEnd, OnlySync, children, Live
<1>11. CASE SceneCleanup
  <2> DEFINE gone == {x \in Obj \ elements' : ~Referenced(x)'}
  <2>1. DropDownloads(gone) /\ Live' = Live /\ Live \subseteq Obj \ gone
        /\ locked' \subseteq Lockable
    BY <1>1, <1>11 DEF SceneCleanup, Cleanup, Live, TypeOK
  <2> HIDE DEF gone
  <2>2. \A x \in Obj : \/ downloader'[x] = NoDownloader /\ fData'[x] = NoPath /\ x \notin Live
                       \/ /\ downloader'[x] = downloader[x]
                          /\ fData'[x] = fData[x] /\ fFile'[x] = fFile[x]
    BY <2>1 DEF DropDownloads
  <2>3. /\ fFile' \in [Obj -> Path \union {NoPath}]
        /\ fData' \in [Obj -> Path \union {NoPath}]
        /\ downloader' \in [Obj -> Downloaders]
        /\ UNCHANGED posted
    BY <2>1, DownloaderNone DEF DropDownloads, DownloadInv
  <2>4. NoDownloader.state = "none"
    BY DownloaderNone
  <2>5. ReadyPosted'
    BY <2>1, <2>2, <2>3, <2>4 DEF DownloadInv, ReadyPosted
  <2>6. QED
    BY <2>1, <2>2, <2>3, <2>4, <2>5 DEF DownloadInv
<1>12. QED
  BY <1>2, <1>3, <1>4, <1>5, <1>6, <1>7, <1>8, <1>9, <1>10, <1>11, DownloadsUrl, DownloadsDone
    DEF SceneNext, Running, SceneMessage

LEMMA DownloadInvariant == SceneSpec => []DownloadInv
<1>1. SceneInit => DownloadInv
  BY DownloaderNone DEF SceneInit, Init, DownloadsInit, DownloadInv, ReadyPosted, Live
<1>2. IInv => TypeOK
  BY DEF IInv
<1>3. QED
  BY <1>1, <1>2, DownloadsStep, SceneSyncs, SafeInvariance, PTL DEF SceneSpec

\* No reply that comes late, after a cancel, a change of the path or of the type, or the
\* deletion of an object of that name, gives an object the data of another path.
THEOREM OwnData == SceneSpec => []DataOfFile
<1>1. DownloadInv /\ TypeOK => DataOfFile
  BY DEF DownloadInv, DataOfFile, TypeOK, Live
<1>2. IInv => TypeOK
  BY DEF IInv
<1>3. QED
  BY <1>1, <1>2, DownloadInvariant, SceneSyncs, SafeInvariance, PTL

\* An intermediate object whose data have come and that was not told of it has a success
\* on its way, and one that was told remains only when it may be locked or when nothing is
\* made of the type that was asked for (IUrlIntermediateObject::updateFileSucceded).
THEOREM ReadyTold == SceneSpec => []ReadyPosted
BY DownloadInvariant, PTL DEF DownloadInv

-----------------------------------------------------------------------------
(* The types, and the bounds of the stacks.                                *)

\* What SceneTypeOK adds to the invariants above.
BoundInv ==
  /\ \A x \in Obj : Len(fWatchStack[x]) <= MaxPush
  /\ \A l \in List : Len(content[l]) <= MaxMsgs
  /\ view \subseteq Obj /\ untold \subseteq Obj
  /\ Len(posted) <= MaxPosted

LEMMA BoundWatch ==
  ASSUME MouseInv, SavedInv, BoundInv, NEW x \in Obj, WatchMessage(x), UNCHANGED posted
  PROVE  BoundInv'
<1> USE ListAssumption DEF MouseInv, SavedInv, BoundInv
<1>1. ASSUME Reset(x) PROVE BoundInv'
  BY <1>1 DEF Reset, Tell
<1>2. CASE reset(x)
  BY <1>1, <1>2 DEF reset
<1>3. CASE pushWatch(x)
  <2>1. fWatchStack' = [fWatchStack EXCEPT ![x] = Append(fWatchStack[x], fMsgMap[x])]
        /\ Len(fWatchStack[x]) < MaxPush /\ UNCHANGED <<content, view, untold>>
    BY <1>3 DEF pushWatch
  <2>2. fWatchStack[x] \in Seq(Maps) /\ Len(Append(fWatchStack[x], fMsgMap[x])) <= MaxPush
    BY <2>1
  <2> QED
    BY <2>1, <2>2
<1>4. CASE popWatch(x)
  <2>1. CASE fWatchStack[x] = <<>>
    BY <1>1, <1>4, <2>1 DEF popWatch
  <2>2. CASE fWatchStack[x] # <<>>
    <3>1. fWatchStack' = [fWatchStack EXCEPT ![x] = Front(fWatchStack[x])]
          /\ UNCHANGED <<content, view, untold>>
      BY <1>4, <2>2 DEF popWatch
    <3>2. Len(Front(fWatchStack[x])) <= Len(fWatchStack[x])
      <4>1. fWatchStack[x] \in Seq(Maps)
        OBVIOUS
      <4> QED
        BY <2>2, <4>1 DEF Front
    <3>3. \A y \in Obj : Len(fWatchStack'[y]) <= MaxPush
      <4>1. Len(Front(fWatchStack[x])) \in Int /\ Len(fWatchStack[x]) \in Int
        BY <2>2 DEF Front
      <4> QED
        BY <3>1, <3>2, <4>1
    <3> QED
      BY <3>1, <3>3
  <2> QED
    BY <2>1, <2>2
<1>5. ASSUME NEW e \in Event, clearMsg(x, e) PROVE BoundInv'
  BY <1>5 DEF clearMsg
<1>6. ASSUME NEW e, Sensible(x, e) PROVE view' \subseteq Obj /\ untold' \subseteq Obj
  BY <1>6 DEF Sensible, Tell
<1>7. ASSUME NEW e \in Event, NEW m \in Msg, setMsg(x, e, m) PROVE BoundInv'
  <2>1. PICK l \in List : content' = [content EXCEPT ![l] = <<m>>]
    BY <1>7 DEF setMsg
  <2>2. UNCHANGED fWatchStack /\ view' \subseteq Obj /\ untold' \subseteq Obj
    BY <1>6, <1>7 DEF setMsg
  <2>3. \A k \in List : Len(content'[k]) <= MaxMsgs
    BY <2>1
  <2> QED
    BY <2>2, <2>3
<1>8. ASSUME NEW e \in Event, NEW m \in Msg, addMsg(x, e, m) PROVE BoundInv'
  <2> DEFINE old == Messages(fMsgMap[x][e])
  <2>1. PICK l \in List : content' = [content EXCEPT ![l] = Append(old, m)]
    BY <1>8 DEF addMsg
  <2>2. /\ UNCHANGED fWatchStack /\ view' \subseteq Obj /\ untold' \subseteq Obj
        /\ Len(old) < MaxMsgs
    BY <1>6, <1>8 DEF addMsg
  <2>3. old \in Seq(Msg)
    <3>1. fMsgMap[x][e] \in List \union {NoList}
      BY DEF Maps
    <3> QED
      BY <3>1 DEF Messages
  <2> HIDE DEF old
  <2>4. Len(Append(old, m)) <= MaxMsgs
    BY <2>2, <2>3
  <2>5. \A k \in List : Len(content'[k]) <= MaxMsgs
    BY <2>1, <2>4
  <2> QED
    BY <2>2, <2>5
<1> QED
  BY <1>2, <1>3, <1>4, <1>5, <1>7, <1>8 DEF WatchMessage

LEMMA BoundStep ==
  ASSUME TypeOK, MouseInv, SavedInv, DownloadInv, BoundInv, [SceneNext]_sceneVars
  PROVE  BoundInv'
<1>1. ASSUME UNCHANGED <<watches, posted>>
      PROVE  BoundInv'
  BY <1>1 DEF BoundInv, watches
<1>2. ASSUME Len(posted') <= MaxPosted, NEW x \in Obj, NEW y \in Obj, TransferWatches(x, y)
      PROVE  BoundInv'
  BY <1>2 DEF BoundInv, MouseInv, TransferWatches
<1>3. posted # <<>> => Len(Tail(posted)) <= MaxPosted
  BY PathAssumption DEF BoundInv, DownloadInv
<1>4. CASE UNCHANGED sceneVars
  BY <1>1, <1>4 DEF sceneVars, downloads
<1>5. ASSUME NEW x \in Obj, ObjectCreate(x) PROVE BoundInv'
  BY <1>5, ListAssumption DEF ObjectCreate, NewWatches, NewDownload, BoundInv, MouseInv
<1>6. ASSUME NEW x \in Obj, ObjectDelete(x) \/ ObjectLock(x) PROVE BoundInv'
  BY <1>1, <1>6 DEF ObjectDelete, ObjectLock, downloads
<1>7. ASSUME NEW x \in Obj, NEW y \in Obj, ObjectRetype(x, y) PROVE BoundInv'
  <2>1. TransferWatches(x, y) /\ UNCHANGED posted
    BY <1>7 DEF ObjectRetype, Replace, ChangedType
  <2> QED
    BY <1>2, <2>1 DEF BoundInv
<1>8. ASSUME NEW x \in Obj, NEW y \in Obj, ObjectDownloaded(x, y) PROVE BoundInv'
  <2>1. TransferWatches(x, y) /\ posted # <<>> /\ posted' = Tail(posted)
    BY <1>8 DEF ObjectDownloaded, Replace, updateFileSucceded, Success, Delivered
  <2> QED
    BY <1>2, <1>3, <2>1
<1>9. ASSUME NEW x \in Obj, WatchMessage(x),
             UNCHANGED <<signalNode, connections, downloads, fAliases, session>>
      PROVE  BoundInv'
  BY <1>9, BoundWatch DEF downloads
<1>10. CASE \E x \in Obj : clearAliases(x) \/ \E a \in Alias : addAlias(x, a)
  BY <1>1, <1>10 DEF clearAliases, addAlias, AliasDone, downloads
<1>11. CASE OnlySync
  BY <1>1, <1>11 DEF OnlySync, downloads
<1>12. CASE UNCHANGED <<watches, downloads, fAliases, session>>
  BY <1>1, <1>12 DEF downloads
<1>13. CASE UrlMessage /\ UNCHANGED <<signalNode, connections, watches, fAliases, session>>
  <2>1. ASSUME Len(posted') <= MaxPosted PROVE BoundInv'
    BY <1>13, <2>1 DEF BoundInv, watches
  <2>2. CASE NothingNew
    BY <1>3, <2>1, <2>2 DEF NothingNew, Told, Refused, Delivered
  <2>5. CASE UnknownType
    BY <1>3, <2>1, <2>5 DEF UnknownType, Success, Delivered
  <2>3. CASE NullDownloader \/ \E x \in Obj :
               updateFileCanceled(x) \/ \E p \in Path, type \in Asked : setUrl(x, p, type)
    BY <2>1, <2>3 DEF NullDownloader, updateFileCanceled, setUrl, BoundInv
  <2>4. ASSUME NEW x \in Obj, NEW outcome, fileDownloaded(x, outcome) PROVE BoundInv'
    <3> DEFINE m == [to |-> NameOf[x], msg |-> IF outcome = "failed" THEN "error" ELSE "success"]
    <3>1. posted' = Append(posted, m) /\ Len(posted) < MaxPosted
      BY <2>4 DEF fileDownloaded
    <3>2. Len(Append(posted, m)) <= MaxPosted
      BY <3>1, PathAssumption DEF DownloadInv
    <3> QED
      BY <2>1, <3>1, <3>2
  <2> QED
    BY <1>13, <2>2, <2>3, <2>4, <2>5 DEF UrlMessage
<1>14. CASE SceneCleanup
  BY <1>14, ListAssumption DEF SceneCleanup, DropWatches, DropDownloads, BoundInv
<1> QED
  BY <1>4, <1>5, <1>6, <1>7, <1>8, <1>9, <1>10, <1>11, <1>12, <1>13, <1>14
    DEF SceneNext, Running, SceneMessage

\* The scene keeps the types of its parts, and the bounds of its stacks and lists.
THEOREM SceneTypeCorrect == SceneSpec => []SceneTypeOK
<1>1. SceneInit => MouseInv /\ SavedInv /\ BoundInv
  <2>1. SceneInit => MouseInv /\ SavedInv
    BY MouseNoMap
      DEF SceneInit, WatchesInit, MouseInv, Reached, SavedInv, SavedOnlyGrow, Stored
  <2>2. SceneInit => BoundInv
    BY ListAssumption, PathAssumption DEF SceneInit, WatchesInit, DownloadsInit, BoundInv
  <2> QED
    BY <2>1, <2>2
<1> DEFINE Rest == session \in Sessions /\ crashed \in BOOLEAN
<1>2. SceneInit /\ [][SceneNext]_sceneVars => []Rest
  <2>1. Rest /\ [SceneNext]_sceneVars => Rest'
    <3> SUFFICES ASSUME [SceneNext]_sceneVars
                 PROVE  session' = session /\ (crashed' = crashed \/ crashed' = TRUE)
      OBVIOUS
    <3>1. CASE UNCHANGED sceneVars
      BY <3>1 DEF sceneVars, downloads
    <3>2. CASE SceneMessage
      <4>1. session' = session
        BY <3>2 DEF SceneMessage, ObjectCreate, ObjectDelete, ObjectLock, ObjectRetype,
             ObjectDownloaded, Replace, OnlySync, clearAliases, addAlias, AliasDone
      <4>2. CASE UrlMessage
        <5>1. NothingNew \/ UnknownType => crashed' = crashed
          BY DEF NothingNew, UnknownType
        <5>3. NullDownloader => crashed' = TRUE
          BY DEF NullDownloader
        <5>2. ASSUME NEW x, NEW p, NEW type, NEW outcome,
                     \/ updateFileCanceled(x) \/ setUrl(x, p, type)
                     \/ fileDownloaded(x, outcome)
              PROVE  crashed' = crashed
          BY <5>2 DEF updateFileCanceled, setUrl, fileDownloaded
        <5> QED
          BY <4>1, <4>2, <5>1, <5>2, <5>3 DEF UrlMessage
      <4>3. CASE ~UrlMessage
        <5>1. ASSUME NEW x, NEW y, ObjectRetype(x, y) \/ ObjectDownloaded(x, y)
              PROVE  crashed' = crashed
          BY <5>1 DEF ObjectRetype, ObjectDownloaded, ChangedType, updateFileSucceded
        <5>2. ASSUME UNCHANGED downloads PROVE crashed' = crashed
          BY <5>2 DEF downloads
        <5>3. ASSUME NEW x, ObjectCreate(x) PROVE crashed' = crashed
          BY <5>3 DEF ObjectCreate, NewDownload
        <5> QED
          BY <3>2, <4>1, <4>3, <5>1, <5>2, <5>3 DEF SceneMessage, ObjectDelete, ObjectLock,
               OnlySync, clearAliases, addAlias, AliasDone
      <4> QED
        BY <4>1, <4>2, <4>3
    <3>3. CASE SceneCleanup \/ OnlySync
      BY <3>3 DEF SceneCleanup, DropDownloads, OnlySync, downloads
    <3> QED
      BY <3>1, <3>2, <3>3 DEF SceneNext, Running
  <2>2. SceneInit => Rest
    BY DEF SceneInit, DownloadsInit
  <2> QED
    BY <2>1, <2>2, PTL
<1>3. IInv => TypeOK
  BY DEF IInv
<1>4. SceneSpec => [](TypeOK /\ Ends /\ DownloadInv)
  BY <1>3, EndsInvariant, DownloadInvariant, SceneSyncs, SafeInvariance, PTL
<1>5. SceneSpec => [](MouseInv /\ SavedInv /\ BoundInv)
  BY <1>1, <1>4, MouseStep, SavedStep, BoundStep, PTL DEF SceneSpec
<1>6. TypeOK /\ Ends /\ DownloadInv /\ MouseInv /\ SavedInv /\ BoundInv /\ Rest
        => SceneTypeOK
  <2>1. MouseInv /\ SavedInv /\ BoundInv => WatchesTypeOK
    BY DEF MouseInv, SavedInv, BoundInv, WatchesTypeOK
  <2>2. DownloadInv /\ BoundInv /\ crashed \in BOOLEAN => DownloadsTypeOK
    BY DEF DownloadInv, BoundInv, DownloadsTypeOK, Post
  <2> QED
    BY <2>1, <2>2 DEF SceneTypeOK, Ends
<1> QED
  BY <1>2, <1>4, <1>5, <1>6, PTL DEF SceneSpec
=============================================================================
