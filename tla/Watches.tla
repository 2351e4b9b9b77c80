------------------------------ MODULE Watches ------------------------------
(***************************************************************************)
(* The events that the children of a container watch (EventsAble): the     *)
(* list of messages of each watched event, the stack of the saved states,  *)
(* and the two flags that say whether the mouse is watched, one in the     *)
(* object and one in its view.  The lists are shared by reference between  *)
(* the current state, the saved ones, and an object and the one that       *)
(* replaces it.  Time events are in TimeTask.  The children are those of   *)
(* SyncGraph.                                                              *)
(***************************************************************************)
EXTENDS SyncGraph, Sequences, SequencesExt

CONSTANTS
  Event,       \* names of simple events
  MouseEvent,  \* the mouse and touch events
  Msg,         \* lists of messages a watch message may carry
  MaxList,     \* bound: message lists in memory
  MaxMsgs,     \* bound: lists appended to one list
  MaxPush,     \* bound: states in a stack
  NoList       \* no entry for an event

ASSUME MouseAssumption == MouseEvent \subseteq Event
ASSUME ListAssumption  == MaxList \in Nat /\ MaxMsgs \in Nat \ {0} /\ MaxPush \in Nat
ASSUME NoListAssumption == NoList \notin 1..MaxList

VARIABLES
  fMsgMap,         \* event -> its list, for each object
  fWatchStack,     \* the saved maps of each object
  content,         \* what was put in each list, in order
  fMouseSensible,  \* objects that believe that their view gets mouse events
  view,            \* objects whose view accepts mouse events
  untold,          \* objects that inherited the events, their view was told nothing
  saved            \* the messages of the saved maps when they were saved

watches == <<fMsgMap, fWatchStack, content, fMouseSensible, view, untold, saved>>
watchTree == <<children, graph, work, phase, sorting>>

List   == 1..MaxList
Maps   == [Event -> List \union {NoList}]
NoMap  == [e \in Event |-> NoList]

WatchesTypeOK ==
  /\ fMsgMap \in [Obj -> Maps]
  /\ \A x \in Obj : fWatchStack[x] \in Seq(Maps) /\ Len(fWatchStack[x]) <= MaxPush
  /\ \A l \in List : content[l] \in Seq(Msg) /\ Len(content[l]) <= MaxMsgs
  /\ fMouseSensible \subseteq Obj /\ view \subseteq Obj /\ untold \subseteq Obj

WatchesInit ==
  /\ fMsgMap = [x \in Obj |-> NoMap]
  /\ fWatchStack = [x \in Obj |-> <<>>]
  /\ content = [l \in List |-> <<>>]
  /\ fMouseSensible = {} /\ view = {} /\ untold = {}
  /\ saved = [x \in Obj |-> <<>>]

-----------------------------------------------------------------------------
(* Message lists.                                                          *)

Refers(map, l) == \E e \in Event : map[e] = l
Used(l) == \E x \in Obj : \/ Refers(fMsgMap[x], l)
                          \/ \E i \in DOMAIN fWatchStack[x] : Refers(fWatchStack[x][i], l)

\* A new list takes the first place that no smart pointer refers to.
IsNewList(l) == l \in List /\ ~Used(l) /\ \A k \in 1..(l - 1) : Used(k)

Messages(l) == IF l = NoList THEN <<>> ELSE content[l]
Resolve(map) == [e \in Event |-> Messages(map[e])]

-----------------------------------------------------------------------------
(* Watch messages.                                                         *)

\* setMouseEventSensibility: the view is told.
Tell(x, sensible) ==
  /\ view' = IF sensible THEN view \union {x} ELSE view \ {x}
  /\ untold' = untold \ {x}

Mut_Sensible(x, e) ==
  IF e \in MouseEvent /\ x \notin fMouseSensible \union view
  THEN fMouseSensible' = fMouseSensible \union {x} /\ Tell(x, TRUE)
  ELSE UNCHANGED <<fMouseSensible, view, untold>>

\* The first watched mouse event makes the object sensible.
Sensible(x, e) ==
  IF e \in MouseEvent /\ x \notin fMouseSensible
  THEN fMouseSensible' = fMouseSensible \union {x} /\ Tell(x, TRUE)
  ELSE UNCHANGED <<fMouseSensible, view, untold>>

Watching(x) == Handling /\ x \in Live
WatchDone   == subModified' = TRUE /\ UNCHANGED watchTree

Mut_setMsg(x, e, m) ==
  /\ Watching(x)
  /\ \E l \in List :
       /\ IF fMsgMap[x][e] = NoList THEN IsNewList(l) ELSE l = fMsgMap[x][e]
       /\ fMsgMap' = [fMsgMap EXCEPT ![x][e] = l]
       /\ content' = [content EXCEPT ![l] = <<m>>]
  /\ Sensible(x, e)
  /\ UNCHANGED <<fWatchStack, saved>>
  /\ WatchDone

\* watch event messages: the entry gets a list of its own.
setMsg(x, e, m) ==
  /\ Watching(x)
  /\ \E l \in List :
       /\ IsNewList(l)
       /\ fMsgMap' = [fMsgMap EXCEPT ![x][e] = l]
       /\ content' = [content EXCEPT ![l] = <<m>>]
  /\ Sensible(x, e)
  /\ UNCHANGED <<fWatchStack, saved>>
  /\ WatchDone

\* watch event: the entry is erased, the sensibility to the mouse is left alone.
clearMsg(x, e) ==
  /\ Watching(x)
  /\ fMsgMap' = [fMsgMap EXCEPT ![x][e] = NoList]
  /\ UNCHANGED <<fWatchStack, content, fMouseSensible, view, untold, saved>>
  /\ WatchDone

\* watch+ event messages: appended to the list of the entry, if there is one.
addMsg(x, e, m) ==
  /\ Watching(x)
  /\ \E l \in List :
       /\ IF fMsgMap[x][e] = NoList THEN IsNewList(l) ELSE l = fMsgMap[x][e]
       /\ Len(Messages(fMsgMap[x][e])) < MaxMsgs
       /\ fMsgMap' = [fMsgMap EXCEPT ![x][e] = l]
       /\ content' = [content EXCEPT ![l] = Append(Messages(fMsgMap[x][e]), m)]
  /\ Sensible(x, e)
  /\ UNCHANGED <<fWatchStack, saved>>
  /\ WatchDone

\* EventsAble::reset.
Reset(x) ==
  /\ fMsgMap' = [fMsgMap EXCEPT ![x] = NoMap]
  /\ fWatchStack' = [fWatchStack EXCEPT ![x] = <<>>]
  /\ saved' = [saved EXCEPT ![x] = <<>>]
  /\ fMouseSensible' = fMouseSensible \ {x}
  /\ IF x \in fMouseSensible THEN Tell(x, FALSE) ELSE UNCHANGED <<view, untold>>
  /\ UNCHANGED content

\* watch, with no parameter.
reset(x) == Watching(x) /\ Reset(x) /\ WatchDone

pushWatch(x) ==
  /\ Watching(x)
  /\ Len(fWatchStack[x]) < MaxPush
  /\ fWatchStack' = [fWatchStack EXCEPT ![x] = Append(@, fMsgMap[x])]
  /\ saved' = [saved EXCEPT ![x] = Append(@, Resolve(fMsgMap[x]))]
  /\ UNCHANGED <<fMsgMap, content, fMouseSensible, view, untold>>
  /\ WatchDone

checkMouseSensibility(map) == \E e \in MouseEvent : map[e] # NoList

\* pop restores the last saved maps, and the flag of the object but not its view;
\* with an empty stack it is a reset.
popWatch(x) ==
  /\ Watching(x)
  /\ IF fWatchStack[x] = <<>> THEN Reset(x)
     ELSE LET top == Last(fWatchStack[x]) IN
          /\ fMsgMap' = [fMsgMap EXCEPT ![x] = top]
          /\ fWatchStack' = [fWatchStack EXCEPT ![x] = Front(@)]
          /\ saved' = [saved EXCEPT ![x] = Front(@)]
          /\ fMouseSensible' = IF checkMouseSensibility(top)
                               THEN fMouseSensible \union {x}
                               ELSE fMouseSensible \ {x}
          /\ UNCHANGED <<content, view, untold>>
  /\ WatchDone

WatchMessage(x) ==
  \/ reset(x) \/ pushWatch(x) \/ popWatch(x)
  \/ \E e \in Event :
       clearMsg(x, e) \/ \E m \in Msg : setMsg(x, e, m) \/ addMsg(x, e, m)

-----------------------------------------------------------------------------
(* The parts of the operations of the container that concern the events.    *)

\* The view of a new object is created with it, and accepts no mouse event.
NewWatches(x) ==
  /\ fMsgMap' = [fMsgMap EXCEPT ![x] = NoMap]
  /\ fWatchStack' = [fWatchStack EXCEPT ![x] = <<>>]
  /\ saved' = [saved EXCEPT ![x] = <<>>]
  /\ fMouseSensible' = fMouseSensible \ {x}
  /\ view' = view \ {x} /\ untold' = untold \ {x}
  /\ UNCHANGED content

\* transferAttributes: y gets the maps and the flag of x, the same lists; its
\* view is not told.
TransferWatches(x, y) ==
  /\ fMsgMap' = [fMsgMap EXCEPT ![y] = fMsgMap[x]]
  /\ fWatchStack' = [fWatchStack EXCEPT ![y] = fWatchStack[x]]
  /\ saved' = [saved EXCEPT ![y] = saved[x]]
  /\ fMouseSensible' = IF x \in fMouseSensible THEN fMouseSensible \union {y}
                                               ELSE fMouseSensible \ {y}
  /\ view' = view \ {y}
  /\ untold' = untold \union {y}
  /\ UNCHANGED content

\* The objects that the cleanup of the container erases.
DropWatches(gone) ==
  /\ fMsgMap' = [x \in Obj |-> IF x \in gone THEN NoMap ELSE fMsgMap[x]]
  /\ fWatchStack' = [x \in Obj |-> IF x \in gone THEN <<>> ELSE fWatchStack[x]]
  /\ saved' = [x \in Obj |-> IF x \in gone THEN <<>> ELSE saved[x]]
  /\ fMouseSensible' = fMouseSensible \ gone
  /\ view' = view \ gone /\ untold' = untold \ gone
  /\ UNCHANGED content

-----------------------------------------------------------------------------
(* Properties.                                                             *)

\* An object that has messages for a mouse event gets the event: its view accepts
\* it, whatever watch, watch+, push and pop came before.  Objects that inherited
\* their events through a change of their type are the exception, until their view
\* is told again (IObject::transferAttributes).
MouseReached ==
  \A x \in Live : \A e \in MouseEvent :
    fMsgMap[x][e] # NoList => x \in fMouseSensible /\ x \in view \union untold

\* What push saved is what pop restores, but for the messages that watch+ added to
\* a list in the meantime: no other message reaches the saved lists, which the
\* current map and other objects share (EventsAble::pushWatch, TWatcher::add).
SavedOnlyGrow ==
  \A x \in Obj : \A i \in DOMAIN fWatchStack[x] : \A e \in Event :
    IsPrefix(saved[x][i][e], Messages(fWatchStack[x][i][e]))
=============================================================================
