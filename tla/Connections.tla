---------------------------- MODULE Connections ----------------------------
(***************************************************************************)
(* The signal node of a container: its signals and the connections that    *)
(* bind them to attributes of the container's children (ISignalNode).  A   *)
(* connection keeps a smart pointer to its signal and a raw pointer to its *)
(* object, which every frame dereferences: the deletion of the children    *)
(* and the connections must agree.  The children are those of SyncGraph.   *)
(* The values of the signals and the ranges of the connections are left    *)
(* out, a range that is not well-formed counts as an unknown method.       *)
(***************************************************************************)
EXTENDS SyncGraph, Sequences

CONSTANTS
  Sig,        \* addresses a signal may be allocated at
  SigName,    \* signal names
  SigNameOf,  \* the name of the signal an address is used for
  Method,     \* attributes that have a signal handler
  Pattern     \* regular expressions that match every name

ASSUME SigAssumption == SigNameOf \in [Sig -> SigName]
ASSUME PatternAssumption == Pattern \intersect Name = {}

VARIABLES
  signals,      \* the subnodes of the signal node
  sigDeleted,   \* signals whose fDelete is set
  sigLocked,    \* signals whose fLock is set
  connections   \* ISignalNode::fConnections

signalNode == <<signals, sigDeleted, sigLocked>>
tree       == <<children, graph, work, phase, sorting>>

\* fObject, fSignal, and fKey: the object as the connect message wrote it, and
\* the method.
Connection == [object : Obj, signal : Sig, who : Name \union Pattern, method : Method]

ConnectionsTypeOK ==
  /\ signals \subseteq Sig
  /\ sigDeleted \subseteq Sig
  /\ sigLocked \subseteq Sig
  /\ connections \subseteq Connection

LiveSignals == signals \ sigDeleted

\* IObject::find: a name or an expression.
Found(who) == {x \in Live : who \in Pattern \/ NameOf[x] = who}

ConnectionsInit ==
  /\ signals = {} /\ sigDeleted = {} /\ sigLocked = {}
  /\ connections = {}

-----------------------------------------------------------------------------
(* Messages to the signals.                                                *)

\* A message to an unknown signal: IProxy creates it.  Nothing tells the container.
SignalCreate(s) ==
  /\ Handling
  /\ s \notin signals
  /\ \A c \in connections : c.signal # s
  /\ \A t \in LiveSignals : SigNameOf[t] # SigNameOf[s]
  /\ signals' = signals \union {s}
  /\ sigDeleted' = sigDeleted \ {s}
  /\ sigLocked' = sigLocked \ {s}
  /\ UNCHANGED <<connections, tree, subModified>>

cleanupSignal(s) == connections' = {c \in connections : c.signal # s}

\* ISignal::del removes the connections first; the deletion may then be refused.
SignalDelete(s) ==
  /\ Handling
  /\ s \in LiveSignals
  /\ cleanupSignal(s)
  /\ sigDeleted' = sigDeleted \union ({s} \ sigLocked)
  /\ subModified' = TRUE
  /\ UNCHANGED <<signals, sigLocked, tree>>

SignalLock(s) ==
  /\ Handling
  /\ s \in LiveSignals
  /\ sigLocked' \in {sigLocked \union {s}, sigLocked \ {s}}
  /\ subModified' = TRUE
  /\ UNCHANGED <<signals, sigDeleted, connections, tree>>

-----------------------------------------------------------------------------
(* Messages to the signal node.                                            *)

\* The methods of a message that are handled: those before the first refused one.
Before(ms, refused) == {i \in DOMAIN ms : 1..i \intersect refused = {}}

\* A message that is refused, even half way, does not mark the node as modified.
\* One that names several objects is a step for each of them: what was done for an
\* object stays when the next one is refused.
Processed(ms, done) ==
  subModified' \in (IF done = DOMAIN ms THEN {subModified, TRUE} ELSE {subModified})

Keyed(c, who, m) == c.who = who /\ c.method = m

\* ISignalNode::connect: x is the first object found.  The order of the children
\* is abstracted.  Each method replaces the connection of the same key.
connect(s, who, ms) ==
  /\ Handling
  /\ s \in LiveSignals
  /\ \E x \in Found(who) :
       LET unknown == {i \in DOMAIN ms : ms[i] \notin Method}
           done == Before(ms, unknown)
           made == {ms[i] : i \in done}
       IN /\ connections' =
               {c \in connections : ~ \E m \in made : Keyed(c, who, m)} \union
               {[object |-> x, signal |-> s, who |-> who, method |-> m] : m \in made}
          /\ Processed(ms, done)
  /\ UNCHANGED <<signalNode, tree>>

\* ISignalConnection::contains: signals and objects are compared by name.
contains(c, s) == SigNameOf[c.signal] = SigNameOf[s]

\* [2] signal, [3] signal object, and [1] signal object:methods, which gives up at
\* the first method that is not connected.
disconnectSignal(s) ==
  /\ Handling
  /\ s \in LiveSignals
  /\ connections' = {c \in connections : ~contains(c, s)}
  /\ subModified' = TRUE
  /\ UNCHANGED <<signalNode, tree>>

disconnectObject(s, who) ==
  /\ Handling
  /\ s \in LiveSignals /\ Found(who) # {}
  /\ connections' = {c \in connections : ~(contains(c, s) /\ NameOf[c.object] = who)}
  /\ subModified' = TRUE
  /\ UNCHANGED <<signalNode, tree>>

disconnectMethods(s, who, ms) ==
  LET of(m) == {c \in connections : Keyed(c, who, m) /\ contains(c, s)}
      missing == {i \in DOMAIN ms : of(ms[i]) = {} \/ \E j \in 1..(i - 1) : ms[j] = ms[i]}
      done == Before(ms, missing)
  IN /\ Handling
     /\ s \in LiveSignals /\ Found(who) # {}
     /\ connections' = connections \ UNION {of(ms[i]) : i \in done}
     /\ Processed(ms, done)
     /\ UNCHANGED <<signalNode, tree>>

SignalNodeMessage(Methods) ==
  \E s \in Sig :
    \/ SignalCreate(s) \/ SignalDelete(s) \/ SignalLock(s)
    \/ disconnectSignal(s)
    \/ \E who \in Name \union Pattern :
         \/ disconnectObject(s, who)
         \/ \E ms \in Methods : connect(s, who, ms) \/ disconnectMethods(s, who, ms)

-----------------------------------------------------------------------------
(* The parts of the operations of the container that concern the signals.   *)

\* IObject::_del, once the deletion is not refused.
cleanupTarget(x) == connections' = {c \in connections : c.object # x}

\* IObject::cleanup of the signal node: no connection refers to a deleted signal.
SignalsCleanup ==
  /\ signals' = LiveSignals
  /\ sigDeleted' = {}
  /\ sigLocked' = sigLocked \intersect signals'
  /\ UNCHANGED connections

-----------------------------------------------------------------------------
(* Properties.                                                             *)

\* No connection outlives one of its ends: processSig and SigModified::updateTo
\* follow the raw pointer of the object, and the signal of a connection is one
\* that messages still reach (IObject::_del, ISignal::del, IObject::cleanup).
TargetsAlive ==
  \A c \in connections : c.object \in Live /\ c.signal \in LiveSignals

\* A connection is only lost with one of its ends or by a message to the signal
\* node (a step that changes no child and ends no frame): the deletion of another
\* object, be it of the same name, and the cleanup of a frame keep it.
ConnectionsKept ==
  [][\A c \in connections \ connections' :
       c.object \in Live' /\ c.signal \in signals' \ sigDeleted'
         => UNCHANGED <<children, phase>>]_<<vars, signalNode, connections>>
=============================================================================
