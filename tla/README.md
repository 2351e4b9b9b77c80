# INScore: TLA+ models, model checking and proofs

INScore is an environment for interactive augmented scores: a tree of graphic objects that
is driven by OSC messages, scripts, events of its own objects and web clients, and that is
updated by a periodic *time task*. This directory models the parts of `src/src/inscore` and
`src/src/inscore2/sorter` where the order of things matters: the queues between the threads,
the time task and its events, everything that refers to an object that may be deleted or
replaced (relations, connections of signals, watched events, downloads, aliases), what a frame
draws again, the answers to the web clients, the evaluation of the scripts of version 2 and the
scheduler that plays their delayed messages. Eleven state machines, two of which are
compositions (`Scene`, `Player`), two abstract specifications (a queue, an agenda), the evaluation of
the scripts as operators with a definition of what a script says, and eight modules of proofs:
every safety property of the passing runs is also a theorem, but one that stands on recursive
operators (`PlayedAsWritten`).

Paths below are relative to `src/src/inscore` unless they start with `src/`.

## 1. Inventory

### Components, their state and their operations

| component | state | operations | interacts with |
|---|---|---|---|
| message stacks (`controller/IMessageStack`, `MessageBuffer`) | ring of 10000 pointers, a write and a read position; three instances: `gMsgStack`, `gDelayStack`, `gWebMsgStack` | `push`/`write`, `pop`/`read`, `resize` (constructor only) | pushed by the OSC thread, the Qt thread, the web threads; popped by the time task |
| time task (`controller/IGlue::timerEvent`, `IController`) | the stacks, the rate, the UDP ports | clock, `modelUpdate` (process the stacks, wake the web clients), signals, mapping and view updates, `cleanup` of the model, transfer of the delayed messages | calls everything below |
| object tree (`model/IObject`, `IProxy`, `IAppl`, `IScene`) | children, `fDelete`, `fLock`, `fState`, aliases | create (an unknown address), `set` (may replace an object by one of another type), `del` (deferred to the cleanup), `lock`, `cleanup` | deleted objects stay referenced by relations and views until the cleanup |
| synchronization (`model/ISync`, `ISceneSync`) | two multimaps: slave to masters, master to slaves | the messages of the `sync` node (add, change the options, remove), `checkLoop`, the topological sorts, `cleanup` | the sorts are called by the three updaters of the time task (`controller/Updater`), cleanup by `IObject::cleanup` |
| dates and time events (`model/IDate`, `events/TimeEventAble`) | date, duration, tempo; intervals watched | `date`, `ddate`, `clock`, `tempo`, `duration`, `dduration`, `durClock`, `move` (at each cleanup) | events push messages; `move` posts a delayed message |
| simple events (`events/EventsAble`, `MouseEventAble`, `TMessageEvaluator`) | maps from events to messages, a stack of saved maps | `watch`, `watch+`, `pushWatch`, `popWatch`, the test of an event after each message | evaluated messages go to `gMsgStack` or `gDelayStack` |
| scheduler of delayed messages (`src/src/inscore2/sorter`) | four levels of lists, one per byte of a 32 bits date; the ready list | `put`, `clock` (every millisecond, `IAppl::timerEvent`) | filled by scripts and events with a delay; sends to the stacks |
| web API (`web/WebApi`, `httpserver`, `web/QtWebSocket*`) | a mutex, a wait condition, the error stream `oscerr` shared with everybody | `postScript` and read requests, from a thread per connection | the web stack, the wake up of the time task |
| OSC input and output (`controller/IOSCListener`, `lib/OSCStream`) | sockets, the current packet, the collected errors | `ProcessMessage` pushes; `start`/`end`, `activeConcatError` | own thread for the input |
| mapping (`controller/IMappingUpdater`, libmapping) | relations between segments | composition, update for slaves | uses the order of the sorts |
| signals (`model/ISignalNode`, `model/ISignal`, `signal`) | signals (rings of floats), connections of signals to attributes of objects, by raw pointers | `connect`, `disconnect`, the deletion of a signal or of an object, `processSig` | every frame follows the pointers (`controller/Updater`) |
| downloads (`controller/QFileDownloader`, `model/IUrlIntermediateObject`) | the path, a downloader and its data; the messages it posts | `set`, cancel, reply of the network, `success` and `error` messages | the real object replaces the intermediate one by a `set` with another type |
| `inscore2` evaluation (`src/src/inscore2`: `parseEval`, `evaluator`, `pathsList`, `inscorev1converter`; `model/TILoader`) | trees of nodes, some shared; the variables | sequences and parallels, variables, the paths with their delays, the conversion to messages | its messages are processed, or put in the scheduler |
| parsers, score expressions, scripting | trees, variables | parse and evaluate | produce messages |
| views, sensors, plugins, viewer and tools | Qt and device objects | drawing, devices, external code | read the model, send messages |

### Which behaviours are hard

* Several threads push on a stack that is called lock-free; indexes are 16 bits unsigned.
* A deleted object is only flagged; messages of the same tick still meet it, its relations
  survive until the cleanup, and another object of its name may be created meanwhile.
* The sorts loop until every child is placed: a loop of relations, or a relation to an object
  that is not a child any more, freezes the time task.
* Events post messages that change objects that have events: loops are legal and must not
  keep a tick busy for ever; some messages go through the delay stack and some do not.
* A web client waits on a condition that the time task signals without its mutex; the errors
  are collected in a stream that is shared without a lock.
* Delayed messages move through lists that are resorted in part at each clock.
* `set` with another type builds a new object, gives it some of what the old one had, and
  deletes the old one, which may refuse. Two objects then bear the same name.
* Event maps are copied but their lists are shared: by the current map, the saved ones and the
  object that inherits them. The sensibility to the mouse is kept twice, in the object and in
  its view.
* The message of a download is addressed by name and waits with others that cancel it, change
  the path, delete the object or create another one of that name.
* Marks of modification are set by messages, spread by three passes of a frame and wiped by
  its cleanup: a mark that is set after the pass, or wiped before it, is lost.
* The thread that listens is terminated where it stands when the port changes.
* The delays of a script go from node to node by three rewritings, two of them in place; the
  tree of a variable is shared by its uses.

### What makes each component correct

* *stacks*: a bounded first in first out queue; a loss only when full, and reported.
* *synchronization*: no loop ever; both maps agree; no two relations of the same mappings; a
  relation of living objects is only removed by a message; none is left of a deleted one; the
  sorts progress and every frame ends.
* *time task and events*: every tick ends; an attribute event is served by the next tick, no
  earlier and no later; a moving object has exactly one move to come; the last event of an
  interval tells on which side of it the date is.
* *scheduler*: each element is delivered at its date, once, in the order of the puts.
* *scripts*: a script is played path by path, each message at its own date.
* *web API*: scripts are not mixed, all their messages are applied, every client is answered,
  and its answer tells its errors.
* *object tree*: a connection or an alias never outlives what it leads to; the deletion of an
  object takes nothing from another one.
* *simple events*: what `push` saved is what `pop` restores, but for what `watch+` appended; an
  object that watches the mouse has a view that is told so.
* *downloads*: an object never gets the data of another path; one whose data have come is told.
* *modification states*: after a frame nothing is shown as it was before.

## 2. Plan

Written: `SyncGraph`, `Redraw`, `Connections`, `Watches` and `Downloads` composed by `Scene`,
`MessageFifo` and `MessageBuffer`, `WebPost`, `TimeTask`, `Agenda` and `Scheduler`, each with its
proofs; `Player` over `Scheduler`; `Scripts` and, over it and `Player`, `Performance`. To come, in
this order:

1. `TimeTask` over `Watches`: time events under `watch` messages, and over `MessageFifo`.
2. The children of the children: `del` and `lock` at two levels, and the quit of
   `IAppl::cleanup`.
3. `processSig`: `ParallelSignal` and the rings of the signals.
4. The other rewritings of `Scripts`: expansions, local variables, arithmetic.

Theorems to come: those of these modules.

## 3. Modules

### SyncGraph, SyncLoops (MCSyncGraph, SyncGraphProofs)

One container and its `sync` node. `elements`, `deleted`, `locked` are the children of
`IObject` and their flags. `fSlaves2Masters[s]` is the vector of `Master` of `s`, as a set of
records with the *rank* of their `push_back`; `fMasters2Slaves[m][s]` counts the occurrences
of `s` in the vector of `m` (its order is never read). `work` holds the calls that a `sync`
message with several targets has still to make, so that each call is a step. A frame goes
through the three sorts (`lmap`, `smap`, `view`) and the cleanup; messages come between
frames: one thread runs it all. `SyncGraph` is not run by itself: the modules below
extend it.

| action | code |
|---|---|
| `Create`, `Delete`, `Lock`, `Retype` | `IProxy::execute`, `IObject::_del`, `lockMsg`, `set` |
| `SyncCreate`, `SyncDelete`, `SyncDeleteAll`, `Handler` | `ISceneSync::syncMsg`, `ISync::sync`, `remove` |
| `FrameStart`, `SortPass`, `SortEnd` | `IGlue::timerEvent`, `Updater::update`, `ISync::topologicalSort` |
| `Cleanup` | `IObject::cleanup`, `ISync::cleanup` |

`checkLoop` is written with closed sets, and `Erased` is the closed form of the loop of
`ISync::cleanup` that skips the element after the one it erases. `SyncLoops` has the recursion
and the loop as the code runs them, as recursive functions: `walk` along the masters of a
master, `cleanupLoop` over the `Vector` of a slave. `CheckLoopAgrees` and `CleanupAgrees` say that
they give what the closed forms do. Two objects of the same name are possible (`NameOf`): an address that
is created again, or `Retype` on a locked object. When the last master of a slave is removed
in `ISync::cleanup`, the code reads the size of the vector it has just freed; the model takes
the outcome where the loop ends there.

### Redraw (MCRedraw, RedrawProofs)

`SyncGraph` with the modification states. `modified` is the set of the objects whose `fState` is
not clean, `stale` and `missed` are what the views show (history that no guard reads): `stale`
holds the objects that changed, or whose place did, since they were drawn, `missed` those that
no mark tells. A message marks its object and makes stale its slaves too (`DrawModify`,
`DrawSync` ...); `DrawFrame` is `propagateSignalsState` and `ISync::ptask`; `DrawView` draws what
is marked; `DrawCleanup` wipes the marks, after `ISync::cleanup` has marked the slaves of the
deleted objects, which is thus of no use.

`ptask` walks the masters in the order of their addresses (`Addresses`) and marks their slaves
as it goes; its test of the state is `&&` where `&` is meant, so that any state counts. A slave
of a slave is marked if its own master comes later in that order: that one may be missed, the
direct slaves of a modified object may not. `NothingStale` is about what messages make stale
directly, and lets out what `missed` names: the slaves of an object that only a signal drives
(`propagateSignalsState` comes too late for them), and those whose master was cleaned up.

### Connections, Watches, Downloads, Scene (MCScene, SceneProofs)

Three parts over `SyncGraph`, each with its variables, its messages, what it does when the
container creates, deletes, replaces or cleans up a child, and its properties; `Scene` composes
them, so that each of these operations updates the relations, the connections, the events, the
downloads and the aliases in one step, in the order of the code. `SafeSpec` says that `Scene`
implements `SyncGraph`: the other parts never disturb the relations.

| module | state | actions |
|---|---|---|
| `Connections` | `signals`, `sigDeleted`, `sigLocked`, `connections` (object, signal, the object as it was written, method) | `SignalCreate`, `SignalDelete`, `SignalLock`, `connect`, `disconnectSignal`, `disconnectObject`, `disconnectMethods` (`ISignalNode`, `ISignal::del`), `cleanupTarget`, `SignalsCleanup` |
| `Watches` | `fMsgMap`, `fWatchStack` (maps to references), `content` of the lists, `fMouseSensible` of the objects, `view`; histories `saved`, `untold` | `setMsg`, `addMsg`, `clearMsg`, `reset`, `pushWatch`, `popWatch` (`EventsAble`), `TransferWatches` (`IObject::transferAttributes`) |
| `Downloads` | `fFile`, `fData`, `downloader`, the `posted` messages, `crashed` | `setUrl`, `updateFileCanceled`, `fileDownloaded` (the reply), `NothingNew`, `NullDownloader`, `UnknownType`, `updateFileSucceded` (the messages) |
| `Scene` | the three, `fAliases`, `session` | `ObjectCreate`, `ObjectDelete`, `ObjectLock`, `ObjectRetype`, `ObjectDownloaded`, `SceneCleanup`, `addAlias`, `clearAliases` |

The values of the signals are left out, and a method that has no handler stands for any
message that `connect` refuses half way. A new list takes the first free place, as lists have no
identity but their references. The reply of a download comes between two ticks and only with an
empty stack of other messages: the other places of the reply are those of the messages around
it. `NullDownloader` is the crash of a `success` that finds no downloader; nothing follows it.

The `type` of a downloader is what `set url type path` asked for, which nothing tests: an object
with a file, one without (it takes the place of the intermediate one and no data), another
intermediate object, or something that `IObjectFactory` does not know. The state `told` says that a
`success` found the data. What comes next differs: the intermediate object is replaced
(`updateFileSucceded`), it stays beside the real one because its deletion was refused
(it is locked, and a later `success` makes one more), or it stays alone with its data because the
factory returned nothing (`UnknownType`). `ReadyPosted` says both that data which were not told have
a `success` on its way, and that only those two exceptions keep an object that was told.

### MessageFifo, MessageBuffer (MCMessageBuffer, BufferProofs)

`write` and `read` access by access: the test of the full buffer, the store in the slot, the
load and the store of `fWritePos++`; the increment of `fReadPos`, the load of the slot. Both
run without any lock. `Terminate` is `IGlue::oscinit`: the time task, between two pops, ends the
thread that listens wherever it is in a push, and another one takes its place. `MessageFifo` is
the bounded queue that the buffer implements; the message of a terminated push is gone without
a report there. Sequentially consistent memory is assumed, and the reading thread is the one
that terminates.

### WebPost (MCWebPost, WebProofs)

Clients run `postScript` once each: `Lock`, `ConcatOn`, `Reset` (the two halves of
`activeConcatError`), `Parse`, `ConcatOff`, `LogParse`, `Push` (a message at a time), `Wait`,
`Relock`, `Answer`. The time task runs `Tick` ... `WakeAll` (`modelUpdate`). A script is the
list of the outcomes of its messages and whether it has a syntax error; a log is the set of
the errors in it. A parse without messages does not wait. The accesses to the string stream
are atomic here: in the code they race, which could only add outcomes. `Receive` is the traffic
on the main stack; with `Recurring` it never stops.

### TimeTask (MCTimeTask, TimeTaskProofs)

`fMsgStack` and `fDelayStack` with, for each message, where it comes from and whether it was
posted in the current tick (history that the properties read, no guard does). `Tick`,
`ProcessMsg` (one message: `SetDate`, `AddDate`, `SetTempo`, `SetDuration`, `AddDuration`),
`EndUpdate`, `cleanup` (with the moves of the objects it visits), `Transfer`, `EndTick` are the
parts of `timerEvent`; `Receive` comes from another thread at any moment. `announced` is a
history of the interval events. Watches are constant (the intervals of an object in the order of
the set that `handleTimeChange` goes over: it only leaves or enters each of them), dates are small integers cut at
`LastDate`, the amount of a move is chosen among `Amounts`; `clock` is a `ddate` of one unit.
The mouse events are received messages here: `MouseEventAble` sends without delay too.

### Agenda, Scheduler (MCScheduler, SchedulerProofs), Lists (ListProofs)

`put` and `clock` of `TScheduler`, under its mutex. `Base` stands for the 256 values of a byte
and `SomeCount` for the 20 elements that `resortSome` moves; the four levels are kept.
`Agenda` keeps one list of dated
elements; `Scheduler` implements it with `pending` mapped to the elements that wait in the
order of the puts. An element may be put again after its delivery. `Unit[k]` is the weight of the
byte `k` of a date, and `High(date, k)` the bytes above it.

`Lists` selects the elements of a list that belong to a set (`Pick`): what `SelectSeq` does,
with a recursive function in place of a test that the provers do not see through. `Scheduler`,
`Agenda` and `TimeTask` use it.

### Player (SchedulerProofs), Scripts, Performance (MCScheduler)

`Scripts` holds operators only, recursive as the code is: `parseEval` (`seq` puts the second tree
under each leaf of the first), `evaluate` (the variables; `marked` holds those whose shared tree
was made an address), `evalDelays`, `paths` and `delayed` (`pathsList`), `toMessage`
(`inscorev1converter`). A node is a record with its value, its part in an address, its delay and its
subnodes, and the parameters of a message stay a tree. The forests that `NList::add` flattens are
`added` and `Each`. `sumDelays`, which reads and clears the delays at once, is two operators
(`sumDelays` and `taken`).

Beside them, `Written` and `Told` say what a script means without any tree: a sequence is the product
of the paths of its parts, a parallel is the paths of both, and a message waits for the sum of the
delays on its path (`doc/papers/2019-JIM/inscore-lang-jim2.tex`; the comment of
`pathsList::delayed`). `Plain` says which scripts are so; the others are in the findings below.

`Player` plays the messages of a script (`MessagesOf`) with `Scheduler`:

| action | code |
|---|---|
| `Load` | `TILoader::parse`, `parsev2`: the wall clock is read once, `MaxLag` clocks ahead of the scheduler at most |
| `Process`, `Schedule` | the loop of `TILoader::parse`: a message is sent now, or `TDatedMessage` is put |
| `Tick` | `IAppl::timerEvent`: the messages that a clock returns are sent |

A behaviour has a script (`session`), or none and its elements are put at any date. All of this
is the work of one thread, so that no clock comes between the messages of a script.
`SentInOrder` is about the messages as they are given; `Performance` says that `MessagesOf` is what
`Scripts` makes of the programs, and `PlayedAsWritten` compares what was sent with what they say.
`Player` knows nothing of the recursive operators of `Scripts`, so that it can be proved about.

## 4. Runs

| run | instance | shows |
|---|---|---|
| `Redraw` | 3 children with names of their own, or 2 of the same name (one lockable) and a third; 1 mapping, 2 ranks, 2 deletions per frame | `RedrawTypeOK Acyclic SortProgress CheckLoopAgrees NothingStale RelationsKept FrameEnds` |
| `Scene` | sessions of 2 objects: relations of 2 mappings, events, signals with aliases (2 objects of one name), signals of 2 names, downloads | `SceneTypeOK MapsAgree NoTwin CleanupAgrees TargetsAlive MouseReached SavedOnlyGrow AliasesAlive DataOfFile ReadyPosted ConnectionsKept SafeSpec` |
| `SyncCleanup` | 3 children with names of their own, 4 ranks | **violated** `CleanupComplete` |
| `MessageBuffer` | 1 producer, 3 slots, 8 pushes, 2 of them cut by a termination, none when full with the read index 0 | `TypeOK NoStaleFetch NoOverrun FifoSpec` |
| `MessageBufferWrap` | 1 producer, any push | **violated** `NoOverrun` |
| `MessageBufferRace` | 2 producers | **violated** `NoStaleFetch` |
| `WebTraffic` | 2 clients, scripts of 2 messages, recurring traffic | `TypeOK ScriptsWhole Answered AllApplied` |
| `WebAnswer` | 1 client, no traffic | **violated** `Answered` |
| `WebErrors` | 2 clients, no traffic | **violated** `ErrorReported` |
| `TimeTask` | 3 objects in 2 scenes, 3 arrivals, a loop of attribute events, adjacent intervals | `TypeOK OneMove DatesAnnounced DurationsAnnounced EventsDelayed NothingLeft TickEnds` |
| `TaskBounce` | interval events that undo each other | **violated** `TickEnds` |
| `Scheduler` | 2 elements, bytes of 3 values, dates 0 to 56; or one of 280 scripts loaded at the date 7 or 24, on time or a clock late | `TypeOK Filed OnTime SentInOrder PlayedAsWritten AgendaSpec` |

### Findings

The six violated properties are in `PROJECT.json` with the lines that disagree:

1. `ISync::cleanup` skips the relation after the one it erases: with two consecutive masters
   deleted in a frame, a relation to an object that is gone remains, and the sorts of the next
   frames may not end. (`FrameEnds` says that they do when no relation dangles.)
2. The full test of a stack misses when the read index is 0.
3. Two concurrent pushes may publish a slot that holds no new message.
4. The wake up of a web client may come before it waits.
5. The errors of a web script may be missing from its answer.
6. The messages of the interval events are not delayed: a loop of them freezes the time task.

The passing runs state what holds next to each of them: no dangling relation, a producer and
no wrap, recurring traffic, attribute events. More divergences were met, that no run
states. About the relations and the messages: a `sync` message may only change the options of the relation of a deleted object of the
same name and add nothing for the new one (`model/ISceneSync.cpp:201`); the answer of a web
client may tell the errors of others; `durClock` and `dduration` trigger no duration event
(`model/IDate.h:92`, so `DurationsAnnounced` is about durations that are set, and the instance
sends `durClock` to an object that watches none); the scheduler reads the bytes of a date in
the other order on little endian builds whose compiler does not define `__LITTLE_ENDIAN__`
(`src/src/inscore2/sorter/TScheduler.h:50`; gcc on Linux does not), which is not the build
modelled here. About what an object is known by:

* a `success` that was posted before a cancel reads the data of a null downloader
  (`model/IUrlIntermediateObject.cpp:103`); a `success` or `error` of an abandoned download, or of a
  deleted object, reaches the object that bears the name now, which then sends an event
  for a download of its own that has not ended (`doc/OSCMsg.tex:3068` on);
* `set url` accepts any type (`model/IUrlIntermediateObject.cpp:76`): when the factory does not know it,
  the `success` is consumed, its event is sent and the object keeps its data for ever (line 105); when
  the intermediate object is locked, the real one is added beside it, once per `success`;
* a change of type is said to preserve the watched events (`doc/changelist.tex:267`): the maps
  are transferred, but the view of the new object is told nothing and it gets no mouse event
  until it watches one more (`model/IObject.cpp:1176`); aliases and connections are lost; the
  relations too, as the message that should transfer them asks the `sync` node for an answer
  that `IVNode::getAll` leaves empty (`model/IVNode.h:59`);
* `watch+` after `push` changes what was saved (`events/EventsAble.cpp:137`, the lists are shared),
  and `pop` leaves the view accepting mouse events that nobody watches;
* a signal that is locked loses its connections when it is deleted, and lives on
  (`model/ISignal.cpp:76`);
* connections are keyed by the text of the object: one made by a pattern and one by a name
  may drive the same attribute; a `connect` that fails half way has made connections, and does
  not mark the node as modified (`model/ISignalNode.cpp:257`);
* `watch timeEnter` without intervals empties the list of intervals that `timeLeave` uses too
  (`model/IObject.cpp:1481`), and `pop` restores the maps of the messages but no interval
  (`events/EventsAble.cpp:158`);
* the test of `ISync::ptask` and the orders of the passes of a frame, which are told with
  `Redraw` above (`model/ISync.cpp:321`, `model/IObject.cpp:433`, `:487`).

About the scripts, each one an exception of `Plain`:

* a delay under a delay replaces it, although the delays of a path are said to be added
  (`src/src/inscore2/pathsList.cpp:103`, the comment at `:62`); a delay at the end of a path is
  dropped with its node;
* a delay below a method goes to the whole message, unless all the parameters are delayed
  leaves: then each makes a message. A tree of delayed parameters that are not leaves, or a
  mix of delayed and undelayed ones, sums its delays or parts from its message
  (`evalDData`, `sumDelays`);
* a message that is given to a method directly, with no parameter before it, is lost
  (`src/src/inscore2/inscorev1converter.cpp:66`);
* a variable that was used in an address is an address wherever it is used later
  (`src/src/inscore2/eval/evaluator2.cpp:634`), when its evaluation should only
  put its tree where it stands.

A message whose address begins with a url prefix loses its delay too, which only the first node
of an address gives (`src/src/inscore2/inscorev1converter.cpp:78`); `Scripts` has no url prefix.

### Bounds

* `MaxRank`, `MaxDead` bound the pushes in a vector that never empties and the deletions of a
  frame. Four ranks give three masters with a hole anywhere, which is what the skip of the
  cleanup needs (`SyncCleanup`, `Scene`). With two, in `Redraw`, an object has two masters at most:
  enough for the loops and the chains of three objects.
* `MaxSize` bounds the children and those that wait for a cleanup. `Sessions` are the kinds of
  messages and the objects of one behaviour: the parts of `Scene` meet in the children, not in
  each other's messages, and a session gives each part all the operations of the container.
  The proofs have no such bound: they hold for every set of sessions, with all kinds and objects.
* `MaxList` (2 lists), `MaxMsgs` (2 messages in a list) and `MaxPush` (1 saved state) of `Watches`
  let a list be shared by the current map, a saved one and an heir, and be appended to. One
  event, a mouse one: events have no effect on each other but through the two flags.
* `MaxPosted` (2 messages of downloads): one that is late and one that is not. The instance has one
  address of an intermediate object, which may be locked, and asks for a file, for an object
  without one and for an unknown type (`Asked`); the type `url`, which needs a second such address, is
  in the proofs only. `OneUrl`: two living intermediate objects never bear the same name, as
  each would answer the messages of both; a replacement that would make it so is left out.
* `Addresses` of `Redraw` is one order; the names of the objects go through all the relations,
  so that each order of three addresses is met up to a renaming.
* `MaxStops` = 2: a thread that is terminated, and the one that took its place.
* `MaxPush` = 8 with 3 slots goes twice around the ring and once past it. The real size is
  10000, the positions are `unsigned long` and do not overflow in practice.
* Two messages per script and two clients are enough to mix scripts, to lose an error and to
  be woken up by the wrong update. A syntax error and failing messages are both inputs.
* `MaxArrivals` = 3 lets messages arrive before, during and after the update of a same tick.
  A flood that never stops would keep `processOn` busy for ever; the code has no bound, and
  neither the documentation nor `TickEnds` claims one.
* `LastDate` of `TimeTask` cuts dates to three values (inside, at the end, outside of an
  interval); a date that is cut stays, which is also what a tempo too slow for the rate does
  in `move`.
* Bytes of three values: a list of a level may be the current one, the next one, or neither.
  `LastDate` of `Scheduler` (56, of 80) lets the top byte take its three values. The two
  elements meet in one list so that `resortSome` (one element here) leaves one behind.

* `MCPrograms` puts each of seven heads (an address, delayed before, inside, after; several;
  variables) before each of eight branches (data, delayed data, delayed leaves, messages inside
  the data, at the delays 0 to 9), or before two of them in parallel, or after another statement;
  241 of the 280 are plain. A script has six messages at most, hence the elements 1 to 6. Its
  two dates put the messages in the first level of lists and over a carry to the next ones.
* `LoadAssumption` keeps the dates of the messages below `LastDate`, the last one before the 32 bits
  of a date overflow. A message takes an element that was never put (`Unused`): an object of C++
  that is new; the proofs hold whatever their number.

`MCSymmetry` exchanges the elements that are put without script (`Free`); nothing in `Scheduler`,
`Agenda` or `Player` orders them and no liveness is checked there.

### Fairness

* `Redraw`: weak fairness of the steps of a frame once it has started (a loop of one
  thread). `Scene`: none, its properties are safety. `MessageBuffer`: what `FifoSpec` needs, the reader keeps popping (the timer).
* `WebPost`: the time task (a timer) and each client thread run; the traffic is fair only when
  the instance says that it recurs. The mutex is not assumed to be fair: a client that waits
  for it competes with clients that run once.
* `TimeTask`: weak fairness of the time task alone; no message has to arrive.
* `Scheduler`: none, its properties are safety.

## 5. Proofs

`SyncGraphProofs` proves, for all finite sets of objects, all names, mappings and bounds (the
assumptions `ObjAssumption`, `NameAssumption`, `RankAssumption`, `LockAssumption` of
`SyncGraph`), that `Spec` implies `[]TypeOK`, `[]Acyclic`, `[]MapsAgree`, `[]SortProgress`,
`[]NoTwin`, `[]CheckLoopAgrees`, `[]CleanupAgrees` and the action property `RelationsKept`.

The inductive invariant `IInv` is `TypeOK`, `GraphInv` and `SortInv`:

* `GraphInv` adds to `Acyclic` its mirror `AcyclicUp` (every set of objects has one that is
  master of none of them). A new relation from `s` to `m` is safe because `checkLoop` says that
  `s` is not in a set closed under masters that holds `m`: any set of objects splits along the
  closed set, and the witness comes from one part or the other. The mirror is what shows that
  the sort by slaves progresses. It also carries that the vectors are finite, without which the
  counts of `MapsAgree` mean nothing.
* every removal (a message, a cleanup) is a `Drop`: it takes a set of records away from each
  vector, and lowers the counts by as many (`EntriesDrop`, `DropKeeps`, `RemovalsAreDrops`).
* `SortInv`: during a sort the children are split between `in` and `out`; with no dangling
  relation, an object of `in` that is minimal in `in` is ready (`SortsProgress`). With a
  dangling one nothing is claimed, and `SyncCleanup` shows that cleanups may leave some.
* `NoTwin` is inductive by itself beside `TypeOK`: `SyncCreate` only asks for a relation when
  none of the same mappings exists; `RelationsKept` follows from the shape of the erased set.
* `WalkAlwaysAgrees`: `walk` is a recursive function on objects, which is the equation of its body
  only if something satisfies it. `checkLoop` does (`CheckLoopStep`: it holds of a master when it
  does of one above it). It is the only one on acyclic relations: the objects where two solutions
  differ would have one that has no master among them, and there both bodies are equal (`WalkAgrees`).
  So the recursion of the code ends because of `Acyclic`, and its answer is why `Acyclic` is kept.
* `CleanupAlwaysAgrees`: `RankInv` says that the ranks of a vector differ and are from 1 to `MaxRank`, so
  that `Vector` is the vector sorted by ranks (`VectorSorted`). The invariant of the loop splits it after each
  turn between what was kept and what remains (`CleanupTurns`): an element that is erased makes the
  next one pass without being looked at, so that every other one of a run of deleted masters is
  erased (`ErasedAlternate`), which is what `Erased` counts.

`RedrawProofs` proves the properties of the children with their marks, for any order of the
addresses and any sessions. `RedrawImplementsSync`: each action conjoins one of `SyncGraph` or
leaves its variables alone, so that `IInv` is a hypothesis here, and `Acyclic` and `RelationsKept`
hold (`RelationsSafe`), and `CheckLoopAgrees` too (`RedrawWalkAgrees`). `DrawInv` is `MarkTypes` and `Told`: a stale child is marked or missed, in each
phase of a frame. `MarksTyped` is about types, and that what is missed is stale. `ptask` is a function defined by recursion on the addresses; `Told` needs of
it only that it takes no mark away and marks the slaves of the objects that were marked when it began, which
an induction over the addresses shows.

`SceneProofs` proves the properties of the composed system, for every
`Sessions` and the assumptions of the parts:

* `SceneSyncs` (`SceneSpec => SafeSpec`): each action of `Scene` conjoins an action of `SyncGraph` or
  leaves its variables alone. All that `SyncGraphProofs` shows is therefore true in the scene
  (`SceneMapsAgree`, `SceneNoTwin`, `SceneCleanupAgrees`), and the invariant of the relations can be used as a
  hypothesis of the others.
* `Ends` (the types, `TargetsAlive`, `AliasesAlive`): `_del` removes the connections of the object by its address
  in memory and the aliases by its name, before it can be freed; `SignalCreate` may reuse the
  place of a signal only when no connection has it.
* `MouseInv`: any object, and any *saved* map of it, that has a mouse event is sensible through its
  view or is one that inherited; `pop` then only restores what was so when it was saved.
* `SavedInv`: what was saved has the shape of the saved maps. A list that a saved map refers to is
  in use, so that a new list is never that one, and only `Append` changes a list in use.
* `DownloadInv`: a downloader is that of an intermediate object and was given the path that the
  object has now, and the data of another object are those of its path; `ReadyPosted` is inductive
  beside that. The first message leaves the stack when the one intermediate object it reaches was told
  (`PostLeft`: the `success` of the others is further on); the object that was told is then
  gone, locked (hence in `Lockable`) or of an unknown type.
* `SceneTypeCorrect` puts these together: `MouseInv`, `SavedInv` and `BoundInv` (the lists and the
  stacks keep their bounds) give `SceneTypeOK`.

`WebProofs` proves `TypeOK` and `ScriptsWhole` of `WebPost` for any number of clients and any
scripts. `PushInv` adds to the types (which say who may hold the mutex) that the messages of a
client on the web stack, executed or not, are those before its `next`, and that in the middle of
its pushes the last of all messages is its own `next - 1`.

`BufferProofs` proves, with one producer and no push at the wrap of the full test, for every size
up to the 16 bits of the indexes, every number of pushes and of terminations: `TypeOK`,
`NoOverrun`, `NoStaleFetch` and the safety part of `FifoSpec`. `PosInv` relates the positions: less
than `Size - 1` messages during a push, so that the slot of the push is no other position's
(`SlotsDiffer`: positions that are less than `Size` apart have different slots); it holds the
message before the position is published. `OrderInv` says that the messages increase from the
first received to the last one in the buffer. `FullTest` is what the 16 bits test sees.
`Implements` maps each step: the increment is the `Push`, the load of the slot the `Pop`, a full
buffer the `Lose`, a termination the `Stop`; the other steps leave the queue as it is.

`TimeTaskProofs` proves all the safety properties of `TimeTask`, for any objects, scenes, watches,
inputs and bounds. `IInv` is made of

* `Types`;
* `NewInv`, about the age of the messages: those of the delay stack belong to the current tick; the
  main stack has no attribute event of the current tick while messages are processed, and nothing
  older than the tick afterwards. `EventsDelayed` and `NothingLeft` are action properties that
  follow from it;
* `MoveInv`, about the moves: where the move of an object with a tempo is, in each stage of the
  tick. While messages are processed, an object has at most the move of the last tick, and it is
  modified as soon as that move or a tempo is processed, so that the cleanup posts one and only one
  for it. The rest is the number of moves in a stack under `Append`, `Tail` and concatenation;
* `DatesAnnounced` and `DurationsAnnounced`, inductive beside the types: the watches of an
  interval that a change leaves or enters are picked from one list, so that an interval is
  announced when it was entered and no more when it was left. An interval counts when both of
  its events are watched (`DateIntervals`, `DurationIntervals`), and for the durations when no message
  that can be sent to the object is a `durClock` (`Clocked`), which moves a duration in silence.

`SchedulerProofs` proves `TypeOK`, `Filed`, `OnTime` and the refinement `AgendaSpec` of `Scheduler!Spec`,
for any elements, any base from 2 up (256 in the code), any `SomeCount` (20 in the code) and
any `LastDate` below the fourth power of the base (the last date of 32 bits). The argument:

* Dates. `U(date, k)` is the date divided by `Unit[k]`. `Carry` says how these change from a date
  to the next one: some levels below `j` wrap to 0, the level `j` goes up by one, those above stay.
* A clock is not one change of date but four. `Mid(d, k)` is the date half way: the levels from `k`
  up have the bytes of `d + 1`, and those below the bytes of `d`. `levelClock` at the level `k` takes
  lists that are filed for `Mid(d, k + 1)` to lists that are filed for `Mid(d, k)`
  (`LevelStep`, from `SomeFiled`, `AllFiled` and `Swap`); the last one pops the list of the date (`PopFiled`).
* `FiledIn(s, v)` is `Filed` for such a state and such a half way date. It is the reason for what
  `resortSome` may do at any clock: the list at the resort position is that of the next byte of
  the level, and its elements go to the alternate lists of the level below, which are the
  current ones only after the swap. A swap comes when the byte below wraps; an element of a
  current list has a greater byte than the date, hence the current lists that become the
  alternate ones are then empty (`EmptyCurrent`).
* Order. `Queue(s, d)` is what the elements of the date `d` make when their lists are read from the
  bottom to the top, at each level the current one before the alternate one. For each date to come it
  is `Pick(order, Dated(d))`: the puts append to the end of it (`PutQueue`: the lists after the one
  where the element is put hold nothing of its date), a resort moves the head of a list to the end of the list before it
  (`ResortQueue`), a swap exchanges a list for an empty one (`SwapQueue`). Hence what the clock pops is the
  elements of its date in the order of their puts.
* `IInv` is `TypeOK`, `Kept` (`FiledIn` at the current date), `Positions` and `Ordered` (the above, and
  `fReady` is the late elements in order). `SchedulerImplementsAgenda` maps `put` to `Put`, `clock` to
  `Clock` and `Stop` to a stutter, with a list of entries in place of the two functions.

`ListProofs` holds what these proofs need of lists: `Pick` of a concatenation, of a picked list, of a
union, of the image of a list; the elements of all these. The library's induction theorems take an operator, which
no prover here instantiates; but `<` is well founded, and that theorem takes a set: a set of
naturals that is not empty has a least element (`LeastElement`), so that an induction is stated
on a set (`Induction`), and a function that is defined by recursion on `0..n` exists, hence is what
its definition says (`Recursion`). Everything about `Pick` follows from these two.

These theorems are about the specification of `Scheduler`, where elements are put at any date from
0 to `LastDate`. Those about `Player` hold for any scripts, dates of load, lag, and set of elements
that are put without script:

* `PlayerSchedules` (`PlayerSpec => Spec`): every step of `Player` puts an element, is a clock or leaves
  the scheduler alone, and `LoadAssumption` bounds the dates. `TypeOK`, `Filed`, `OnTime` and
  `AgendaSpec` hold therefore of the player (`PlayerOnTime`).
* `ScriptSentInOrder` (`SentInOrder`). `PlayInv` splits the script between what was played (`done`) and
  what is to do. For each date, what was sent at this date, followed by what waits for it in
  the order of the puts, is the part of `done` that is due at this date (`Played1`). A message that is processed, or put,
  goes to the end of both sides (`ProcessPlays`, `SchedulePlays`): nothing waits yet for the date of the
  load, as what waits is due later than the clock and than the load (`Ahead`). A clock moves the whole
  list of its date from what waits to what was sent (`TickSends`, from `Ordered`, the part of `IInv` that
  gives the order of what a clock returns). The dates of what was sent are in order since a clock sends only after the script is
  loaded, at its own date (`Past`).

Only model-checked: liveness (`FrameEnds`, `Answered`, `AllApplied`, `TickEnds`, the pops of
`FifoSpec`), which is out of reach of the prover; and `PlayedAsWritten`, which stands on the
recursive operators of `Scripts`, in whose presence the prover has no arithmetic, and on inductions
over trees. The violated properties are not theorems.

## 6. Not modelled

Drawing, devices, plugins, formatting and parsing have no state that these properties are
about; the parsers and lexers are most of the lines of the repository, and generated. The
mapping computations and the evaluation of score expressions are sequential functions on
data. Of the evaluation of the scripts, the arithmetic, the expansions (`expandEval`, `expandVal`), the
local environments of the variables and the javascript sections are left out: they make
values or trees of the kinds that are there. The values of the signals and their rings, the requests of the web API other than
`postScript`, the redirections and the cache of the downloads, the gestures, and the objects
below the children of a container are not there. The `rename` message is disabled in the code
(`model/IObject.cpp:102`). The list of the
components with their status, and the hazards with the properties that watch them, is in
`PROJECT.json`.
