------------------------------ MODULE TimeTask ------------------------------
(***************************************************************************)
(* The time task (IGlue::timerEvent) and the events of the objects.        *)
(*                                                                         *)
(* A tick processes the messages of the stack until it is empty, cleans    *)
(* the modified part of the model up, where the objects that have a tempo  *)
(* post their next move, and transfers the delayed messages to the stack,  *)
(* for the next tick.  A message that changes an object posts the messages *)
(* that the object watches the change with: the ones of an attribute are   *)
(* delayed, the ones of a time interval are not.                           *)
(*                                                                         *)
(* The watches do not change, and a message addresses one object.          *)
(***************************************************************************)
EXTENDS Integers, Sequences, FiniteSets, SequencesExt, Lists

CONSTANTS
  Objects,
  Scene,         \* the scene of each object
  Watches,       \* what the objects watch, in order; their intervals in that of their sets
  Inputs,        \* the messages that may be received
  MaxArrivals,   \* how many of them
  Amounts,       \* how far a tempo may move a date between two ticks
  LastDate       \* the dates are cut to this one

Dates == 0..LastDate
Methods == {"date", "ddate", "tempo", "duration", "durClock"}
Messages == [obj : Objects, method : Methods, value : Dates]
Events == Methods \union {"timeEnter", "timeLeave", "durEnter", "durLeave"}

ASSUME ObjectsAssumption == IsFiniteSet(Objects)
ASSUME SceneAssumption == DOMAIN Scene = Objects
ASSUME InputAssumption == Inputs \subseteq Messages
ASSUME WatchAssumption ==
  Watches \in Seq([obj : Objects, event : Events, first : 0..LastDate + 1,
                   second : 0..LastDate + 1, send : Seq(Messages)])
ASSUME BoundAssumption ==
  /\ LastDate \in Nat \ {0} /\ MaxArrivals \in Nat /\ Amounts \subseteq Dates

VARIABLES
  fDate, fDuration, fTempo,  \* of each object
  fMsgStack, fDelayStack,    \* the messages to process, in this tick and in the next one
  modified,                  \* the objects modified since the last cleanup
  task,                      \* where the time task is
  arrivals,                  \* the number of messages received
  announced                  \* the intervals the last event of which is an enter

vars == <<fDate, fDuration, fTempo, fMsgStack, fDelayStack, modified, task,
          arrivals, announced>>
objects == <<fDate, fDuration, fTempo>>

\* A message on a stack, where it comes from, and whether it was posted since the last
\* tick began.
Entry(m, from) == [msg |-> m, from |-> from, new |-> TRUE]
Origins == {"osc", "event", "interval", "move"}
Entries == [msg : Messages, from : Origins, new : BOOLEAN]

\* TInterval::include.
include(w, t) == w.first <= t /\ t < w.second

\* The intervals that are watched both ways, for the dates and for the durations.
Interval(w) == [obj |-> w.obj, first |-> w.first, second |-> w.second]
Watched(event) == {Interval(w) : w \in {v \in Elems(Watches) : v.event = event}}
DateIntervals ==
  {<<"date", w>> : w \in Watched("timeEnter") \intersect Watched("timeLeave")}
DurationIntervals ==
  {<<"duration", w>> : w \in Watched("durEnter") \intersect Watched("durLeave")}

TypeOK ==
  /\ fDate \in [Objects -> Dates]
  /\ fDuration \in [Objects -> Dates]
  /\ fTempo \in [Objects -> Dates]
  /\ fMsgStack \in Seq(Entries) /\ fDelayStack \in Seq(Entries)
  /\ modified \subseteq Objects
  /\ task \in {"idle", "update", "frame", "transfer"}
  /\ arrivals \in 0..MaxArrivals
  /\ announced \subseteq {"date", "duration"} \X {Interval(w) : w \in Elems(Watches)}

Init ==
  /\ fDate = [o \in Objects |-> 0]
  /\ fDuration = [o \in Objects |-> 1]
  /\ fTempo = [o \in Objects |-> 0]
  /\ fMsgStack = <<>> /\ fDelayStack = <<>>
  /\ modified = {}
  /\ task = "idle"
  /\ arrivals = 0
  /\ announced = {i \in DateIntervals : include(i[2], 0)}
               \union {i \in DurationIntervals : include(i[2], 1)}

-----------------------------------------------------------------------------
(* The events.                                                             *)

\* The messages of the watches ws, as a message of this origin posts them.
Posted(ws, from) ==
  LET msgs == FlattenSeq([i \in 1..Len(ws) |-> ws[i].send])
  IN  [i \in 1..Len(msgs) |-> Entry(msgs[i], from)]

\* The watches of an attribute that a message sets.
Simple ==
  [o \in Objects |-> [method \in Methods |->
     Pick(Watches, {w \in Elems(Watches) : w.obj = o /\ w.event = method})]]

\* The watches of the intervals that a change from a value to another leaves or enters.
Fired(leave, enter) ==
  [o \in Objects |-> [from \in Dates |-> [to \in Dates |->
     Pick(Watches, {w \in Elems(Watches) :
       /\ w.obj = o
       /\ \/ w.event = leave /\ include(w, from) /\ ~include(w, to)
          \/ w.event = enter /\ ~include(w, from) /\ include(w, to)})]]]

handleTimeChange == Fired("timeLeave", "timeEnter")
handleDurChange  == Fired("durLeave", "durEnter")

Announce(kind, ws) ==
  LET Named(events) == {<<kind, Interval(w)>> : w \in {v \in Elems(ws) : v.event \in events}}
  IN  announced' = (announced \ Named({"timeLeave", "durLeave"}))
                     \union Named({"timeEnter", "durEnter"})

Mut_execute(m, kind, ws) ==
  /\ fMsgStack' = Tail(fMsgStack) \o Posted(ws, "interval")
                     \o Posted(Simple[m.obj][m.method], "event")
  /\ Announce(kind, ws)
  /\ modified' = modified \union {m.obj}
  /\ UNCHANGED <<fDelayStack, task, arrivals>>

\* What every message does: its own handler posts the messages of the intervals, then
\* IObject::execute the ones of the attribute, and the object is modified.
execute(m, kind, ws) ==
  /\ fMsgStack' = Tail(fMsgStack) \o Posted(ws, "interval")
  /\ fDelayStack' = fDelayStack \o Posted(Simple[m.obj][m.method], "event")
  /\ Announce(kind, ws)
  /\ modified' = modified \union {m.obj}
  /\ UNCHANGED <<task, arrivals>>

-----------------------------------------------------------------------------
(* The messages (IController::processOn, one message a step).              *)

\* A message is received by another thread, at any time.
Receive ==
  /\ arrivals < MaxArrivals
  /\ \E m \in Inputs : fMsgStack' = Append(fMsgStack, Entry(m, "osc"))
  /\ arrivals' = arrivals + 1
  /\ UNCHANGED <<objects, fDelayStack, modified, task, announced>>

Take(m, method) ==
  /\ task = "update" /\ fMsgStack # <<>>
  /\ m = Head(fMsgStack).msg
  /\ m.method = method

Cut(t) == IF t > LastDate THEN LastDate ELSE t

Mut_moveTo(m, date) ==
  /\ fDate' = [fDate EXCEPT ![m.obj] = date]
  /\ execute(m, "date", handleTimeChange[m.obj][date][date])
  /\ UNCHANGED <<fDuration, fTempo>>

\* IDate::setDate.
moveTo(m, date) ==
  /\ fDate' = [fDate EXCEPT ![m.obj] = date]
  /\ execute(m, "date", handleTimeChange[m.obj][fDate[m.obj]][date])
  /\ UNCHANGED <<fDuration, fTempo>>

SetDate(m) == Take(m, "date") /\ moveTo(m, m.value)
AddDate(m) == Take(m, "ddate") /\ moveTo(m, Cut(fDate[m.obj] + m.value))

SetTempo(m) ==
  /\ Take(m, "tempo")
  /\ fTempo' = [fTempo EXCEPT ![m.obj] = m.value]
  /\ execute(m, "date", <<>>)
  /\ UNCHANGED <<fDate, fDuration>>

Mut_SetDuration(m) ==
  /\ Take(m, "duration")
  /\ fDuration' = [fDuration EXCEPT ![m.obj] = m.value]
  /\ execute(m, "duration", <<>>)
  /\ UNCHANGED <<fDate, fTempo>>

SetDuration(m) ==
  /\ Take(m, "duration")
  /\ fDuration' = [fDuration EXCEPT ![m.obj] = m.value]
  /\ execute(m, "duration", handleDurChange[m.obj][fDuration[m.obj]][m.value])
  /\ UNCHANGED <<fDate, fTempo>>

\* IDate::addDuration handles no event.
AddDuration(m) ==
  /\ Take(m, "durClock")
  /\ fDuration' = [fDuration EXCEPT ![m.obj] = Cut(@ + m.value)]
  /\ execute(m, "duration", <<>>)
  /\ UNCHANGED <<fDate, fTempo>>

ProcessMsg ==
  \E m \in Messages :
    SetDate(m) \/ AddDate(m) \/ SetTempo(m) \/ SetDuration(m) \/ AddDuration(m)

-----------------------------------------------------------------------------
(* The tick.                                                               *)

Stage(from, to) == task = from /\ task' = to

\* The stack is processed unless it is empty.
Tick ==
  /\ Stage("idle", IF fMsgStack = <<>> THEN "frame" ELSE "update")
  /\ fMsgStack' = [i \in 1..Len(fMsgStack) |-> [fMsgStack[i] EXCEPT !.new = FALSE]]
  /\ UNCHANGED <<objects, fDelayStack, modified, arrivals, announced>>

EndUpdate ==
  /\ fMsgStack = <<>>
  /\ Stage("update", "frame")
  /\ UNCHANGED <<objects, fMsgStack, fDelayStack, modified, arrivals, announced>>

\* The objects that IObject::cleanup visits: the ones of the scenes that have a modified
\* object.
Visited == {o \in Objects : \E p \in modified : Scene[p] = Scene[o]}

Mut_move(amount) ==
  LET moving == SetToSeq({o \in Visited : fTempo[o] # 0 /\ amount # 0})
  IN  [i \in 1..Len(moving) |->
         Entry([obj |-> moving[i], method |-> "ddate", value |-> amount], "move")]

Mut2_move(amount) ==
  LET moving == SetToSeq({o \in Visited : fTempo[o] # 0})
  IN  [i \in 1..Len(moving) |->
         Entry([obj |-> moving[i], method |-> "ddate", value |-> amount - 1], "move")]

\* IDate::move, for each of them that has a tempo.
move(amount) ==
  LET moving == SetToSeq({o \in Visited : fTempo[o] # 0})
  IN  [i \in 1..Len(moving) |->
         Entry([obj |-> moving[i], method |-> "ddate", value |-> amount], "move")]

cleanup ==
  /\ Stage("frame", "transfer")
  /\ \E amount \in Amounts : fDelayStack' = fDelayStack \o move(amount)
  /\ modified' = {}
  /\ UNCHANGED <<objects, fMsgStack, arrivals, announced>>

Mut_EndTick ==
  /\ Stage("transfer", "idle")
  /\ UNCHANGED <<objects, fMsgStack, fDelayStack, modified, arrivals, announced>>

\* The delayed messages are transferred one by one; others may be received meanwhile.
Transfer ==
  /\ task = "transfer" /\ fDelayStack # <<>>
  /\ fMsgStack' = Append(fMsgStack, Head(fDelayStack))
  /\ fDelayStack' = Tail(fDelayStack)
  /\ UNCHANGED <<objects, modified, task, arrivals, announced>>

EndTick ==
  /\ fDelayStack = <<>>
  /\ Stage("transfer", "idle")
  /\ UNCHANGED <<objects, fMsgStack, fDelayStack, modified, arrivals, announced>>

timerEvent == Tick \/ ProcessMsg \/ EndUpdate \/ cleanup \/ Transfer \/ EndTick

Next == timerEvent \/ Receive

\* The timer runs; nothing has to be received.
Spec == Init /\ [][Next]_vars /\ WF_vars(timerEvent)

-----------------------------------------------------------------------------
(* Properties.                                                             *)

\* The number of moves of an object on a stack.
Moves(stack, o) == {i \in 1..Len(stack) : stack[i].from = "move" /\ stack[i].msg.obj = o}
Count(stack, o) == Cardinality(Moves(stack, o))

\* Between two ticks, the next move of each object that has a tempo is on the stack,
\* once: it neither stops nor runs faster, whatever set the tempo or the date, and
\* whatever else was modified (IDate::cleanup).
OneMove ==
  task = "idle" =>
    \A o \in Objects : Count(fMsgStack, o) = IF fTempo[o] # 0 THEN 1 ELSE 0

\* The messages of the events of the attributes are not processed by the tick that
\* posted them (the one tick delay of IObject::checkEvent) ...
EventsDelayed ==
  [][\A m \in Messages :
       SetDate(m) \/ AddDate(m) \/ SetTempo(m) \/ SetDuration(m) \/ AddDuration(m)
         => ~(Head(fMsgStack).from = "event" /\ Head(fMsgStack).new)]_vars

\* ... but by the next one: a tick leaves nothing that was posted before it began.
NothingLeft ==
  [][Stage("transfer", "idle")
       => fDelayStack' = <<>> /\ \A i \in 1..Len(fMsgStack') : fMsgStack'[i].new]_vars

\* The last event of a watched interval of dates tells whether the date is inside
\* (TimeEventAble::handleTimeChange), however the date moves.
Announced(intervals, value) ==
  \A i \in intervals : i \in announced <=> include(i[2], value[i[2].obj])
DatesAnnounced == Announced(DateIntervals, fDate)

\* The same of the durations of the objects that no durClock reaches: durClock and
\* dduration move a duration without any event (IDate::addDuration).
Sendable == Inputs \union UNION {Elems(w.send) : w \in Elems(Watches)}
Clocked == {m.obj : m \in {n \in Sendable : n.method = "durClock"}}
DurationsAnnounced ==
  Announced({i \in DurationIntervals : i[2].obj \notin Clocked}, fDuration)

\* Every tick ends, even when the events make a loop (doc/OSCMsg.tex: the delay of the
\* events is meant to avoid freezing the system).
TickEnds == (task # "idle") ~> (task = "idle")
=============================================================================
