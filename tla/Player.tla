------------------------------- MODULE Player -------------------------------
(***************************************************************************)
(* A script that is loaded while the time runs (TILoader::parse): its      *)
(* messages are processed at once, or put into the scheduler when they are *)
(* delayed, and the clocks send these ones (IAppl::timerEvent).  All of    *)
(* this is the work of the main thread: no clock comes between the         *)
(* messages of a script.  The dates are those of the scheduler, in         *)
(* milliseconds: the wall clock is ahead of them by the clocks to catch    *)
(* up with.                                                                *)
(***************************************************************************)
EXTENDS Scheduler

CONSTANTS
  Programs,   \* the scripts
  Message,    \* the messages that scripts make
  MessagesOf, \* the messages of each script, as they are evaluated
  LoadDates,  \* bound: the dates when a script is loaded
  MaxLag,     \* bound: how many clocks there are to catch up with
  Free,       \* bound: the elements that are put when there is no script
  None        \* no script

ASSUME MessageAssumption ==
  /\ \A m \in Message : m = [field \in DOMAIN m |-> m[field]] /\ m.delay \in Nat
  /\ MessagesOf \in [Programs -> Seq(Message)]
ASSUME MaxLagAssumption == MaxLag \in Nat
\* Bound: no date overflows.
ASSUME LoadAssumption ==
  /\ LoadDates \subseteq Nat
  /\ \A date \in LoadDates, m \in Message : date + MaxLag + m.delay <= LastDate
ASSUME FreeAssumption == Free \subseteq Elements
ASSUME NoneAssumption == None \notin Programs

VARIABLES
  session,  \* the script of this behaviour, or None: elements are put at any date
  loaded,   \* when it is loaded
  todo,     \* its messages that are still to be processed or put
  held,     \* the message of each element that waits
  sent      \* the messages that were processed or sent, with their dates

play == <<session, loaded, todo, held, sent>>
playerVars == <<vars, play>>

PlayerInit ==
  /\ Init
  /\ session \in Programs \union {None}
  /\ loaded = Never /\ todo = <<>> /\ sent = <<>>
  /\ held = [e \in Elements |-> None]

-----------------------------------------------------------------------------

\* TILoader::parse: the wall clock is read once, before the messages.
Load(now) ==
  /\ session # None /\ loaded = Never
  /\ fDate \in LoadDates
  /\ loaded' = now
  /\ todo' = MessagesOf[session]
  /\ UNCHANGED <<vars, session, held, sent>>

Sent(list, date) == [i \in 1..Len(list) |-> [message |-> list[i], date |-> date]]

\* The next message of the script is processed.
Process ==
  /\ todo # <<>> /\ Head(todo).delay = 0
  /\ sent' = sent \o Sent(<<Head(todo)>>, loaded)
  /\ todo' = Tail(todo)
  /\ UNCHANGED <<vars, session, loaded, held>>

\* It is scheduled, as a new element: its delay counts once (TDatedMessage).  Bound: there
\* is an element that was not used yet.
Undelayed(m) == [m EXCEPT !.delay = 0]
Unused == {e \in Elements \ Free : dateOf[e] = Never}

Mut_Schedule ==
  /\ todo # <<>> /\ Head(todo).delay # 0
  /\ Unused # {}
  /\ LET e == CHOOSE x \in Unused : TRUE
     IN  /\ put(e, fDate + Head(todo).delay)
         /\ held' = [held EXCEPT ![e] = Undelayed(Head(todo))]
  /\ todo' = Tail(todo)
  /\ UNCHANGED <<session, loaded, sent>>

Schedule ==
  /\ todo # <<>> /\ Head(todo).delay # 0
  /\ Unused # {}
  /\ LET e == CHOOSE x \in Unused : TRUE
     IN  /\ put(e, loaded + Head(todo).delay)
         /\ held' = [held EXCEPT ![e] = Undelayed(Head(todo))]
  /\ todo' = Tail(todo)
  /\ UNCHANGED <<session, loaded, sent>>

\* One turn of IAppl::timerEvent: what a clock returns is sent.  Bound: the script is loaded
\* at the last of its dates, if not before, and the model stops with its last message.
Played == loaded # Never /\ todo = <<>> /\ order = <<>>
Tick ==
  /\ session # None /\ todo = <<>> /\ ~Played
  /\ loaded # Never \/ \E date \in LoadDates : fDate < date
  /\ clock
  /\ sent' = sent \o Sent([i \in 1..Len(out') |-> held[out'[i]]], fDate')
  /\ held' = [e \in Elements |-> IF dateOf'[e] = Never THEN None ELSE held[e]]
  /\ UNCHANGED <<session, loaded, todo>>

PlayerNext ==
  \/ session = None /\ (clock \/ Stop \/ Put(Free)) /\ UNCHANGED play
  \/ \E lag \in 0..MaxLag : Load(fDate + lag)
  \/ Process
  \/ Schedule
  \/ Tick
  \/ Played /\ UNCHANGED playerVars

PlayerSpec == PlayerInit /\ [][PlayerNext]_playerVars

-----------------------------------------------------------------------------
(* Properties.                                                             *)

\* The messages of a script, each one at the date when it is loaded plus its delay: those
\* whose date has come were sent, once, in the order of the dates and, for the same date, in
\* the order of the script, and no other one was (TILoader::parse, IAppl::timerEvent).
Due(m) == loaded + m.delay
SentInOrder ==
  loaded # Never /\ todo = <<>> =>
    LET script == MessagesOf[session]
        now(x) == Pick(script, {m \in Elems(script) : Due(m) = x})
        dates  == {Due(m) : m \in Elems(script)} \union {s.date : s \in Elems(sent)}
    IN  /\ \A i, j \in 1..Len(sent) : i < j => sent[i].date <= sent[j].date
        /\ \A x \in dates :
             Pick(sent, {s \in Elems(sent) : s.date = x}) =
               IF x = loaded \/ x <= fDate
                 THEN Sent([i \in 1..Len(now(x)) |-> Undelayed(now(x)[i])], x)
                 ELSE <<>>
=============================================================================
