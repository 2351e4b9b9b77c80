--------------------------- MODULE MessageBuffer ---------------------------
(***************************************************************************)
(* The ring buffer of an IMessageStack, shared without any lock by the     *)
(* threads that push messages (the thread that listens to OSC, the time    *)
(* task itself) and by the time task that pops them.  Each step is an      *)
(* access to the shared positions or to a slot.                            *)
(***************************************************************************)
EXTENDS Integers, Sequences, FiniteSets

CONSTANTS
  Producers,   \* the threads that push
  TimeTask,    \* the thread that pops; it may be one of Producers
  Size,        \* fBuffSize
  MaxPush,     \* bound: number of pushes
  MaxStops,    \* bound: number of them that the end of their thread cuts
  AvoidWrap    \* no push when the stack is full and the read index is 0

\* The number of values of an unsigned short.
UShort == 65536

ASSUME SizeAssumption == Size \in Nat /\ Size >= 2 /\ Size < UShort
ASSUME PushAssumption == {MaxPush, MaxStops} \subseteq Nat /\ AvoidWrap \in BOOLEAN

VARIABLES
  fBuffer,     \* the slots: 0 until a first message is stored
  fWritePos, fReadPos,
  pc,          \* where a producer is in write
  msg, w, pos, \* its local variables, pos being the value fWritePos++ loaded
  popping,     \* the index read has taken, or -1
  sent,        \* number of calls of write: the messages are 1 .. sent
  lost,        \* messages reported as lost
  stopped,     \* messages whose push was cut by the end of its thread
  received     \* what read has returned

vars == <<fBuffer, fWritePos, fReadPos, pc, msg, w, pos, popping, sent, lost, stopped, received>>
locals == <<msg, w, pos>>

Mut_pos2index(p) == p

pos2index(p) == p % Size
available == fWritePos - fReadPos

TypeOK ==
  /\ fBuffer \in [0..Size-1 -> 0..MaxPush]
  /\ fWritePos \in Nat /\ fReadPos \in Nat
  /\ pc \in [Producers -> {"idle", "store", "load", "increment"}]
  /\ msg \in [Producers -> 0..MaxPush]
  /\ w \in [Producers -> 0..Size-1]
  /\ pos \in [Producers -> Nat]
  /\ popping \in -1..Size-1
  /\ sent \in 0..MaxPush
  /\ lost \subseteq 1..MaxPush /\ stopped \subseteq 1..MaxPush
  /\ received \in Seq(0..MaxPush)

Init ==
  /\ fBuffer = [i \in 0..Size-1 |-> 0]
  /\ fWritePos = 0 /\ fReadPos = 0
  /\ pc = [p \in Producers |-> "idle"]
  /\ msg = [p \in Producers |-> 0]
  /\ w = [p \in Producers |-> 0]
  /\ pos = [p \in Producers |-> 0]
  /\ popping = -1
  /\ sent = 0 /\ lost = {} /\ stopped = {} /\ received = <<>>

\* One thread is never in the middle of a push and of a pop.
MayPush(p) == p = TimeTask => popping = -1
MayPop == TimeTask \in Producers => pc[TimeTask] = "idle"

-----------------------------------------------------------------------------
(* write: 16 bit unsigned indexes.                                         *)

\* The index before the read index, as an unsigned short: 65535 before 0.
beforeRead == (pos2index(fReadPos) - 1) % UShort

Mut_full == FALSE
Mut2_full == pos2index(fWritePos) = pos2index(fReadPos)

full == pos2index(fWritePos) = beforeRead

Test(p) ==
  /\ pc[p] = "idle" /\ MayPush(p)
  /\ sent < MaxPush
  /\ AvoidWrap => ~(pos2index(fReadPos) = 0 /\ available >= Size - 1)
  /\ sent' = sent + 1
  /\ IF full
     THEN /\ lost' = lost \union {sent + 1}
          /\ UNCHANGED <<pc, msg, w>>
     ELSE /\ msg' = [msg EXCEPT ![p] = sent + 1]
          /\ w' = [w EXCEPT ![p] = pos2index(fWritePos)]
          /\ pc' = [pc EXCEPT ![p] = "store"]
          /\ UNCHANGED lost
  /\ UNCHANGED <<fBuffer, fWritePos, fReadPos, pos, popping, stopped, received>>

Store(p) ==
  /\ pc[p] = "store"
  /\ fBuffer' = [fBuffer EXCEPT ![w[p]] = msg[p]]
  /\ pc' = [pc EXCEPT ![p] = "load"]
  /\ UNCHANGED <<fWritePos, fReadPos, locals, popping, sent, lost, stopped, received>>

\* fWritePos++ loads the position, then stores it.
Load(p) ==
  /\ pc[p] = "load"
  /\ pos' = [pos EXCEPT ![p] = fWritePos]
  /\ pc' = [pc EXCEPT ![p] = "increment"]
  /\ UNCHANGED <<fBuffer, fWritePos, fReadPos, msg, w, popping, sent, lost, stopped, received>>

Increment(p) ==
  /\ pc[p] = "increment"
  /\ fWritePos' = pos[p] + 1
  /\ pc' = [pc EXCEPT ![p] = "idle"]
  /\ UNCHANGED <<fBuffer, fReadPos, locals, popping, sent, lost, stopped, received>>

-----------------------------------------------------------------------------
(* read: the position is incremented before the slot is loaded.            *)

Mut_Take ==
  /\ popping = -1 /\ MayPop
  /\ fReadPos <= fWritePos
  /\ popping' = pos2index(fReadPos)
  /\ fReadPos' = fReadPos + 1
  /\ UNCHANGED <<fBuffer, fWritePos, pc, locals, sent, lost, stopped, received>>

Take ==
  /\ popping = -1 /\ MayPop
  /\ fReadPos < fWritePos
  /\ popping' = pos2index(fReadPos)
  /\ fReadPos' = fReadPos + 1
  /\ UNCHANGED <<fBuffer, fWritePos, pc, locals, sent, lost, stopped, received>>

Fetch ==
  /\ popping # -1
  /\ received' = Append(received, fBuffer[popping])
  /\ popping' = -1
  /\ UNCHANGED <<fBuffer, fWritePos, fReadPos, pc, locals, sent, lost, stopped>>

Write(p) == Test(p) \/ Store(p) \/ Load(p) \/ Increment(p)

\* IGlue::oscinit, when a message of the update changes the port: the thread that
\* listens is terminated wherever it is, and another one takes its place.
Terminate(p) ==
  /\ p # TimeTask /\ pc[p] # "idle" /\ popping = -1
  /\ Cardinality(stopped) < MaxStops
  /\ stopped' = stopped \union {msg[p]}
  /\ pc' = [pc EXCEPT ![p] = "idle"]
  /\ UNCHANGED <<fBuffer, fWritePos, fReadPos, locals, popping, sent, lost, received>>

\* All the messages have been pushed and popped.
Done ==
  /\ sent = MaxPush /\ popping = -1 /\ fReadPos >= fWritePos
  /\ \A p \in Producers : pc[p] = "idle"
  /\ UNCHANGED vars

Next == (\E p \in Producers : Write(p) \/ Terminate(p)) \/ Take \/ Fetch \/ Done

\* A thread inside write goes on, and the time task pops on every tick.
Fairness ==
  /\ \A p \in Producers : WF_vars(Store(p) \/ Load(p) \/ Increment(p))
  /\ WF_vars(Take \/ Fetch)

Spec == Init /\ [][Next]_vars /\ Fairness

-----------------------------------------------------------------------------
(* Properties.                                                             *)

\* The messages that the reader will find, the one it is taking first.
pending ==
  LET from == IF popping = -1 THEN fReadPos ELSE fReadPos - 1
  IN  [i \in 1..(fWritePos - from) |-> fBuffer[pos2index(from + i - 1)]]

\* The calls of write that have stored a position or reported a loss.
ended == sent - Cardinality({p \in Producers : pc[p] # "idle"})

\* With one producer, the buffer is a bounded queue of Size - 1 messages (the
\* slot before the read index stays free, and the one the reader is loading):
\* nothing is delivered twice or out of order, or lost without a report but for the
\* message of a thread that is terminated, which leaves no trace in the buffer.
Fifo == INSTANCE MessageFifo WITH
          queue <- pending, Capacity <- Size - 1, pushed <- ended
FifoSpec == Fifo!Spec

\* No slot is read that no message was stored in, or whose message has already
\* been popped (and deleted) by IController::processOn.
NoStaleFetch ==
  \A i \in 1..Len(received) :
    received[i] # 0 /\ \A j \in 1..i-1 : received[j] # received[i]

\* No data overrun: there are never more messages available than slots.
NoOverrun == available <= Size
=============================================================================
