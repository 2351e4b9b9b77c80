---------------------------- MODULE MessageFifo ----------------------------
(***************************************************************************)
(* What a message stack promises: a bounded first in first out queue.  A   *)
(* message that does not fit is reported as lost, and only such a message, *)
(* but for those whose thread is stopped in the middle of its push.        *)
(* Messages are numbered in the order of the pushes.                       *)
(***************************************************************************)
EXTENDS Naturals, Sequences

CONSTANTS Capacity, MaxPush

VARIABLES
  queue,      \* the pending messages
  received,   \* the messages popped so far
  lost,       \* the messages reported as lost
  stopped,    \* those whose push was cut
  pushed      \* how many pushes have ended

Init == queue = <<>> /\ received = <<>> /\ lost = {} /\ stopped = {} /\ pushed = 0

\* A message counts in the queue until its pop has ended: with Capacity messages,
\* one of which is being popped, a push may find room or not.
Push ==
  /\ pushed < MaxPush
  /\ Len(queue) <= Capacity
  /\ pushed' = pushed + 1
  /\ queue' = Append(queue, pushed + 1)
  /\ UNCHANGED <<received, lost, stopped>>

Lose ==
  /\ pushed < MaxPush
  /\ Len(queue) >= Capacity
  /\ pushed' = pushed + 1
  /\ lost' = lost \union {pushed + 1}
  /\ UNCHANGED <<queue, received, stopped>>

Stop ==
  /\ pushed < MaxPush
  /\ pushed' = pushed + 1
  /\ stopped' = stopped \union {pushed + 1}
  /\ UNCHANGED <<queue, received, lost>>

Pop ==
  /\ queue # <<>>
  /\ received' = Append(received, Head(queue))
  /\ queue' = Tail(queue)
  /\ UNCHANGED <<lost, stopped, pushed>>

vars == <<queue, received, lost, stopped, pushed>>

Next == Push \/ Lose \/ Stop \/ Pop

Spec == Init /\ [][Next]_vars /\ WF_vars(Pop)
=============================================================================
