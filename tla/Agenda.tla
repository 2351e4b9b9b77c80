------------------------------- MODULE Agenda -------------------------------
(***************************************************************************)
(* What the scheduler of the delayed messages promises: an element that is *)
(* put for a date is delivered by the clock of that date, or by the next   *)
(* one when it is put too late.  The late ones come first, and otherwise   *)
(* the elements are delivered in the order they were put in.               *)
(***************************************************************************)
EXTENDS Integers, Sequences, Lists

CONSTANTS
  Elements,   \* what is scheduled
  LastDate    \* the date of the last clock

VARIABLES
  date,       \* the current date
  pending,    \* the entries [element, due] to be delivered, in the order of the puts
  out         \* the elements that the last clock delivered

Init == date = 0 /\ pending = <<>> /\ out = <<>>

Put(e, due) ==
  /\ \A i \in 1..Len(pending) : pending[i].element # e
  /\ pending' = Append(pending, [element |-> e, due |-> due])
  /\ out' = <<>>
  /\ UNCHANGED date

Clock ==
  /\ date < LastDate
  /\ date' = date + 1
  /\ LET late == {m \in Elems(pending) : m.due <= date}
         due == {m \in Elems(pending) : m.due = date + 1}
         later == {m \in Elems(pending) : m.due > date + 1}
         delivered == Pick(pending, late) \o Pick(pending, due)
     IN  /\ out' = [i \in 1..Len(delivered) |-> delivered[i].element]
         /\ pending' = Pick(pending, later)

Next == Clock \/ \E e \in Elements, due \in 0..LastDate : Put(e, due)

Spec == Init /\ [][Next]_<<date, pending, out>>
=============================================================================
