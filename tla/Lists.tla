------------------------------- MODULE Lists -------------------------------
(***************************************************************************)
(* The selections from a list.  It is SelectSeq with a set instead of a    *)
(* test, in a form that can be reasoned about.                             *)
(***************************************************************************)
EXTENDS Integers, Sequences

Elems(list) == {list[i] : i \in 1..Len(list)}

\* The elements of a list that belong to S, in their order.
Pick(list, S) ==
  LET picked[i \in 0..Len(list)] ==
        IF i = 0 THEN <<>>
        ELSE IF list[i] \in S THEN Append(picked[i - 1], list[i])
        ELSE picked[i - 1]
  IN  picked[Len(list)]
=============================================================================
