----------------------------- MODULE MCTimeTask -----------------------------
(* Small instances of TimeTask: objects "a" and "b" of a scene, and "c" of another one. *)
EXTENDS TimeTask

M(o, method, value) == [obj |-> o, method |-> method, value |-> value]
On(o, event, msg) == [obj |-> o, event |-> event, first |-> 0, second |-> 0, send |-> <<msg>>]
In(o, event, first, second, msg) ==
  [obj |-> o, event |-> event, first |-> first, second |-> second, send |-> <<msg>>]

MCScene == [o \in Objects |-> IF o = "c" THEN "other" ELSE "scene"]

\* The dates of b and c set each other, a loop.  The moves of b push a and make b longer.
\* The intervals of a have no gap between them and switch the tempos on and off.
MCWatches == <<
  On("b", "date", M("c", "date", 1)), On("c", "date", M("b", "date", 0)),
  On("b", "ddate", M("a", "ddate", 1)), On("b", "ddate", M("b", "durClock", 1)),
  In("a", "timeEnter", 0, 1, M("c", "tempo", 1)), In("a", "timeLeave", 0, 1, M("c", "tempo", 0)),
  In("a", "timeEnter", 1, 3, M("b", "tempo", 0)), In("a", "timeLeave", 1, 3, M("b", "tempo", 1)),
  In("a", "durEnter", 1, 2, M("b", "tempo", 1)), In("a", "durLeave", 1, 2, M("b", "tempo", 0))>>
MCInputs == {M("b", "tempo", 1), M("a", "date", 0), M("a", "date", 1), M("b", "date", 2),
             M("a", "duration", 1), M("a", "duration", 2)}

\* The interval events of a move it in and out of the interval.
MCBounce == <<
  In("a", "timeEnter", 0, 1, M("a", "date", 1)), In("a", "timeLeave", 0, 1, M("a", "date", 0))>>
MCBounceInputs == {M("a", "date", 1)}
=============================================================================
