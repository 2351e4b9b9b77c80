---------------------------- MODULE Performance ----------------------------
(***************************************************************************)
(* The scripts of Scripts, played by Player: what was sent is compared     *)
(* with what they say, from the trees of the parser to the clocks.         *)
(***************************************************************************)
EXTENDS Player, Scripts

ASSUME PerformanceAssumption ==
  MessagesOf = [p \in Programs |-> messages(p.statements, p.variables)]

\* What was sent, path by path.
Heard ==
  FlattenSeq([i \in DOMAIN sent |->
    LET leaves == Leaves(sent[i].message)
    IN  [j \in DOMAIN leaves |-> [date |-> sent[i].date, told |-> Told(leaves[j])]]])

\* What the script says that should have been sent: a message without delay at once, the
\* others at the date when the script is loaded and the sum of the delays of their path,
\* in the order of the dates, and in the order of the script for the same date.
Expected ==
  LET all    == AllWritten(session.statements, session.variables)
      told   == [i \in DOMAIN all |-> Told(all[i])]
      due(i) == loaded + told[i][1].delay
      Before(i, j) == due(i) < due(j) \/ (due(i) = due(j) /\ i < j)
      Now(i) == told[i][1].delay = 0 \/ due(i) <= fDate
      turn   == SortSeq(SelectSeq([i \in DOMAIN told |-> i], Now), Before)
  IN  [k \in DOMAIN turn |-> [date |-> due(turn[k]),
                              told |-> [told[turn[k]] EXCEPT ![1].delay = 0]]]

\* A script is played as it is written, from the trees of the parser to the clocks: the
\* sequences and the parallels make the messages, each one is sent once, at its date and
\* with its data, and the messages inside its data keep their own delays
\* (doc/papers/2019-JIM/inscore-lang-jim2.tex, pathsList::eval, TILoader::parse).
PlayedAsWritten ==
  /\ session # None /\ loaded # Never /\ todo = <<>>
  /\ Plain(session.statements, session.variables)
  => Heard = Expected
=============================================================================
