---------------------------- MODULE MCScheduler ----------------------------
(* Small instances of Performance: the elements are interchangeable when  *)
(* any is put, and the scripts put every head before one or two branches.  *)
EXTENDS Performance, TLC

CONSTANTS e1, e2

MCSymmetry == Permutations(Free)

MCElements  == {e1, e2} \union 1..6
MCLoadDates == {7, 24}

A == slash(create("a"))
B == slash(create("b"))
X == create("x")
Y == create("y")
V == variable("v")
W == variable("w")

MCVariables == [v |-> create("n"), w |-> Par2(X, Y), z |-> Seq2(wait(2), Seq2(A, Y))]

\* An address, one that is delayed before, inside and after, several, and variables.
MCHeads ==
  {A, Seq2(wait(1), A), Seq2(A, Seq2(wait(1), B)), Seq2(A, wait(2)),
   Par2(Seq2(wait(2), A), B), slash(V), slash(W)}

\* Data, delayed data, delayed leaves, an address, and messages inside the data.
MCBranches ==
  {Seq2(X, Y), Seq2(X, Par2(X, Y)), Seq2(X, V), Seq2(X, W),
   Seq2(wait(3), Seq2(X, Y)), Seq2(X, Par2(Seq2(wait(2), X), Seq2(wait(1), Y))),
   Seq2(wait(9), Seq2(B, X)),
   Seq2(X, Seq2(Y, Par2(Seq2(wait(1), Seq2(B, X)), Seq2(A, Seq2(wait(3), Seq2(X, Y))))))}

MCPairs ==
  {Seq2(X, Y), Seq2(wait(3), Seq2(X, Y)), Seq2(wait(9), Seq2(B, X))}

\* A statement, or two: the second one is played from a variable.
MCPrograms ==
  {[statements |-> st, variables |-> MCVariables] :
     st \in {<<Seq2(h, b)>> : h \in MCHeads, b \in MCBranches}
            \union {<<Seq2(h, Par2(b, c))>> : h \in MCHeads, b \in MCBranches, c \in MCPairs}
            \union {<<variable("z"), Seq2(h, b)>> : h \in MCHeads, b \in MCBranches}}

MCMessagesOf == [p \in MCPrograms |-> messages(p.statements, p.variables)]
MCMessage    == UNION {Range(MCMessagesOf[p]) : p \in MCPrograms}
=============================================================================
