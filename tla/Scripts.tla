------------------------------- MODULE Scripts -------------------------------
(***************************************************************************)
(* The evaluation of the scripts of version 2 (inscore2): the trees of the *)
(* parser are put in sequence and in parallel (parseEval), the variables   *)
(* are replaced by their trees (evaluator), and the result is cut into the *)
(* paths that make a message each, with the total of their delays          *)
(* (pathsList, inscorev1converter).                                        *)
(*                                                                         *)
(* A node carries its value, whether it is a part of an address, its delay *)
(* and its subnodes; the parameters of a message stay a tree.  The         *)
(* operators, the expansions and the local environments of the variables   *)
(* are not there.                                                          *)
(***************************************************************************)
EXTENDS Integers, SequencesExt

Node(kind, val) ==
  [kind |-> kind, val |-> val, addr |-> FALSE, delay |-> 0, sub |-> <<>>]

\* What the parser builds (IParser).
create(val)   == Node("text", val)
variable(val) == Node("variable", val)
wait(d)       == [Node("delay", "") EXCEPT !.delay = d]
slash(n)      == [n EXCEPT !.addr = TRUE]
Seq2(n1, n2)  == [Node("seq", "") EXCEPT !.sub = <<n1, n2>>]
Par2(n1, n2)  == [Node("par", "") EXCEPT !.sub = <<n1, n2>>]

Forest(list) == [Node("forest", "") EXCEPT !.sub = list]
isForest(n)  == n.kind = "forest"

\* NList::add: a forest is replaced by its subnodes.
added(n) == IF isForest(n) THEN n.sub ELSE <<n>>

\* The list of f(n) for the nodes n.
Each(f(_), list) == FlattenSeq([i \in DOMAIN list |-> added(f(list[i]))])

-----------------------------------------------------------------------------
(* parseEval *)

RECURSIVE seq(_, _)
seq(n1, n2) ==
  [n1 EXCEPT !.sub = IF n1.sub = <<>> THEN added(n2)
                     ELSE Each(LAMBDA n : seq(n, n2), n1.sub)]

RECURSIVE parseEval(_)
parseEval(n) ==
  CASE n.kind = "seq"              -> seq(parseEval(n.sub[1]), parseEval(n.sub[2]))
    [] n.kind \in {"par", "forest"} -> Forest(Each(parseEval, n.sub))
    [] OTHER                       -> n

-----------------------------------------------------------------------------
(* evaluator: env gives the trees of the variables; marked is the set of   *)
(* those whose tree was made an address, by a use of the variable in one.  *)
(* The trees are shared by all the uses.                                   *)

useVar(n, env, marked) ==
  LET used == IF n.addr THEN marked \union {n.val} ELSE marked
  IN  [node |-> IF n.val \in used THEN slash(env[n.val]) ELSE env[n.val],
       marked |-> used]

RECURSIVE evaluate(_, _, _)
evalNode(n, env, marked) ==
  LET One(acc, c) ==
        LET e == evaluate(c, env, acc.marked)
        IN  [list |-> acc.list \o added(IF isForest(n) /\ n.addr THEN slash(e.node) ELSE e.node),
             marked |-> e.marked]
      all == FoldLeft(One, [list |-> <<>>, marked |-> marked], n.sub)
  IN  [node |-> [n EXCEPT !.sub = all.list], marked |-> all.marked]

evaluate(n, env, marked) ==
  IF n.kind = "variable" /\ n.val \in DOMAIN env
    THEN LET tree == useVar(n, env, marked)
             out == evaluate(tree.node, env, tree.marked)
         IN  IF n.sub = <<>> THEN out
             ELSE evaluate(seq(out.node, Forest(n.sub)), env, out.marked)
    ELSE evalNode(n, env, marked)

-----------------------------------------------------------------------------
(* pathsList *)

\* A delay is reported to the subnodes of its node.
setDelay(n, d) ==
  IF isForest(n) THEN [n EXCEPT !.delay = d, !.sub = [i \in DOMAIN @ |-> [@[i] EXCEPT !.delay = d]]]
                 ELSE [n EXCEPT !.delay = d]

RECURSIVE evalDelays(_)
evalDelays(n) ==
  LET list == Each(evalDelays, n.sub)
  IN  CASE n.kind = "delay" -> Forest(Each(LAMBDA s : setDelay(evalDelays(s), n.delay), n.sub))
        [] isForest(n)      -> Forest(list)
        [] OTHER            -> [n EXCEPT !.sub = list]

\* The paths: an address makes one for each of its subnodes, and a node of data one
\* for each of its delayed leaves.
RECURSIVE paths(_)
evalAddress(n) == Forest(LET all == Each(paths, n.sub)
                         IN  [i \in DOMAIN all |-> [n EXCEPT !.sub = <<all[i]>>]])

evalDData(n) ==
  LET DelayedLeaf(s) == s.delay # 0 /\ s.sub = <<>>
      subs == [i \in DOMAIN n.sub |-> paths(n.sub[i])]
      list == Each(LAMBDA s : IF DelayedLeaf(s) THEN [n EXCEPT !.sub = <<s>>] ELSE s, subs)
  IN  IF \E i \in DOMAIN subs : DelayedLeaf(subs[i]) THEN Forest(list) ELSE [n EXCEPT !.sub = list]

paths(n) ==
  IF isForest(n) THEN Forest(Each(paths, n.sub))
  ELSE IF n.addr THEN evalAddress(n) ELSE evalDData(n)

Mut_Stops(n, inAddress) == FALSE

\* sumDelays takes the delays of a node and of those below it, up to the next message.
Stops(n, inAddress) == ~inAddress /\ n.addr
RECURSIVE sumDelays(_, _)
sumDelays(n, inAddress) ==
  IF Stops(n, inAddress) THEN 0
  ELSE FoldLeft(LAMBDA d, s : d + sumDelays(s, n.addr), n.delay, n.sub)

RECURSIVE taken(_, _)
taken(n, inAddress) ==
  IF Stops(n, inAddress) THEN n
  ELSE [n EXCEPT !.delay = 0, !.sub = [i \in DOMAIN @ |-> taken(@[i], n.addr)]]

RECURSIVE delayed(_)
delayed(n) ==
  LET total == FoldLeft(LAMBDA d, s : d + sumDelays(s, TRUE), n.delay, n.sub)
      root  == IF n.addr
                 THEN [n EXCEPT !.delay = total, !.sub = [i \in DOMAIN @ |-> taken(@[i], TRUE)]]
                 ELSE n
  IN  [root EXCEPT !.sub = Each(delayed, @)]

-----------------------------------------------------------------------------
(* inscorev1converter: the messages that a method gets directly are lost   *)
(* (v1Msg::toMessage), those below its parameters are kept.                *)

RECURSIVE toMessage(_)
RECURSIVE getParams(_)
getParams(n) ==
  IF n.addr THEN toMessage(n) ELSE [n EXCEPT !.sub = [i \in DOMAIN @ |-> getParams(@[i])]]
toMessage(n) ==
  IF n.addr THEN [n EXCEPT !.sub = [i \in DOMAIN @ |-> toMessage(@[i])]]
  ELSE LET data == SelectSeq(n.sub, LAMBDA s : ~s.addr)
       IN  [n EXCEPT !.sub = [i \in DOMAIN data |-> getParams(data[i])]]

\* The trees of the variables are evaluated by their declarations (IParser::declare).
declare(env) == [v \in DOMAIN env |-> parseEval(env[v])]

\* The messages of a script, the list of its statements (TILoader::parsev2).
messages(script, env) ==
  LET tree   == evaluate(parseEval(Forest(script)), declare(env), {}).node
      forest == paths(evalDelays(tree))
      list   == Each(delayed, forest.sub)
  IN  [i \in DOMAIN list |-> toMessage(list[i])]

\* The paths from the root of a message to its leaves.
RECURSIVE Leaves(_)
Leaves(n) ==
  LET here  == [val |-> n.val, addr |-> n.addr, delay |-> n.delay]
      below == FlattenSeq([i \in DOMAIN n.sub |-> Leaves(n.sub[i])])
  IN  IF below = <<>> THEN <<<<here>>>> ELSE [i \in DOMAIN below |-> <<here>> \o below[i]]

-----------------------------------------------------------------------------
(* What a script says, without building any tree: a sequence is the        *)
(* product of the paths of its parts, a parallel is the paths of both, and *)
(* a message waits for the sum of the delays on its path.                  *)

RECURSIVE Written(_, _)
Written(t, env) ==
  CASE t.kind = "seq" ->
         LET P == Written(t.sub[1], env)
             Q == Written(t.sub[2], env)
         IN  FlattenSeq([i \in DOMAIN P |-> [j \in DOMAIN Q |-> P[i] \o Q[j]]])
    [] t.kind = "par" -> Written(t.sub[1], env) \o Written(t.sub[2], env)
    [] t.kind = "variable" ->
         LET P == Written(env[t.val], env)
         IN  [i \in DOMAIN P |-> [P[i] EXCEPT ![1].addr = @ \/ t.addr]]
    [] OTHER -> <<<<[val |-> t.val, addr |-> t.addr, delay |-> t.delay]>>>>

\* The messages of a path, one inside the other: each one has its delay, its address and
\* its data.  An address that comes after data begins a message.
IsDelay(a) == a.val = ""
Told(path) ==
  LET Step(acc, a) ==
        LET now  == acc.wait + a.delay
            n    == Len(acc.told)
            more == IF n > 0 /\ (a.addr => acc.told[n].data = <<>>) THEN acc.told
                    ELSE Append(acc.told, [delay |-> 0, address |-> <<>>, data |-> <<>>])
            last == more[Len(more)]
        IN  IF IsDelay(a) THEN [acc EXCEPT !.wait = now]
            ELSE [wait |-> 0,
                  told |-> [more EXCEPT ![Len(more)] =
                              [delay |-> last.delay + now,
                               address |-> IF a.addr THEN Append(last.address, a.val) ELSE last.address,
                               data |-> IF a.addr THEN last.data ELSE Append(last.data, a.val)]]]
  IN  FoldLeft(Step, [wait |-> 0, told |-> <<>>], path).told

\* The scripts whose messages are those that they say.  The code reads the other ones in
\* another way: a delay replaces the one that follows it (evalDelay), one at the end of a
\* path is dropped (evalDelays), one below a method stands for the whole message, unless
\* all the parameters are delayed leaves (evalDData, sumDelays), a message given to a
\* method directly is lost (toMessage), and a variable used in an address is an address
\* ever after (evalVar).
DataAt(path, i) ==
  LET told == Told(SubSeq(path, 1, i - 1))
  IN  IF told = <<>> THEN 0 ELSE Len(told[Len(told)].data)

PlainDelay(all, p, i) ==
  /\ i < Len(p) /\ ~IsDelay(p[i + 1])
  /\ \/ p[i + 1].addr
     \/ DataAt(p, i) = 0
     \/ /\ DataAt(p, i) = 1 /\ i + 1 = Len(p)
        /\ \A k \in DOMAIN all :
             LET q == all[k]
             IN  IsPrefix(SubSeq(p, 1, i - 1), q) => Len(q) = i + 1 /\ IsDelay(q[i])

PlainPath(all, p) ==
  /\ p[1].addr \/ IsDelay(p[1])
  /\ ~p[Len(p)].addr
  /\ \A i \in DOMAIN p : /\ IsDelay(p[i]) => PlainDelay(all, p, i)
                         /\ p[i].addr => DataAt(p, i) # 1

RECURSIVE Uses(_)
Uses(t) == IF t.kind = "variable" THEN {<<t.val, t.addr>>}
           ELSE UNION {Uses(t.sub[i]) : i \in DOMAIN t.sub}

AllWritten(script, env) == FlattenSeq([i \in DOMAIN script |-> Written(script[i], env)])

Plain(script, env) ==
  LET all  == AllWritten(script, env)
      uses == UNION {Uses(script[i]) : i \in DOMAIN script}
  IN  /\ \A i \in DOMAIN all : PlainPath(all, all[i])
      /\ \A v \in DOMAIN env : {<<v, TRUE>>, <<v, FALSE>>} \ uses # {}
=============================================================================
