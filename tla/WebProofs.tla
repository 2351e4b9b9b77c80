----------------------------- MODULE WebProofs -----------------------------
(***************************************************************************)
(* Proofs about WebPost, for every set of clients, every set of scripts    *)
(* and any traffic: the types, and that no script is mixed with another.   *)
(***************************************************************************)
EXTENDS WebPost, SequenceTheorems, TLAPS

\* What the clients have posted so far, applied or not.
Posted == executed \o fWebMsgStack

\* The places of postScript before the first push.
Fresh == {"lock", "concatOn", "reset", "parse", "concatOff", "logParse"}

\* What ScriptsWhole rests on: a client has posted the messages before its next one;
\* it pushes while it has some left, and, as it holds the mutex from its first push to
\* its last, the one before its next is then the last that was posted.
PushInv ==
  /\ executed \in Seq(Errors) /\ fWebMsgStack \in Seq(Errors)
  /\ \A c \in Clients :
       /\ pc[c] \in Fresh => next[c] = 1
       /\ pc[c] = "push" => next[c] \in 1..Len(script[c].fails)
  /\ \A i \in 1..Len(Posted) :
       \A c \in Clients : Posted[i][1] = c => Posted[i][2] \in Nat \ {0} /\ Posted[i][2] < next[c]
  /\ \A c \in Clients : pc[c] = "push" /\ next[c] > 1
       => Len(Posted) > 0 /\ Posted[Len(Posted)] = <<c, next[c] - 1>>

WebInv == TypeOK /\ PushInv /\ ScriptsWhole

\* ScriptsWhole, of any sequence of messages.
Whole(posted) ==
  \A i, j \in 1..Len(posted) :
    i < j /\ posted[i][1] = posted[j][1]
      => /\ posted[j][2] = posted[i][2] + (j - i)
         /\ \A k \in i..j : posted[k][1] = posted[i][1]

LEMMA WholePosted == ScriptsWhole <=> Whole(Posted)
BY DEF ScriptsWhole, Whole, Posted

LEMMA ItemsAreErrors ==
  /\ foreign \in Errors
  /\ \A c \in Clients : Items(c) \subseteq Errors
BY DEF Errors

\* The errors that there may be are those of the scripts, which stay.
LEMMA ErrorsStay ==
  ASSUME script' = script
  PROVE  Errors' = Errors /\ \A c \in Clients : Items(c)' = Items(c)
BY DEF Errors, Items

LEMMA ScriptLengths ==
  ASSUME TypeOK, NEW c \in Clients
  PROVE  /\ script[c].fails \in Seq(BOOLEAN)
         /\ Len(script[c].fails) \in Nat
         /\ script[c].fails # <<>> => 1 \in 1..Len(script[c].fails)
BY ScriptAssumption DEF TypeOK

-----------------------------------------------------------------------------
LEMMA WebInit == Init => WebInv
<1> SUFFICES ASSUME Init PROVE WebInv
  OBVIOUS
<1>1. ASSUME NEW c \in Clients
      PROVE  next[c] \in 1..Len(script[c].fails) + 1
  <2>1. script[c].fails \in Seq(BOOLEAN) /\ next[c] = 1
    BY ScriptAssumption DEF Init
  <2>2. Len(script[c].fails) \in Nat
    BY <2>1, LenProperties
  <2> QED
    BY <2>1, <2>2
<1>2. /\ \A i \in 1..Len(fWebMsgStack) : fWebMsgStack[i] \in Errors
      /\ \A i \in 1..Len(executed) : executed[i] \in Errors
  BY DEF Init
<1>3. \A c \in Clients : pc[c] \in Locked <=> fPostCommandMutex = c
  BY NobodyAssumption DEF Init, Locked
<1>4. TypeOK
  BY <1>1, <1>2, <1>3 DEF Init, TypeOK
<1>5. Posted = <<>>
  BY DEF Init, Posted
<1>6. PushInv
  BY <1>5 DEF Init, PushInv, Fresh
<1>7. ScriptsWhole
  BY <1>5, WholePosted DEF Whole
<1> QED
  BY <1>4, <1>6, <1>7 DEF WebInv

\* One step of a client, from a place to another.
LEMMA TypeOfPost ==
  ASSUME TypeOK, PushInv, NEW c \in Clients, Post(c)
  PROVE  TypeOK'
<1>0. script' = script
  BY DEF Post, Lock, ConcatOn, Reset, Parse, ConcatOff, LogParse, Push, Wait, Relock, Answer
<1> USE ItemsAreErrors, ErrorsStay, NobodyAssumption, <1>0
<1>1. CASE Lock(c)
  BY <1>1 DEF TypeOK, Lock, Goto, Locked, stream, stacks
<1>2. CASE ConcatOn(c)
  BY <1>2 DEF TypeOK, ConcatOn, Goto, Locked, stream, stacks
<1>3. CASE Reset(c)
  BY <1>3 DEF TypeOK, Reset, Goto, Locked, stream, stacks
<1>4. CASE Parse(c)
  <2>1. <<c, 0>> \in Errors
    BY ScriptLengths DEF Items
  <2>2. fSStreamConcat' \subseteq Errors
    BY <1>4, <2>1 DEF TypeOK, Parse, Report
  <2> QED
    BY <1>4, <2>2 DEF TypeOK, Parse, Goto, Locked, stream, stacks
<1>5. CASE ConcatOff(c)
  BY <1>5 DEF TypeOK, ConcatOff, Goto, Locked, stream, stacks
<1>6. CASE LogParse(c)
  BY <1>6 DEF TypeOK, LogParse, Goto, Locked, stream, stacks
<1>7. CASE Push(c)
  <2>1. next[c] \in 1..Len(script[c].fails) /\ next' = [next EXCEPT ![c] = @ + 1]
    BY <1>7 DEF Push, Goto, PushInv
  <2>2. /\ next' \in [Clients -> Nat]
        /\ \A d \in Clients : next'[d] \in 1..Len(script[d].fails) + 1
    BY <2>1, ScriptLengths DEF TypeOK
  <2>3. <<c, next[c]>> \in Errors
    BY <2>1, ScriptLengths DEF Items
  <2>4. fWebMsgStack' \in Seq(Errors)
    BY <1>7, <2>3 DEF Push, PushInv
  <2> QED
    BY <1>7, <2>2, <2>4 DEF TypeOK, Push, Goto, Locked, stream, stacks
<1>8. CASE Wait(c)
  BY <1>8 DEF TypeOK, Wait, Goto, Locked, stream, stacks
<1>9. CASE Relock(c)
  BY <1>9 DEF TypeOK, Relock, Goto, Locked, stream, stacks
<1>10. CASE Answer(c)
  BY <1>10 DEF TypeOK, Answer, Goto, Locked, stream, stacks
<1> QED
  BY <1>1, <1>2, <1>3, <1>4, <1>5, <1>6, <1>7, <1>8, <1>9, <1>10 DEF Post

LEMMA TypeOfTask ==
  ASSUME TypeOK, PushInv, Task \/ Receive
  PROVE  TypeOK'
<1>0. script' = script
  BY DEF Task, Receive, Tick, ProcessMain, TaskConcatOn, TaskReset, ProcessWeb, EndWeb,
         TaskConcatOff, WakeAll, client
<1> USE ItemsAreErrors, ErrorsStay, <1>0
<1>1. CASE Tick
  BY <1>1 DEF TypeOK, Tick, TaskStep, client, stream, stacks
<1>2. CASE ProcessMain
  <2>1. fSStreamConcat' \subseteq Errors
    BY <1>2 DEF TypeOK, ProcessMain, Report
  <2> QED
    BY <1>2, <2>1 DEF TypeOK, ProcessMain, TaskStep, client
<1>3. CASE TaskConcatOn
  BY <1>3 DEF TypeOK, TaskConcatOn, TaskStep, client, stacks
<1>4. CASE TaskReset
  BY <1>4 DEF TypeOK, TaskReset, TaskStep, client, stacks
<1>5. CASE ProcessWeb
  <2>1. /\ Head(fWebMsgStack) \in Errors
        /\ Tail(fWebMsgStack) \in Seq(Errors)
        /\ Append(executed, Head(fWebMsgStack)) \in Seq(Errors)
    BY <1>5, HeadTailProperties DEF ProcessWeb, PushInv
  <2>2. fSStreamConcat' \subseteq Errors
    BY <1>5, <2>1 DEF TypeOK, ProcessWeb, Report
  <2>3. /\ \A i \in 1..Len(fWebMsgStack') : fWebMsgStack'[i] \in Errors
        /\ \A i \in 1..Len(executed') : executed'[i] \in Errors
    BY <1>5, <2>1 DEF ProcessWeb
  <2> QED
    BY <1>5, <2>2, <2>3 DEF TypeOK, ProcessWeb, client
<1>6. CASE EndWeb
  BY <1>6 DEF TypeOK, EndWeb, TaskStep, client, stream, stacks
<1>7. CASE TaskConcatOff
  BY <1>7 DEF TypeOK, TaskConcatOff, TaskStep, client, stacks
<1>8. CASE WakeAll
  BY <1>8 DEF TypeOK, WakeAll, TaskStep, Locked, stream, stacks
<1>9. CASE Receive
  BY <1>9 DEF TypeOK, Receive, client, stream
<1> QED
  BY <1>1, <1>2, <1>3, <1>4, <1>5, <1>6, <1>7, <1>8, <1>9 DEF Task

-----------------------------------------------------------------------------
(* The messages of the scripts.                                            *)

\* A step that posts nothing: what was posted is still posted.
LEMMA NothingPosted ==
  ASSUME PushInv, ScriptsWhole, UNCHANGED <<script, next>>,
         executed' \in Seq(Errors'), fWebMsgStack' \in Seq(Errors'), Posted' = Posted,
         \A c \in Clients :
           /\ pc'[c] \in Fresh => pc[c] \in Fresh
           /\ pc'[c] = "push" /\ pc[c] # "push" => next[c] = 1 /\ script[c].fails # <<>>,
         \A c \in Clients : script[c].fails \in Seq(BOOLEAN)
  PROVE  PushInv' /\ ScriptsWhole'
<1>1. ScriptsWhole'
  <2>1. Whole(Posted')
    BY WholePosted
  <2> QED
    BY <2>1 DEF Whole, ScriptsWhole, Posted
<1>2. ASSUME NEW c \in Clients
      PROVE  /\ pc'[c] \in Fresh => next'[c] = 1
             /\ pc'[c] = "push" => next'[c] \in 1..Len(script'[c].fails)
  <2>1. next' = next /\ script' = script
    OBVIOUS
  <2>2. (pc[c] \in Fresh => next[c] = 1) /\ (pc[c] = "push" => next[c] \in 1..Len(script[c].fails))
    BY DEF PushInv
  <2>3. /\ pc'[c] \in Fresh => pc[c] \in Fresh
        /\ pc'[c] = "push" /\ pc[c] # "push" => next[c] = 1 /\ script[c].fails # <<>>
    OBVIOUS
  <2>4. script[c].fails # <<>> => 1 \in 1..Len(script[c].fails)
    <3>1. script[c].fails \in Seq(BOOLEAN)
      OBVIOUS
    <3> QED
      BY <3>1, LenProperties, EmptySeq
  <2> QED
    BY <2>1, <2>2, <2>3, <2>4
<1>3. ASSUME NEW c \in Clients, pc'[c] = "push", next'[c] > 1
      PROVE  Len(Posted') > 0 /\ Posted'[Len(Posted')] = <<c, next'[c] - 1>>
  <2>1. next' = next /\ Posted' = Posted
    OBVIOUS
  <2>2. pc[c] = "push"
    BY <1>3, <2>1
  <2>3. Len(Posted) > 0 /\ Posted[Len(Posted)] = <<c, next[c] - 1>>
    BY <1>3, <2>1, <2>2 DEF PushInv
  <2> QED
    BY <2>1, <2>3
<1>4. \A i \in 1..Len(Posted') :
        \A c \in Clients : Posted'[i][1] = c => Posted'[i][2] \in Nat \ {0} /\ Posted'[i][2] < next'[c]
  BY DEF PushInv
<1> QED
  BY <1>1, <1>2, <1>3, <1>4 DEF PushInv

\* A push adds the message that follows the last one.
LEMMA PushKeepsWhole ==
  ASSUME TypeOK, PushInv, ScriptsWhole, NEW c \in Clients, Push(c)
  PROVE  PushInv' /\ ScriptsWhole'
<1> DEFINE m == <<c, next[c]>>
           n == Len(Posted)
<1>1. /\ script' = script /\ executed' = executed
      /\ fWebMsgStack' = Append(fWebMsgStack, m)
      /\ pc[c] = "push"
      /\ pc' = [pc EXCEPT ![c] = IF next[c] = Len(script[c].fails) THEN "wait" ELSE "push"]
      /\ next' = [next EXCEPT ![c] = @ + 1]
  BY DEF Push, Goto
<1>2. /\ next[c] \in 1..Len(script[c].fails) /\ Len(script[c].fails) \in Nat
      /\ next[c] \in Nat
  BY <1>1, ScriptLengths DEF PushInv
<1>3. m \in Errors /\ Errors' = Errors
  BY <1>1, <1>2, ItemsAreErrors, ErrorsStay DEF Items
<1>4. executed' \in Seq(Errors') /\ fWebMsgStack' \in Seq(Errors')
  BY <1>1, <1>3 DEF PushInv
<1>5. Posted \in Seq(Errors) /\ n \in Nat
  BY ConcatProperties, LenProperties DEF Posted, PushInv
<1>6. Posted' = Append(Posted, m)
  <2>1. /\ Posted' = executed \o (fWebMsgStack \o <<m>>)
        /\ Append(Posted, m) = (executed \o fWebMsgStack) \o <<m>>
    BY <1>1, <1>3, <1>5, AppendIsConcat DEF Posted, PushInv
  <2>2. <<m>> \in Seq(Errors)
    BY <1>3
  <2> QED
    BY <2>1, <2>2, ConcatAssociative DEF PushInv
<1>7. /\ Len(Posted') = n + 1
      /\ \A i \in 1..n : Posted'[i] = Posted[i]
      /\ Posted'[n + 1] = m
  BY <1>3, <1>5, <1>6, AppendProperties
<1> HIDE DEF m, n
<1>8. m[1] = c /\ m[2] = next[c]
  BY DEF m
<1>9. next'[c] = next[c] + 1 /\ \A d \in Clients \ {c} : next'[d] = next[d]
  BY <1>1 DEF TypeOK
<1>10. \A d \in Clients : pc[d] = "push" => d = c
  BY <1>1, NobodyAssumption DEF TypeOK, Locked
<1>11. ASSUME NEW i \in 1..n, Posted[i][1] = c
       PROVE  /\ next[c] = Posted[i][2] + (n + 1 - i)
              /\ \A k \in i..n : Posted[k][1] = c
  <2>1. Posted[i][2] \in Nat \ {0} /\ Posted[i][2] < next[c]
    BY <1>11 DEF PushInv, n
  <2>2. pc[c] = "push" /\ next[c] > 1
    BY <1>1, <1>2, <2>1
  <2>3. Posted[n] = <<c, next[c] - 1>>
    BY <2>2 DEF PushInv, n
  <2>4. Whole(Posted) /\ n \in 1..n
    BY <1>5, WholePosted
  <2>5. CASE i = n
    BY <1>2, <1>5, <2>3, <2>5
  <2>6. CASE i < n
    <3>1. /\ Posted[n][2] = Posted[i][2] + (n - i)
          /\ \A k \in i..n : Posted[k][1] = Posted[i][1]
      BY <1>11, <2>3, <2>4, <2>6 DEF Whole, n
    <3>2. Posted[n][2] = next[c] - 1
      BY <2>3
    <3>3. \A k \in i..n : Posted[k][1] = c
      BY <1>11, <3>1
    <3>4. next[c] - 1 = Posted[i][2] + (n - i)
      BY <3>1, <3>2
    <3>5. next[c] \in Nat /\ n \in Nat /\ i \in Nat /\ Posted[i][2] \in Nat
      BY <1>2, <1>5, <2>1
    <3>6. next[c] = Posted[i][2] + (n + 1 - i)
      BY <3>4, <3>5
    <3> QED
      BY <3>3, <3>6
  <2> QED
    BY <1>5, <2>5, <2>6
<1>12. Whole(Posted')
  <2> SUFFICES ASSUME NEW i \in 1..n + 1, NEW j \in 1..n + 1, i < j,
                      Posted'[i][1] = Posted'[j][1]
               PROVE  /\ Posted'[j][2] = Posted'[i][2] + (j - i)
                      /\ \A k \in i..j : Posted'[k][1] = Posted'[i][1]
    BY <1>7 DEF Whole
  <2>1. i \in 1..n /\ Posted'[i] = Posted[i]
    BY <1>5, <1>7
  <2>2. CASE j = n + 1
    <3>1. Posted[i][1] = c
      BY <1>7, <1>8, <2>1, <2>2
    <3>2. \A k \in i..j : k \in i..n \/ k = j
      BY <1>5, <2>2
    <3>3. \A k \in i..j : Posted'[k][1] = c
      BY <1>5, <1>7, <1>8, <1>11, <2>1, <2>2, <3>1, <3>2
    <3> QED
      BY <1>2, <1>5, <1>7, <1>8, <1>11, <2>1, <2>2, <3>1, <3>3
  <2>3. CASE j \in 1..n
    BY <1>5, <1>7, <2>1, <2>3, WholePosted DEF Whole, n
  <2> QED
    BY <1>5, <2>2, <2>3
<1>13. ScriptsWhole'
  BY <1>12 DEF Whole, ScriptsWhole, Posted
<1>14. ASSUME NEW d \in Clients
       PROVE  /\ pc'[d] \in Fresh => next'[d] = 1
              /\ pc'[d] = "push" => next'[d] \in 1..Len(script'[d].fails)
              /\ pc'[d] = "push" /\ next'[d] > 1
                   => Len(Posted') > 0 /\ Posted'[Len(Posted')] = <<d, next'[d] - 1>>
  <2>1. CASE d = c
    <3>1. pc'[c] \in {"wait", "push"}
          /\ (pc'[c] = "push" => next[c] # Len(script[c].fails))
      BY <1>1 DEF TypeOK
    <3>2. Len(Posted') > 0 /\ Posted'[Len(Posted')] = <<c, next'[c] - 1>>
      BY <1>2, <1>5, <1>7, <1>9 DEF m
    <3> QED
      BY <1>1, <1>2, <1>9, <2>1, <3>1, <3>2 DEF Fresh
  <2>2. CASE d # c
    <3>1. pc'[d] = pc[d] /\ next'[d] = next[d] /\ pc[d] # "push"
      BY <1>1, <1>9, <1>10, <2>2 DEF TypeOK
    <3> QED
      BY <3>1 DEF PushInv
  <2> QED
    BY <2>1, <2>2
<1>15. ASSUME NEW i \in 1..Len(Posted'), NEW d \in Clients, Posted'[i][1] = d
       PROVE  Posted'[i][2] \in Nat \ {0} /\ Posted'[i][2] < next'[d]
  <2>1. CASE i = n + 1
    BY <1>2, <1>7, <1>8, <1>9, <1>15, <2>1
  <2>2. CASE i \in 1..n
    <3>1. Posted[i][2] \in Nat \ {0} /\ Posted[i][2] < next[d]
      BY <1>7, <1>15, <2>2 DEF PushInv, n
    <3>2. d # c => next'[d] = next[d]
      BY <1>9
    <3> QED
      BY <1>2, <1>7, <1>9, <2>2, <3>1, <3>2
  <2> QED
    BY <1>5, <1>7, <2>1, <2>2
<1> QED
  BY <1>4, <1>13, <1>14, <1>15 DEF PushInv

LEMMA WebStep == WebInv /\ [Next]_vars => WebInv'
<1> SUFFICES ASSUME TypeOK, PushInv, ScriptsWhole, [Next]_vars
             PROVE  WebInv'
  BY DEF WebInv
<1>1. \A c \in Clients : script[c].fails \in Seq(BOOLEAN)
  BY ScriptLengths
<1>2. CASE UNCHANGED vars
  <2>1. TypeOK'
    BY <1>2 DEF vars, TypeOK, Errors, Items
  <2>2. Posted' = Posted /\ Errors' = Errors
    BY <1>2 DEF vars, Posted, Errors, Items
  <2>3. PushInv' /\ ScriptsWhole'
    BY <1>1, <1>2, <2>2, NothingPosted DEF vars, PushInv
  <2> QED
    BY <2>1, <2>3 DEF WebInv
<1>3. ASSUME NEW c \in Clients, Post(c)
      PROVE  WebInv'
  <2>1. TypeOK'
    BY <1>3, TypeOfPost
  <2>2. CASE Push(c)
    BY <2>1, <2>2, PushKeepsWhole DEF WebInv
  <2>3. CASE ~Push(c)
    <3>1. UNCHANGED <<script, next, executed, fWebMsgStack>>
      BY <1>3, <2>3 DEF Post, Lock, ConcatOn, Reset, Parse, ConcatOff, LogParse, Wait,
                        Relock, Answer, stacks
    <3>2. Posted' = Posted /\ Errors' = Errors
      BY <3>1, ErrorsStay DEF Posted
    <3>3. /\ pc'[c] \in Fresh => pc[c] \in Fresh
          /\ pc'[c] = "push" => pc[c] = "logParse" /\ script[c].fails # <<>>
          /\ \A d \in Clients \ {c} : pc'[d] = pc[d]
      BY <1>3, <2>3 DEF TypeOK, Post, Goto, Lock, ConcatOn, Reset, Parse, ConcatOff, LogParse,
                        Wait, Relock, Answer, Fresh
    <3>4. pc[c] = "logParse" => next[c] = 1
      BY DEF PushInv, Fresh
    <3>5. PushInv' /\ ScriptsWhole'
      BY <1>1, <3>1, <3>2, <3>3, <3>4, NothingPosted DEF PushInv
    <3> QED
      BY <2>1, <3>5 DEF WebInv
  <2> QED
    BY <2>2, <2>3
<1>4. CASE Task \/ Receive
  <2>1. TypeOK'
    BY <1>4, TypeOfTask
  <2>2. UNCHANGED <<script, next>>
    BY <1>4 DEF Task, Receive, Tick, ProcessMain, TaskConcatOn, TaskReset, ProcessWeb, EndWeb,
                TaskConcatOff, WakeAll, client
  <2>3. Errors' = Errors
    BY <2>2, ErrorsStay
  <2>4. \A c \in Clients : pc'[c] = pc[c] \/ pc'[c] = "relock"
    BY <1>4 DEF TypeOK, Task, Receive, Tick, ProcessMain, TaskConcatOn, TaskReset, ProcessWeb,
                EndWeb, TaskConcatOff, WakeAll, client
  <2>5. /\ executed' \in Seq(Errors) /\ fWebMsgStack' \in Seq(Errors)
        /\ Posted' = Posted
    <3>1. CASE ProcessWeb
      <4> DEFINE h == Head(fWebMsgStack)
                 t == Tail(fWebMsgStack)
      <4>1. /\ h \in Errors /\ t \in Seq(Errors) /\ <<h>> \in Seq(Errors)
            /\ executed \in Seq(Errors) /\ fWebMsgStack \in Seq(Errors)
        BY <3>1, HeadTailProperties DEF ProcessWeb, PushInv
      <4>2. fWebMsgStack = <<h>> \o t
        BY <3>1, <4>1 DEF ProcessWeb
      <4>3. executed' = executed \o <<h>> /\ fWebMsgStack' = t
        BY <3>1, <4>1, AppendIsConcat DEF ProcessWeb
      <4>4. executed' \in Seq(Errors)
        BY <4>1, <4>3, ConcatProperties
      <4>5. (executed \o <<h>>) \o t = executed \o (<<h>> \o t)
        BY <4>1, ConcatAssociative
      <4> HIDE DEF h, t
      <4> QED
        BY <4>1, <4>2, <4>3, <4>4, <4>5 DEF Posted
    <3>2. CASE ~ProcessWeb
      <4>1. UNCHANGED <<executed, fWebMsgStack>>
        BY <1>4, <3>2 DEF Task, Receive, Tick, ProcessMain, TaskConcatOn, TaskReset, EndWeb,
                          TaskConcatOff, WakeAll, stacks
      <4> QED
        BY <4>1 DEF Posted, PushInv
    <3> QED
      BY <3>1, <3>2
  <2>6. PushInv' /\ ScriptsWhole'
    BY <1>1, <2>2, <2>3, <2>4, <2>5, NothingPosted DEF Fresh
  <2> QED
    BY <2>1, <2>6 DEF WebInv
<1>5. CASE TickIdle
  BY <1>2, <1>5 DEF TickIdle
<1> QED
  BY <1>2, <1>3, <1>4, <1>5 DEF Next

-----------------------------------------------------------------------------
(* Theorems.                                                               *)

THEOREM WebInvariant == Spec => []WebInv
<1> QED
  BY WebInit, WebStep, PTL DEF Spec

\* The types, and that the mutex is held by the one client that is between its lock
\* and its wait, or between its wait and its answer (WebApi::postScript).
THEOREM WebTypes == Spec => []TypeOK
<1>1. WebInv => TypeOK
  BY DEF WebInv
<1> QED
  BY <1>1, WebInvariant, PTL

\* The scripts are applied whole and in their order, however many clients post
\* (IMessageList::sendWebMsg under the mutex of WebApi::postScript).
THEOREM WebScripts == Spec => []ScriptsWhole
<1>1. WebInv => ScriptsWhole
  BY DEF WebInv
<1> QED
  BY <1>1, WebInvariant, PTL
=============================================================================
