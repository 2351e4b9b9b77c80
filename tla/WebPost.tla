------------------------------ MODULE WebPost ------------------------------
(***************************************************************************)
(* The scripts that web clients post, and the answers they get.            *)
(*                                                                         *)
(* Each client is served by a thread of its own (an http connection, a     *)
(* websocket server) that runs WebApi::postScript: it parses the script,   *)
(* pushes its messages on the stack of the web messages, and waits on      *)
(* gModelUpdateWaitCondition.  The time task (IGlue::modelUpdate) applies  *)
(* the messages and wakes all the clients up.  Both sides write the flag   *)
(* and the text of the error stream oscerr, with no lock in common.        *)
(***************************************************************************)
EXTENDS Integers, Sequences

CONSTANTS
  Clients,     \* the threads that call postScript, once each
  Scripts,     \* the scripts they may post
  Traffic,     \* messages also arrive on the main message stack
  Recurring,   \* ... and never stop arriving
  Nobody       \* the owner of a free mutex

\* A script: whether it has a syntax error, and whether each message that the
\* parser finds in it fails when it is applied.
ASSUME ScriptAssumption ==
  Scripts \subseteq [syntaxError : BOOLEAN, fails : Seq(BOOLEAN)]
ASSUME TrafficAssumption == Traffic \in BOOLEAN /\ Recurring \in BOOLEAN
ASSUME NobodyAssumption == Nobody \notin Clients

VARIABLES
  script,             \* what each client posts
  pc,                 \* where each client is in postScript
  next,               \* the next message it pushes
  fPostCommandMutex,  \* the owner of the mutex
  logParse, answer,   \* the first part of the log, and the log returned
  fConcat,            \* flag of oscerr: the errors are collected ...
  fSStreamConcat,     \* ... here
  fWebMsgStack,       \* the messages pushed by the clients
  fMsgStack,          \* whether the main stack has messages
  task,               \* where the time task is in modelUpdate
  executed            \* the messages of the clients applied so far

vars == <<script, pc, next, fPostCommandMutex, logParse, answer, fConcat,
          fSStreamConcat, fWebMsgStack, fMsgStack, task, executed>>
client == <<script, pc, next, fPostCommandMutex, logParse, answer>>
stacks == <<fWebMsgStack, fMsgStack>>
stream == <<fConcat, fSStreamConcat>>

\* The i-th message of the script of c, or its syntax error when i = 0.
Items(c) == {<<c, i>> : i \in 0..Len(script[c].fails)}
Messages(c) == Items(c) \ {<<c, 0>>}
\* The error of a message of the main stack.
foreign == <<Nobody, 0>>
Errors == {foreign} \union UNION {Items(c) : c \in Clients}

Locked == {"concatOn", "reset", "parse", "concatOff", "logParse", "push", "wait", "logExec"}

TypeOK ==
  /\ script \in [Clients -> Scripts]
  /\ pc \in [Clients -> Locked \union {"lock", "waiting", "relock", "answered"}]
  /\ next \in [Clients -> Nat]
  /\ \A c \in Clients : next[c] \in 1..Len(script[c].fails) + 1
  /\ fPostCommandMutex \in Clients \union {Nobody}
  /\ \A c \in Clients : pc[c] \in Locked <=> fPostCommandMutex = c
  /\ logParse \in [Clients -> SUBSET Errors]
  /\ answer \in [Clients -> SUBSET Errors]
  /\ fConcat \in BOOLEAN /\ fSStreamConcat \subseteq Errors
  /\ \A i \in 1..Len(fWebMsgStack) : fWebMsgStack[i] \in Errors
  /\ fMsgStack \in BOOLEAN
  /\ task \in {"idle", "main", "concatOn", "reset", "web", "concatOff", "wake"}
  /\ \A i \in 1..Len(executed) : executed[i] \in Errors

Init ==
  /\ script \in [Clients -> Scripts]
  /\ pc = [c \in Clients |-> "lock"]
  /\ next = [c \in Clients |-> 1]
  /\ fPostCommandMutex = Nobody
  /\ logParse = [c \in Clients |-> {}]
  /\ answer = [c \in Clients |-> {}]
  /\ fConcat = FALSE /\ fSStreamConcat = {}
  /\ fWebMsgStack = <<>> /\ fMsgStack = FALSE
  /\ task = "idle"
  /\ executed = <<>>

\* OSCErrorStream::end: an error is added to the collected ones, or not.
Report(errors) ==
  fSStreamConcat' = fSStreamConcat \union IF fConcat THEN errors ELSE {}

-----------------------------------------------------------------------------
(* WebApi::postScript.                                                     *)

Goto(c, from, to) == pc[c] = from /\ pc' = [pc EXCEPT ![c] = to]

Mut_Lock(c) ==
  /\ Goto(c, "lock", "concatOn")
  /\ fPostCommandMutex' = c
  /\ UNCHANGED <<script, next, logParse, answer, stream, stacks, task, executed>>

Lock(c) ==
  /\ Goto(c, "lock", "concatOn")
  /\ fPostCommandMutex = Nobody
  /\ fPostCommandMutex' = c
  /\ UNCHANGED <<script, next, logParse, answer, stream, stacks, task, executed>>

\* activeConcatError(true) sets the flag, then clears the text.
ConcatOn(c) ==
  /\ Goto(c, "concatOn", "reset")
  /\ fConcat' = TRUE
  /\ UNCHANGED <<script, next, fPostCommandMutex, logParse, answer, fSStreamConcat,
                 stacks, task, executed>>

Reset(c) ==
  /\ Goto(c, "reset", "parse")
  /\ fSStreamConcat' = {}
  /\ UNCHANGED <<script, next, fPostCommandMutex, logParse, answer, fConcat,
                 stacks, task, executed>>

Parse(c) ==
  /\ Goto(c, "parse", "concatOff")
  /\ Report(IF script[c].syntaxError THEN {<<c, 0>>} ELSE {})
  /\ UNCHANGED <<script, next, fPostCommandMutex, logParse, answer, fConcat,
                 stacks, task, executed>>

ConcatOff(c) ==
  /\ Goto(c, "concatOff", "logParse")
  /\ fConcat' = FALSE
  /\ UNCHANGED <<script, next, fPostCommandMutex, logParse, answer, fSStreamConcat,
                 stacks, task, executed>>

\* The log of the parser; the client only waits when there are messages.
LogParse(c) ==
  /\ Goto(c, "logParse", IF script[c].fails = <<>> THEN "logExec" ELSE "push")
  /\ logParse' = [logParse EXCEPT ![c] = fSStreamConcat]
  /\ UNCHANGED <<script, next, fPostCommandMutex, answer, stream, stacks, task, executed>>

Mut_Push(c) ==
  /\ Goto(c, "push", IF next[c] > Len(script[c].fails) THEN "wait" ELSE "push")
  /\ fWebMsgStack' = Append(fWebMsgStack, <<c, next[c]>>)
  /\ next' = [next EXCEPT ![c] = @ + 1]
  /\ UNCHANGED <<script, fPostCommandMutex, logParse, answer, stream, fMsgStack,
                 task, executed>>

\* IMessageList::sendWebMsg, one message at a time.
Push(c) ==
  /\ Goto(c, "push", IF next[c] = Len(script[c].fails) THEN "wait" ELSE "push")
  /\ fWebMsgStack' = Append(fWebMsgStack, <<c, next[c]>>)
  /\ next' = [next EXCEPT ![c] = @ + 1]
  /\ UNCHANGED <<script, fPostCommandMutex, logParse, answer, stream, fMsgStack,
                 task, executed>>

\* QWaitCondition::wait releases the mutex and waits in one step, and takes the
\* mutex again once it has been woken up.
Wait(c) ==
  /\ Goto(c, "wait", "waiting")
  /\ fPostCommandMutex' = Nobody
  /\ UNCHANGED <<script, next, logParse, answer, stream, stacks, task, executed>>

Relock(c) ==
  /\ Goto(c, "relock", "logExec")
  /\ fPostCommandMutex = Nobody
  /\ fPostCommandMutex' = c
  /\ UNCHANGED <<script, next, logParse, answer, stream, stacks, task, executed>>

Mut_Answer(c) ==
  /\ Goto(c, "logExec", "answered")
  /\ answer' = [answer EXCEPT ![c] = logParse[c] \union fSStreamConcat]
  /\ UNCHANGED <<script, next, fPostCommandMutex, logParse, stream, stacks, task, executed>>

Answer(c) ==
  /\ Goto(c, "logExec", "answered")
  /\ answer' = [answer EXCEPT ![c] = logParse[c] \union fSStreamConcat]
  /\ fPostCommandMutex' = Nobody
  /\ UNCHANGED <<script, next, logParse, stream, stacks, task, executed>>

Post(c) ==
  \/ Lock(c) \/ ConcatOn(c) \/ Reset(c) \/ Parse(c) \/ ConcatOff(c) \/ LogParse(c)
  \/ Push(c) \/ Wait(c) \/ Relock(c) \/ Answer(c)

-----------------------------------------------------------------------------
(* The time task.                                                          *)

TaskStep(from, to) == task = from /\ task' = to

\* A message arrives on the main stack.  One that arrives while the stack is being
\* emptied is processed by the same modelUpdate.
Receive ==
  /\ Traffic
  /\ task = "idle" /\ ~fMsgStack
  /\ fMsgStack' = TRUE
  /\ UNCHANGED <<client, stream, fWebMsgStack, task, executed>>

\* timerEvent: the model is updated when one of the stacks is not empty.
Tick ==
  /\ fMsgStack \/ fWebMsgStack # <<>>
  /\ TaskStep("idle", "main")
  /\ UNCHANGED <<client, stream, stacks, executed>>

\* A tick that finds nothing to do.
TickIdle == task = "idle" /\ ~fMsgStack /\ fWebMsgStack = <<>> /\ UNCHANGED vars

\* The messages of the main stack are processed; they may fail.
ProcessMain ==
  /\ TaskStep("main", "concatOn")
  /\ \E errors \in SUBSET {foreign} :
       /\ errors # {} => fMsgStack
       /\ Report(errors)
  /\ fMsgStack' = FALSE
  /\ UNCHANGED <<client, fConcat, fWebMsgStack, executed>>

TaskConcatOn ==
  /\ TaskStep("concatOn", "reset")
  /\ fConcat' = TRUE
  /\ UNCHANGED <<client, fSStreamConcat, stacks, executed>>

TaskReset ==
  /\ TaskStep("reset", "web")
  /\ fSStreamConcat' = {}
  /\ UNCHANGED <<client, fConcat, stacks, executed>>

Mut_ProcessWeb ==
  /\ task = "web"
  /\ Len(fWebMsgStack) > 1
  /\ LET m == fWebMsgStack[2]
     IN  /\ Report(IF script[m[1]].fails[m[2]] THEN {m} ELSE {})
         /\ executed' = Append(executed, m)
  /\ fWebMsgStack' = Tail(Tail(fWebMsgStack))
  /\ UNCHANGED <<client, fConcat, fMsgStack, task>>

\* IController::processOn on the web stack, one message at a time.
ProcessWeb ==
  /\ task = "web"
  /\ fWebMsgStack # <<>>
  /\ LET m == Head(fWebMsgStack)
     IN  /\ Report(IF script[m[1]].fails[m[2]] THEN {m} ELSE {})
         /\ executed' = Append(executed, m)
  /\ fWebMsgStack' = Tail(fWebMsgStack)
  /\ UNCHANGED <<client, fConcat, fMsgStack, task>>

EndWeb ==
  /\ fWebMsgStack = <<>>
  /\ TaskStep("web", "concatOff")
  /\ UNCHANGED <<client, stream, stacks, executed>>

TaskConcatOff ==
  /\ TaskStep("concatOff", "wake")
  /\ fConcat' = FALSE
  /\ UNCHANGED <<client, fSStreamConcat, stacks, executed>>

\* wakeAll: only the clients that are waiting see it.
WakeAll ==
  /\ TaskStep("wake", "idle")
  /\ pc' = [c \in Clients |-> IF pc[c] = "waiting" THEN "relock" ELSE pc[c]]
  /\ UNCHANGED <<script, next, fPostCommandMutex, logParse, answer, stream, stacks, executed>>

Task ==
  \/ Tick \/ ProcessMain \/ TaskConcatOn \/ TaskReset \/ ProcessWeb \/ EndWeb
  \/ TaskConcatOff \/ WakeAll

Next == (\E c \in Clients : Post(c)) \/ Task \/ Receive \/ TickIdle

\* The timer fires again and again, the threads of the clients run.
Fairness ==
  /\ WF_vars(Task)
  /\ \A c \in Clients : WF_vars(Post(c))
  /\ Recurring => WF_vars(Receive)

Spec == Init /\ [][Next]_vars /\ Fairness

-----------------------------------------------------------------------------
(* Properties.                                                             *)

\* The messages of a script are applied in its order, with no message of another
\* script between them: the mutex is held from the first push to the last one.
ScriptsWhole ==
  LET posted == executed \o fWebMsgStack
  IN  \A i, j \in 1..Len(posted) :
        i < j /\ posted[i][1] = posted[j][1]
          => /\ posted[j][2] = posted[i][2] + (j - i)
             /\ \A k \in i..j : posted[k][1] = posted[i][1]

\* The server answers every client that posts a script (WebApi::postScript returns).
Answered == \A c \in Clients : (pc[c] = "lock") ~> (pc[c] = "answered")

\* Every message of a script is applied in the end, whether or not another one
\* of them fails (doc/webAPI/source/post/post.rst: all the orders are executed).
AllApplied ==
  \A c \in Clients :
    (pc[c] = "push") ~> (\A m \in Messages(c) : \E i \in 1..Len(executed) : executed[i] = m)

\* The log that an answer is made of.
Own(c) == {e \in Items(c) : IF e[2] = 0 THEN script[c].syntaxError
                                        ELSE script[c].fails[e[2]]}

\* In case of error, the answer is not a success (an empty log): whatever the other
\* clients and the time task do.
ErrorReported == \A c \in Clients : pc[c] = "answered" /\ Own(c) # {} => answer[c] # {}
=============================================================================
