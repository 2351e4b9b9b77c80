----------------------------- MODULE MCWebPost -----------------------------
(* Small instances of WebPost.                                             *)
EXTENDS WebPost

\* Two messages each, the second one fails for some of the clients.
MCPairs == {[syntaxError |-> FALSE, fails |-> <<FALSE, e>>] : e \in BOOLEAN}

\* Scripts of one message at most.
MCSingles == [syntaxError : BOOLEAN, fails : {<<>>, <<FALSE>>, <<TRUE>>}]
=============================================================================
