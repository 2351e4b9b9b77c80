------------------------------ MODULE MCScene ------------------------------
(* A small instance of Scene, in sessions that use some of its messages.   *)
EXTENDS Scene, MCSyncGraph

CONSTANTS s1, t, mx, u

MCSceneNameOf == [x \in Obj |-> CASE x \in {a1, a2} -> a1 [] OTHER -> b]
MCSigNameOf   == [s \in Sig |-> s]
MCMethods   == {<<mx>>, <<mx, mx>>, <<mx, "unknown">>}
MCSessions  ==
  {[kinds |-> {"sync"},            objects |-> {a1, a2}],
   [kinds |-> {"watch"},           objects |-> {a1, a2}],
   [kinds |-> {"signal", "alias"}, objects |-> {a1, a2}],
   [kinds |-> {"signal"},          objects |-> {a1, b}],
   [kinds |-> {"url"},             objects |-> {b, u}]}
=============================================================================
