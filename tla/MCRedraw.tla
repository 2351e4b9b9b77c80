------------------------------ MODULE MCRedraw ------------------------------
(* A small instance of Redraw: three children with names of their own, or   *)
(* two that may share a name, through a lock and a change of type.          *)
EXTENDS Redraw, MCSyncGraph

MCAddresses == <<a1, a2, b, c>>
MCSessions  == {{a1, b, c}, {a1, a2, b}}
=============================================================================
