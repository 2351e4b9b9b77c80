---------------------------- MODULE MCSyncGraph ----------------------------
(* Small instances of SyncGraph: two objects may bear the same name.        *)
EXTENDS SyncLoops, TLC

CONSTANTS a1, a2, b, c
MCNameOf == [x \in Obj |-> IF x = a2 THEN a1 ELSE x]
=============================================================================
