--------------------------- MODULE MCSpanningTree ---------------------------
(***************************************************************************)
(* Small instances of SpanningTree.                                        *)
(***************************************************************************)
EXTENDS SpanningTreeProps

CONSTANT host

Ring     == {{1, 2}, {2, 3}, {3, 4}, {4, 1}}

OneHost == [d \in Switches |-> IF d = 1 THEN {host} ELSE {}]
=============================================================================
