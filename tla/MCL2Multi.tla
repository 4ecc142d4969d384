----------------------------- MODULE MCL2Multi -----------------------------
(***************************************************************************)
(* Small instances of L2Multi.                                             *)
(***************************************************************************)
EXTENDS L2MultiProps

Triangle == {{1, 2}, {2, 3}, {1, 3}}

NoHosts  == [d \in Switches |-> {}]
OneAsks == {<<1, 3>>}
=============================================================================
