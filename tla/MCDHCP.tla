------------------------------- MODULE MCDHCP -------------------------------
(***************************************************************************)
(* Small instances of DHCP.                                                *)
(***************************************************************************)
EXTENDS DHCPProps

\* Enough for a client to be served, leave, return and be served again
MCMaxSent == [c \in Clients |-> IF c \in Leavers THEN 5 ELSE 3]
=============================================================================
