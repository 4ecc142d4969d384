------------------------------ MODULE MCRecoco ------------------------------
(***************************************************************************)
(* Small instances of Recoco.                                              *)
(***************************************************************************)
EXTENDS RecocoProps
=============================================================================
