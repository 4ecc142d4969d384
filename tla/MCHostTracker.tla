---------------------------- MODULE MCHostTracker ----------------------------
(***************************************************************************)
(* Small instances of HostTracker.                                         *)
(***************************************************************************)
EXTENDS HostTrackerProps
=============================================================================
