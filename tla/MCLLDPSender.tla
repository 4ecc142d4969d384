---------------------------- MODULE MCLLDPSender ----------------------------
(***************************************************************************)
(* Two switches with two physical ports each: one and two packets fit in a *)
(* cycle one at a time, three make a broken chunk, four a chunk of two.    *)
(***************************************************************************)
EXTENDS LLDPSender

MCKnown == {1, 2} \X {1, 2}
=============================================================================
