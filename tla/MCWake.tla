-------------------------------- MODULE MCWake --------------------------------
(***************************************************************************)
(* Instance of Wake for TLC.                                               *)
(***************************************************************************)
EXTENDS Wake, TLC
=============================================================================
