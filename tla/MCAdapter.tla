------------------------------ MODULE MCAdapter ------------------------------
(***************************************************************************)
(* Instances of Adapter for TLC.                                           *)
(***************************************************************************)
EXTENDS Adapter, TLC

\* Two events of one work thread.
OneThread == <<"k1", "k1">>
TwoWork == <<"work", "work">>
=============================================================================
