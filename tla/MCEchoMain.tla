----------------------------- MODULE MCEchoMain -----------------------------
(***************************************************************************)
(* Instance of EchoMain for TLC.                                           *)
(***************************************************************************)
EXTENDS EchoMain
=============================================================================
