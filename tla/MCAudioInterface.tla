-------------------------- MODULE MCAudioInterface --------------------------
(***************************************************************************)
(* Instance of AudioInterface for TLC: slots of five bits, words of three, *)
(* and bit clocks of the testbench's speed and faster.                     *)
(***************************************************************************)
EXTENDS AudioInterface
=============================================================================
