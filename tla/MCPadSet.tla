------------------------------ MODULE MCPadSet -------------------------------
(***************************************************************************)
(* Instances of PadSet for TLC: from one sample to the next the clock      *)
(* moves inside the window or jumps over it.                               *)
(***************************************************************************)
EXTENDS PadSet

Clock == {1, Window + 1}
=============================================================================
