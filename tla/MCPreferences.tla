--------------------------- MODULE MCPreferences -----------------------------
(***************************************************************************)
(* Instances of Preferences for TLC: three keys in a table of two, so that *)
(* it can be full.                                                         *)
(***************************************************************************)
EXTENDS Preferences
=============================================================================
