---------------------------- MODULE MCInputPath ----------------------------
(***************************************************************************)
(* A queue of three slots, which holds two bytes, and five keys: the       *)
(* indices wrap, a burst of three overflows, and a line of two bytes fills.*)
(***************************************************************************)
EXTENDS InputPath

CONSTANTS k, enter, back, ctrlD, prompt

MCKeys == {k, enter, back, ctrlD}
=============================================================================
