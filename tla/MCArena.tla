------------------------------ MODULE MCArena ------------------------------
(***************************************************************************)
(* A region of seven and a half alignment units and a list of three holes:  *)
(* four holes would be needed to free every other unit, so releases are   *)
(* refused, and the last half unit can never be placed in.                 *)
(***************************************************************************)
EXTENDS Arena

MCSizes == {1, 3, 4}
=============================================================================
