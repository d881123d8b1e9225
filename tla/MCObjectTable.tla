--------------------------- MODULE MCObjectTable ---------------------------
(***************************************************************************)
(* Three slots and four ids, one more than the table holds: two ids start  *)
(* at slot 0, two at the last slot, so their chains wrap onto the others.  *)
(***************************************************************************)
EXTENDS ObjectTable, TLC

CONSTANTS a, b, c, d, m1, m2

MCIds == {a, b, c, d}
MCMetas == {m1, m2}
MCStart == (a :> 0) @@ (b :> 0) @@ (c :> 2) @@ (d :> 2)
=============================================================================
