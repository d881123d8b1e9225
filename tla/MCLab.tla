------------------------------- MODULE MCLab -------------------------------
(***************************************************************************)
(* A model of three tiles and one activation, and a KV block each of two   *)
(* sessions, in units of 256 bytes and of ten microseconds: a tile is 4    *)
(* units, an activation 8 and a KV block 1, as in mlos-synth, and SCALE is *)
(* 100.  The table has room for the model and one KV block.                *)
(***************************************************************************)
EXTENDS Lab, TLC

MCObjects == 1 .. 6
MCClass == <<"weight", "weight", "weight", "kv", "kv", "activation">>
MCTiles == <<1, 2, 3>>
MCTemplate(size, owner, precision, provider, home) ==
  [size |-> size, owner |-> owner, precision |-> precision, provider |-> provider,
   home |-> home, tier |-> home, at |-> 0, share |-> 0]
MCTemplates ==
  [id \in MCObjects |->
     CASE MCClass[id] = "weight" -> {MCTemplate(4, 0, 4, 4, "Cold")}
       [] MCClass[id] = "kv" -> {MCTemplate(1, id - 3, 1, 3, "Warm")}
       [] MCClass[id] = "activation" -> {MCTemplate(8, 0, 1, 3, "Archive")}]
MCProviders == {2, 3, 4}
MCBudgets == {9, 12}
MCEmpty == {}
MCEnvs == {{}}
MCTraces == [1 .. 6 -> {1, 2, 3}] \cup [1 .. 5 -> {1, 2, 4, 6}] \cup [1 .. 3 -> {1, 4, 5}]
=============================================================================
