----------------------------- MODULE MCSchedule -----------------------------
(***************************************************************************)
(* Three sessions over a synthetic model of two layers of two tiles, and   *)
(* over the shapes of small real ones.                                     *)
(***************************************************************************)
EXTENDS Schedule

MCWeights == DecodeToken(0, -1)
\* Up to three tokens of the weights alone, as admission counts them.
MCWeightsOnly == [0 .. 2 -> {<<>>, <<MCWeights>>, <<MCWeights, MCWeights, MCWeights>>}]

MCLoops == {[sessions |-> 3, rounds |-> n] : n \in 1 .. 4}
MCDecode == {Decode(loop) : loop \in MCLoops}

\* A layer of a value and another projection, and an embedding and a norm
\* outside any, of which the last is resident; and a shape nothing rotates in.
MCRow(layer, value) == [kind |-> "row", row |-> Row(layer, value)]
MCSidecar == <<[kind |-> "rotating", count |-> 3], MCRow(0, TRUE), MCRow(0, FALSE),
               MCRow(Outside, FALSE), MCRow(Outside, FALSE)>>
MCStill == <<[kind |-> "rotating", count |-> 0], MCRow(0, TRUE), MCRow(Outside, FALSE)>>
MCNoBoundary == <<MCRow(0, TRUE)>>
MCContexts == {[prefix |-> 0, per_block |-> 1], [prefix |-> 3, per_block |-> 2]}
MCReal(sidecars) ==
  UNION {{Real(shape, context, loop) : shape \in UNION {Parse(sidecar) : sidecar \in sidecars},
                                       context \in MCContexts, loop \in MCLoops}}

MCSetup(by, lanes_, asked, of, to_disk) ==
  [rule |-> by, lanes |-> lanes_, ceilings |-> asked, token |-> of, disk |-> to_disk]
MCSetups == {MCSetup("parameter", MCWeightsOnly, {0, 1, 4, 8, 9}, 4, FALSE),
             MCSetup("parameter", MCReal({MCSidecar}), {0, 5}, 0, FALSE),
             MCSetup("process", MCReal({MCSidecar, MCStill, MCNoBoundary}), {0}, 0, FALSE),
             MCSetup("process", MCDecode, {0, 4, 8}, 4, TRUE)}
=============================================================================
