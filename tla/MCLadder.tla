------------------------------ MODULE MCLadder ------------------------------
(***************************************************************************)
(* Sessions of five blocks that accept anything, so that there is a span   *)
(* to summarise, and sessions of two blocks with a floor of Q8 or of Q4;   *)
(* a block is four bytes.                                                  *)
(***************************************************************************)
EXTENDS Ladder

MCObjects == {<<s, at>> : s \in SessionIds, at \in 0 .. 4}
MCTemplates == [id \in MCObjects |->
  {[size |-> 4, owner |-> 0, precision |-> 1, provider |-> 1,
    home |-> "Warm", tier |-> "Warm", at |-> 0, share |-> 0]}]
MCProviders == {1}
MCContract(ceiling, context, floor) == [ceiling |-> ceiling, context |-> context, floor |-> floor]
MCContracts == {MCContract(0, 5, Ternary), MCContract(8, 2, Q8), MCContract(0, 2, Q4)}
MCBudgets == {30, 9, 1}
MCLeases == {}
MCEnvs == {{}}
=============================================================================
