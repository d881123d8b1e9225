----------------------------- MODULE MCManager -----------------------------
(***************************************************************************)
(* Three objects in an arena of three and a half units and two holes: a    *)
(* (one unit) and b (two) belong to session 1, c (two) to session 1 or 2,  *)
(* each contract has a ceiling of four bytes, which b and c together pass, *)
(* and b and c do not fit side by side.  With a or b gone the list is      *)
(* full, so the next eviction is refused.                                  *)
(***************************************************************************)
EXTENDS Manager, TLC

CONSTANTS a, b, c

MCTemplate(size, owner, precision, home) ==
  [size |-> size, owner |-> owner, precision |-> precision, provider |-> 1,
   home |-> home, tier |-> home, at |-> 0, share |-> 0]

MCObjects == {a, b, c}
MCTemplates ==
  (a :> {MCTemplate(1, 1, 1, "Cold")}) @@
  (b :> {MCTemplate(3, 1, 3, "Cold")}) @@
  (c :> {MCTemplate(3, 1, 1, "Warm"), MCTemplate(3, 2, 1, "Warm")})
MCContract(ceiling) == [ceiling |-> ceiling, context |-> 0, floor |-> 6]
MCContracts == {MCContract(4)}
MCProviders == {1}
MCLeases == {"Pin", "Speculative"}
MCEnvs == {{}, {"read_fails", "orphans"}, {"stale_release"}, {"register_again"}}
MCReadFails == {{"read_fails"}}
=============================================================================
