CONSTANTS
  Layers = 2
  Tiles = 2
  K = 3
  Slots = {2, 3}
  Accesses = 44
  Setups <- MCSetups
SPECIFICATION Spec
INVARIANTS PeriodBounded Barrier RoundByRound
PROPERTIES AllServed
CHECK_DEADLOCK FALSE
