CONSTANTS
  Align = 2
  Capacity = 15
  Holes = 3
  Sizes <- MCSizes
SPECIFICATION Spec
INVARIANTS Coalesced Partition Accounted
PROPERTIES ImplementsSpace
