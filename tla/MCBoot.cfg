CONSTANTS
  Inputs <- MCInputs
  Image <- MCImage
  MaxRegions = 6
  CellBase = 64
  BlockSize = 8
  Blocks = 10
  Mapped = 38
  HeaderLen = 2
  EntryLen = 1
  SlotBases = 64
  MaxKeys = 2
SPECIFICATION Spec
INVARIANTS Discovered MapTrue StaysMapped
PROPERTIES Listens
CHECK_DEADLOCK FALSE
