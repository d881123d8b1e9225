CONSTANTS
  Size = 2
  IndexMod = 4
  Sector = 2
  Chunk = 2
  TileSectors = 2
  Tiles = 2
  TextRoom = 4
  Header = 1
  Machines <- MCMachines
  Texts <- MCTexts
  Faults <- MCFaults
SPECIFICATION Spec
INVARIANTS ReadExact OutputExact
PROPERTIES FlightUntouched CallsEnd
CHECK_DEADLOCK FALSE
