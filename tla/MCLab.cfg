CONSTANTS
  Objects <- MCObjects
  Templates <- MCTemplates
  Class <- MCClass
  Tiles <- MCTiles
  Base = 16
  Align = 1
  Capacity = 12
  Holes = 16
  Providers <- MCProviders
  MaxProviders = 8
  MaxId = 2
  MaxSessions = 2
  Contracts <- MCEmpty
  Leases <- MCEmpty
  ShareMax = 9
  MaxClaims = 1
  Envs <- MCEnvs
  Scale = 100
  Undeclared = 100000
  Hint = 2
  Certain = 65535
  MaxDeclared = 12
  MaxDistinct = 4
  Budgets <- MCBudgets
  Floor = 4
  TableRoom = 5
  RingSize = 6
  Policies <- PolicyNames
  Traces <- MCTraces
  MaxTyped = 7
SPECIFICATION LabSpec
INVARIANTS KernelIsSim NextUseTrue TicksUnique TraceDerived
CHECK_DEADLOCK FALSE
