CONSTANTS
  Objects <- MCObjects
  Templates <- MCTemplates
  Base = 16
  Align = 1
  Capacity = 28
  Holes = 6
  Providers <- MCProviders
  MaxProviders = 8
  MaxId = 2
  MaxSessions = 2
  Contracts <- MCContracts
  Leases <- MCLeases
  ShareMax = 9
  MaxClaims = 2
  Envs <- MCEnvs
  PerBlock = 1
  Hot = 1
  KvPerToken = 4
  Reserved = 2
  Budgets <- MCBudgets
  MaxCalls = 5
SPECIFICATION LadderSpec
INVARIANTS PlanIsTable FitsKept FloorKept LastResort WalkEnds

