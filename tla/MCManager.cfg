CONSTANTS
  a = a  b = b  c = c
  Objects <- MCObjects
  Templates <- MCTemplates
  Base = 16
  Align = 2
  Capacity = 7
  Holes = 2
  Providers <- MCProviders
  MaxProviders = 8
  MaxId = 2
  MaxSessions = 2
  Contracts <- MCContracts
  Leases <- MCLeases
  ShareMax = 9
  MaxClaims = 2
  Envs <- MCEnvs
SPECIFICATION Spec
INVARIANTS ResidentApart NothingLeaked AccountExact ShareExact CeilingKept NoOrphans
PROPERTIES CallsReturn
