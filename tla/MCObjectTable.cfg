CONSTANTS
  a = a  b = b  c = c  d = d
  m1 = m1  m2 = m2
  Ids <- MCIds
  Metas <- MCMetas
  NoMeta = NoMeta
  N = 3
  Start <- MCStart
SPECIFICATION TableSpec
INVARIANTS ChainUncut LookupSeesScan
PROPERTIES ImplementsMap
