CONSTANTS
  N = 3
  a = a
  b = b
  None = None
  Scenarios <- MCScenarios
  UrlOf <- MCUrlOf
  PathOf <- MCPathOf
  Local = {2}
  Versioned = {1}
  Zip = {2}
  Size <- MCSize
  Capacity = 5
  Sweeps = TRUE
  MaxFaults = 1

SPECIFICATION CacheSpec
INVARIANTS CacheTypeOK CacheIsSound RunDelivers
PROPERTIES PassAdvances
