CONSTANTS
  S = 3
  Key = {k1, k2}
  k1 = k1
  k2 = k2
  MaxMade = 3

SPECIFICATION Spec
INVARIANTS TypeOK RunIsHonest
