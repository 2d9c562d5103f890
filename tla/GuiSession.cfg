CONSTANTS
  C = 2
  MaxThreads = 4
  QuitsInSweep = FALSE

SPECIFICATION FairSpec
INVARIANTS TypeOK NoThreadLost SuccessIsWhole
PROPERTIES StopReturns
