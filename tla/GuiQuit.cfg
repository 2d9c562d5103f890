CONSTANTS
  C = 1
  MaxThreads = 2
  QuitsInSweep = TRUE

SPECIFICATION FairSpec
PROPERTIES StopReturns
CHECK_DEADLOCK FALSE
