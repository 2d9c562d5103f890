CONSTANTS
  MaxCalls = 7
  MaxTokens = 2
  LogRoom = 1
  MaxTimeouts = 1

SPECIFICATION FairSpec
INVARIANTS TypeOK CallerSeesPlugin EndsClean
PROPERTIES NobodyWaits
