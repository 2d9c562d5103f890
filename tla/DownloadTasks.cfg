CONSTANTS
  N = 3
  Handler = "console"
  s1 = s1
  s2 = s2
  Storage = {s1, s2}
  StorageOf <- MCStorageOf
  Modes = {"normal", "skip_all", "prompt", "deps_only_enumeration", "sizes"}
  Chunked = {1, 3}
  Throwing = {2}
  Zip = {3}
  EpDeps <- MCLastIsEpDep

SPECIFICATION StallSpec
INVARIANTS TypeOK ReturnIsClean TrackerIsRight FailureStopsBatch
PROPERTIES FinalIsFinal ImplementsBatch ReturnsAndHears
