CONSTANTS
  K = 2
  P = 2
  Retry = 2
  Replies = {"partial", "refused", "whole"}
  Faults = {"open", "cut", "write", "full", "flush", "rename"}
  MaxTrouble = 3

SPECIFICATION FairSpec
INVARIANTS TypeOK FileIsAsTold
PROPERTIES CallEnds
