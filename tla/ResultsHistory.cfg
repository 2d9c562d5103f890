CONSTANTS
  MaxResults = 5
  MaxTears = 2
  MaxWrecks = 1

SPECIFICATION HistorySpec
INVARIANTS HistoryTypeOK KeepsResults
