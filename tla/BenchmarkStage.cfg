CONSTANTS
  E = 3
  NameOf <- MCNameOf
  LibraryOf <- MCLibraryOf
  FilterOf <- MCFilterOf
  Enumerating = {"gpu"}
  MaxDevices = 2
  Requests <- MCRequests
  Scenarios <- MCScenarios
  N = 4
  Handler = "console"

SPECIFICATION FairSpec
INVARIANTS TypeOK ScenarioIsRun
PROPERTIES StageReturns ImplementsBatch
