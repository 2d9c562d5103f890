CONSTANTS
  Unset = Unset
  Hardware <- MCHardware
  Catalog <- MCCatalog
  Models <- MCModels
  Requests <- MCRequests
  TotalLayers = 5
  LayersWanted = {0, 3, 9}

SPECIFICATION PluginsSpec
INVARIANTS PluginsTypeOK ServesSession
