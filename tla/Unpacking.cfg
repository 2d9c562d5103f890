CONSTANTS
  N = 2
  V = 2
  Size <- MCSize
  AssetSize <- MCAssetSize
  MaxCalls = 2
  MaxTimeouts = 1
  MaxLost = 1
  MaxExits = 2

SPECIFICATION Spec
INVARIANTS TypeOK UnpackedIsWhole
PROPERTIES LeavesWholeAlone
