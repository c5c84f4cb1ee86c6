SPECIFICATION ViewerSpec
CONSTANTS
  Pictures <- MCPictures
  Window <- MCWindow
  TileSize = 4
  KeyStep = 5
  Threshold = 3
  Drags <- MCDrags
  Px = 16
  MaxMoves = 4
INVARIANTS
  LargeLevelMatchesSize
  WindowIsTiled
PROPERTIES
  DropKeepsPlace
  EveryViewSettles
CHECK_DEADLOCK FALSE
