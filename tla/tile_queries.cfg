SPECIFICATION Spec
CONSTANTS
  Images <- MCImages
  TileSize = 4
INVARIANTS EveryPixelInItsTile LargeLevelsPregenerated
CHECK_DEADLOCK FALSE
