SPECIFICATION Spec
CONSTANTS
  Images <- MCImages
  TileSize = 4
INVARIANTS PregeneratedTilesAreHit
CHECK_DEADLOCK FALSE
