SPECIFICATION Spec
CONSTANTS
  Tiles <- PyramidTiles
  Level <- PyramidLevel
  Children <- PyramidChildren
  Shows <- Sights
  ViewsOf <- SightsOf
  MaxImageCacheCount = 2
  Failing = {"mid", "right"}
INVARIANTS
  PicturesMatchTiles
PROPERTIES
  PaintedWhereLoaded
  StillViewSettles
CHECK_DEADLOCK FALSE
