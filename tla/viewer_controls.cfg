SPECIFICATION Spec
CONSTANTS
  ZoomButtons <- MCZoomButtons
  FullPageButton <- MCFullPageButton
  MaxPending = 2
INVARIANTS
  ControlsShownInUse
  ZoomEnds
  PageComesBack
  FullPageHasScreen
PROPERTIES
  ControlsFade
