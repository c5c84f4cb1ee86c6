------------------------- MODULE MCViewerControls -------------------------
(* Values for the constants of ViewerControls. *)
EXTENDS ViewerControls

MCZoomButtons == {"zoomInButton"}
MCFullPageButton == "fullPageButton"
=============================================================================
