--------------------------- MODULE MCIIPMooViewer ---------------------------
(* An ordinary image, a square one and a panorama, in a window of 6 by 6     *)
(* pixels with tiles of 4.                                                   *)
EXTENDS IIPMooViewer

Sized(w, h, n) == [size |-> [x |-> w, y |-> h], num_resolutions |-> n]
MCPictures == {Sized(27, 17, 3), Sized(40, 17, 3), Sized(25, 5, 3)}
MCDrags == {-4, 2, 7}
MCWindow == [x |-> 6, y |-> 6]
=============================================================================
