---------------------------- MODULE MCTileDrawer ----------------------------
(* An image of three levels, the finest of two tiles side by side. The navigator *)
(* shows the coarsest level or, when it is larger, the next.                     *)
EXTENDS TileDrawer

PyramidTiles == {"root", "mid", "left", "right"}
PyramidLevel == [t \in PyramidTiles |-> CASE t = "root" -> 0 [] t = "mid" -> 1 [] OTHER -> 2]
PyramidChildren ==
  [t \in PyramidTiles |-> CASE t = "root" -> {"mid"} [] t = "mid" -> {"left", "right"}
                            [] OTHER -> {}]
Sights == [away |-> {}, small |-> {"root"}, wide |-> {"root", "mid", "left", "right"},
           near |-> {"root", "mid", "right"}]
SightsOf == [viewer |-> {"away", "near", "wide"}, navigator |-> {"small"}]
=============================================================================
