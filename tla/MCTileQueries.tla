---------------------------- MODULE MCTileQueries ----------------------------
(* Images of all shapes around the multiples of a tile of 4 pixels, with every *)
(* number of levels for which the code computes another greatest level, and a  *)
(* long one of seven levels.                                                   *)
EXTENDS TileQueries

Sized(w, h, n) == [width |-> w, height |-> h, levels |-> n]
MCImages == {Sized(w, h, n) : w \in {3, 8, 9, 16, 17}, h \in {1, 7, 16}, n \in 1..5}
              \cup {Sized(33, 20, n) : n \in 1..5} \cup {Sized(100, 3, 7)}
=============================================================================
