--------------------------- MODULE TileArithmetic ---------------------------
(* What both pages and the pre-generation of tiles reckon with.              *)
EXTENDS Integers

CONSTANT TileSize  \* 256 in the code
ASSUME TileAssumption == TileSize \in Nat \ {0}

\* Math.min.
Least(m, n) == IF m < n THEN m ELSE n

\* Math.pow(2, n), or as many halvings.
Pow2[n \in Nat] == IF n = 0 THEN 1 ELSE 2 * Pow2[n - 1]
=============================================================================
