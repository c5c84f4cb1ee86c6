--------------------------- MODULE MCMouseTracker ---------------------------
(* Three fingers, so that a pinch may lose one of three, and a mouse. *)
EXTENDS MouseTracker, TLC

CONSTANTS f1, f2, f3, m1

FingersAlike == Permutations(Fingers)
=============================================================================
