--------------------------- MODULE MCImageServlet ---------------------------
(* Values for the constants of ImageServlet. *)
EXTENDS ImageServlet, TLC

MCKeys == {Picture(v) : v \in Views}
MCPaths == 1..MaxRequests
UserSymmetry == Permutations(Threads) \cup Permutations(Sessions)
=============================================================================
