------------------------ MODULE MCOpenURLJP2KService ------------------------
(* Values for the constants of OpenURLJP2KService. *)
EXTENDS OpenURLJP2KService, TLC

MCKeys == {Picture(v) : v \in Views}
MCPaths == 1..MaxRequests
ThreadSymmetry == Permutations(Threads)
=============================================================================
