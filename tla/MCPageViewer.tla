---------------------------- MODULE MCPageViewer ----------------------------
(* The starts of new/viewer.html: no parameter s, and s as the query writes it. *)
EXTENDS PageViewer

StartsOfTheQuery == {Number(0), Text(0), Text(1), Text(9)}
=============================================================================
