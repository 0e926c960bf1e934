----------------------------- MODULE MCGpsServer -----------------------------
(* Small instances of GpsServer.  The goroutines of one kind are            *)
(* interchangeable; symmetry is used in the runs without liveness.          *)
EXTENDS GpsServer, TLC

Symmetry == Permutations(Loop) \cup Permutations(Conn)
=============================================================================
