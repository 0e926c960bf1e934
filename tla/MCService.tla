------------------------------- MODULE MCService ------------------------------
(* Two ports with one client each, the counts of the code.                  *)
EXTENDS Service
=============================================================================
