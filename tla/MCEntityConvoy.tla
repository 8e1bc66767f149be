--------------------------- MODULE MCEntityConvoy ---------------------------
(* Small maps for TLC: see the README for the bounds of each run.          *)
EXTENDS EntityConvoy
=============================================================================
