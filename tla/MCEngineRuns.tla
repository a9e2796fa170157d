---------------------------- MODULE MCEngineRuns ----------------------------
(* TLC instances of EngineRuns. *)
EXTENDS EngineRuns

Two == 1..2
=============================================================================
