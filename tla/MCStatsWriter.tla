--------------------------- MODULE MCStatsWriter ---------------------------
(* Model values for the runs of StatsWriter.                               *)
EXTENDS StatsWriter

MCWindows == {0, 10}
MCKeys == {"hits", "errors", "duration"}
MCDistKeys == {"duration"}
=============================================================================
