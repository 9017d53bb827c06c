--------------------------- MODULE MCTraceWriter ---------------------------
(* Model values for the runs of TraceWriter.                               *)
EXTENDS TraceWriter

MCTraceSizes == {0, 1, 3}
MCTransactionCounts == {0, 1}
=============================================================================
