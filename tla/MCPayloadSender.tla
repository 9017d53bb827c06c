-------------------------- MODULE MCPayloadSender --------------------------
(* Model values for the run of PayloadSender.                               *)
EXTENDS PayloadSender

\* A payload that fits twice, one that fits once, one larger than the queue.
MCSizes == {1, 2, 4}
=============================================================================
