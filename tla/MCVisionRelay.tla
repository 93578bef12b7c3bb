---------------------------- MODULE MCVisionRelay ---------------------------
(* The relay with a short queue: bursts overflow it.                         *)
EXTENDS VisionRelay
=============================================================================
