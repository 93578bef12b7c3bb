--------------------------- MODULE MCVisionChain ----------------------------
(* Constants of VisionChain for TLC; a tick is half a second.              *)
EXTENDS VisionChain

\* Tenths of a radian per second, around the thresholds of auto_aim_params.yaml.
MCUp == [m \in Modes \ {Center} |-> CASE m = 0 -> 5 [] m = 1 -> 8 [] m = 2 -> 10]
MCDown == [m \in Modes \ {Single} |-> CASE m = 1 -> 3 [] m = 2 -> 4 [] m = 3 -> 5]
MCRates == {2, 5, 6, 11}
=============================================================================
