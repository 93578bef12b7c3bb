---------------------------- MODULE VisionSource ----------------------------
(***************************************************************************)
(* What SerialMain promises to its reader, VisionPub: a latest VISION      *)
(* frame that only ever gets newer, and a counter that goes up by one with *)
(* every frame taken.  Frames are numbered in the order they were sent.    *)
(***************************************************************************)
EXTENDS Naturals

CONSTANT MaxSent  \* bound: VISION frames sent

ASSUME SourceAssumption == MaxSent \in Nat

VARIABLES
  newest,    \* the frame in latest_vision_; 0 until have_vision_
  visionSeq  \* vision_seq_

sourceVars == <<newest, visionSeq>>

SourceInit == newest = 0 /\ visionSeq = 0

Take ==
  /\ newest' \in newest + 1 .. MaxSent
  /\ visionSeq' = visionSeq + 1

SourceSpec == SourceInit /\ [][Take]_sourceVars
=============================================================================
