---------------------------- MODULE MCFrameParser ----------------------------
(* The receiver at a scale of one byte per field: frames of 6 and 7 bytes,   *)
(* room for two of them and a bit.                                           *)
EXTENDS FrameParser

\* As a length, 0 is a frame's own, 1 too, Sof and Far reach into the next
\* frames, and Never cannot be satisfied by the buffer.
Far == 8
Never == 40
ByteValues == {0, 1, 5, Far, Never}
=============================================================================
