---------------------------- MODULE FrameParser -----------------------------
(***************************************************************************)
(* SerialMain::feed and SerialMain::try_parse: the uplink byte stream and  *)
(* the receiver that cuts it into frames.                                  *)
(*                                                                         *)
(* A frame is SOF, length, rest of the header; command and payload;        *)
(* checksum; tail.  A byte on the line remembers the frame and the place   *)
(* it was sent from, so that "the checksum matches" is "these bytes are    *)
(* that frame's, in order and undamaged": the model has no collisions.     *)
(* The two length bytes are one byte here and the sizes are constants.     *)
(*                                                                         *)
(* feed holds the mutex from the first byte it appends until the parse     *)
(* loop ends; the loop is one action per iteration.                        *)
(***************************************************************************)
EXTENDS Integers, Sequences, SequencesExt

CONSTANTS
  HeaderLen,   \* HEADER_LEN (5): SOF, length, sequence number, crc8
  CmdLen,      \* CMD_LEN (2)
  CrcLen,      \* CRC16_LEN (2)
  TailLen,     \* TAIL_LEN (2)
  MaxBuf,      \* 4096
  Sof, End,    \* HEADER_SOF; the tail byte
  Bytes,       \* the values a byte of the line can have
  DataBytes,   \* the values the sender's header, payload and checksum can have
  VisionLens,  \* payload lengths of a VISION frame the receiver accepts
  OtherLens,   \* payload lengths of frames it ignores
  PortCap,     \* bytes the kernel holds for the next read
  MaxFrames,   \* bound: frames sent
  MaxFaults,   \* bound: bytes damaged or lost on the line
  MaxEmbedded  \* bound: SOF bytes sent elsewhere than at a frame's start

ASSUME ParserAssumption ==
  /\ HeaderLen \in Nat /\ HeaderLen >= 2
  /\ CmdLen \in Nat /\ CrcLen \in Nat \ {0} /\ TailLen \in Nat \ {0}
  /\ MaxBuf \in Nat /\ PortCap \in Nat \ {0}
  /\ Bytes \subseteq Nat /\ DataBytes \subseteq Bytes /\ DataBytes # {}
  /\ Sof \in Bytes /\ End \in Bytes
  /\ VisionLens \subseteq Bytes /\ OtherLens \subseteq Bytes
  /\ VisionLens # {}
  /\ MaxFrames \in Nat /\ MaxFaults \in Nat /\ MaxEmbedded \in Nat

VARIABLES
  cur,        \* the frame being sent
  at,         \* the place in it of the next byte
  port,       \* bytes received and not read yet
  buf,        \* buf_
  parsing,    \* inside try_parse, the mutex held
  latest,     \* the frame latest_vision_ came from
  visionSeq,  \* vision_seq_
  errCount,   \* err_count_
  faults,     \* bytes damaged or lost so far
  embedded    \* SOF bytes sent inside frames so far

lineVars == <<cur, at, faults, embedded>>
parserVars == <<buf, parsing, latest, visionSeq, errCount>>
vars == <<lineVars, port, parserVars>>

\* id counts the frames, ord the VISION frames up to and with this one.
NoFrame == [id |-> 0, ord |-> 0, vision |-> FALSE, len |-> 0]

\* Mutated: the tail is not part of the frame's length.
TotalWithoutTail(len) == HeaderLen + CmdLen + len + CrcLen

\* FRAME_TOTAL(payload)
Total(len) == HeaderLen + CmdLen + len + CrcLen + TailLen

\* A frame fits into the buffer.
ASSUME SizeAssumption == \A len \in VisionLens \cup OtherLens : Total(len) <= MaxBuf

FramesAfter(f) ==
  [id : {f.id + 1}, ord : {f.ord + 1}, vision : {TRUE}, len : VisionLens]
    \cup [id : {f.id + 1}, ord : {f.ord}, vision : {FALSE}, len : OtherLens]

Init ==
  /\ cur \in FramesAfter(NoFrame) /\ at = 1
  /\ port = <<>>
  /\ buf = <<>> /\ parsing = FALSE
  /\ latest = NoFrame /\ visionSeq = 0 /\ errCount = 0
  /\ faults = 0 /\ embedded = 0
-----------------------------------------------------------------------------
(* The sender and the line.                                                *)

FrameLen(f) == HeaderLen + CmdLen + f.len + CrcLen + TailLen

\* What the sender may put at place i of frame f.
Sent(f, i) ==
  CASE i = 1 -> {Sof}
    [] i = 2 -> {f.len}
    [] i > FrameLen(f) - TailLen -> {End}
    [] OTHER -> DataBytes

Advance ==
  IF at < FrameLen(cur)
  THEN at' = at + 1 /\ UNCHANGED cur
  ELSE at' = 1 /\ cur' \in FramesAfter(cur)

Sending == cur.id <= MaxFrames /\ Len(port) < PortCap

Transmit ==
  /\ Sending
  /\ \E v \in Sent(cur, at) :
       /\ port' = Append(port, [of |-> cur, pos |-> at, val |-> v])
       /\ embedded' = IF v = Sof /\ at # 1 THEN embedded + 1 ELSE embedded
  /\ embedded' <= MaxEmbedded
  /\ Advance
  /\ UNCHANGED <<faults, parserVars>>

\* A byte arrives with another value.
Damage ==
  /\ Sending /\ faults < MaxFaults
  /\ \E v \in Sent(cur, at) : \E w \in Bytes \ {v} :
       port' = Append(port, [of |-> NoFrame, pos |-> 0, val |-> w])
  /\ Advance
  /\ faults' = faults + 1
  /\ UNCHANGED <<embedded, parserVars>>

Lose ==
  /\ Sending /\ faults < MaxFaults
  /\ Advance
  /\ faults' = faults + 1
  /\ UNCHANGED <<port, embedded, parserVars>>
-----------------------------------------------------------------------------
(* The receiver.                                                           *)

\* Read returns some of the bytes at hand; feed appends them and goes on to
\* try_parse.
Feed ==
  /\ ~parsing
  /\ \E n \in 1 .. Len(port) :
       /\ buf' = buf \o SubSeq(port, 1, n)
       /\ port' = SubSeq(port, n + 1, Len(port))
  /\ parsing' = TRUE
  /\ UNCHANGED <<lineVars, latest, visionSeq, errCount>>

From(s, n) == SubSeq(s, n, Len(s))

\* The buffer from its first SOF on.
Resynced(s) ==
  LET sofs == {i \in 1 .. Len(s) : s[i].val = Sof}
  IN IF sofs = {} THEN <<>> ELSE From(s, Min(sofs))

\* What an iteration works on: too few bytes for a header are left alone.
Work == IF Len(buf) < HeaderLen THEN buf ELSE Resynced(buf)

\* The header is there, and every byte of the frame it announces.
Complete(s) == Len(s) >= HeaderLen /\ Len(s) >= Total(s[2].val)

\* Both checksums match: the bytes up to the tail are one frame's, in order.
ChecksumsMatch(s) ==
  LET total == Total(s[2].val)
  IN /\ total = FrameLen(s[1].of)
     /\ \A i \in 1 .. total - TailLen : s[i].of = s[1].of /\ s[i].pos = i

TailMatches(s) ==
  \A i \in 1 .. TailLen : s[Total(s[2].val) - TailLen + i].val = End

\* Mutated: an incomplete frame is waited for, however long it claims to be.
StopParsingUnbounded ==
  /\ parsing /\ ~Complete(Work)
  /\ parsing' = FALSE
  /\ buf' = Work
  /\ UNCHANGED <<lineVars, port, latest, visionSeq, errCount>>

\* The loop ends for want of bytes.  A buffer that outgrew MaxBuf is dropped.
StopParsing ==
  /\ parsing /\ ~Complete(Work)
  /\ parsing' = FALSE
  /\ IF Len(Work) > MaxBuf
     THEN buf' = <<>> /\ errCount' = errCount + 1
     ELSE buf' = Work /\ UNCHANGED errCount
  /\ UNCHANGED <<lineVars, port, latest, visionSeq>>

\* A frame that fails a check loses its header only; the search goes on
\* behind it.
Reject ==
  /\ parsing /\ Complete(Work) /\ ~(ChecksumsMatch(Work) /\ TailMatches(Work))
  /\ buf' = From(Work, HeaderLen + 1)
  /\ errCount' = errCount + 1
  /\ UNCHANGED <<lineVars, port, parsing, latest, visionSeq>>

\* Mutated: the accepted frame stays in the buffer.
AcceptWithoutErasing ==
  /\ parsing /\ Complete(Work) /\ ChecksumsMatch(Work) /\ TailMatches(Work)
  /\ Work[1].of.vision
  /\ buf' = Work
  /\ latest' = Work[1].of /\ visionSeq' = visionSeq + 1
  /\ UNCHANGED <<lineVars, port, parsing, errCount>>

\* A whole frame leaves the buffer; a VISION frame of a known length becomes
\* the latest.
Accept ==
  /\ parsing /\ Complete(Work) /\ ChecksumsMatch(Work) /\ TailMatches(Work)
  /\ buf' = From(Work, Total(Work[2].val) + 1)
  /\ IF Work[1].of.vision
     THEN latest' = Work[1].of /\ visionSeq' = visionSeq + 1
     ELSE UNCHANGED <<latest, visionSeq>>
  /\ UNCHANGED <<lineVars, port, parsing, errCount>>

Next == Transmit \/ Damage \/ Lose \/ Feed \/ StopParsing \/ Reject \/ Accept

Spec == Init /\ [][Next]_vars
-----------------------------------------------------------------------------
(* Properties.                                                             *)

Cells == [of : [id : 0 .. MaxFrames, ord : 0 .. MaxFrames, vision : BOOLEAN,
                len : VisionLens \cup OtherLens \cup {0}],
          pos : Nat, val : Bytes]

\* Every variable has its type; the buffer is bounded whenever the mutex is
\* free.
TypeOK ==
  /\ port \in Seq(Cells) /\ Len(port) <= PortCap
  /\ buf \in Seq(Cells) /\ (~parsing => Len(buf) <= MaxBuf)
  /\ parsing \in BOOLEAN
  /\ visionSeq \in 0 .. MaxFrames
  /\ errCount \in Nat /\ faults \in 0 .. MaxFaults
  /\ embedded \in 0 .. MaxEmbedded

Source == INSTANCE VisionSource WITH newest <- latest.ord, MaxSent <- MaxFrames

\* The receiver implements what its reader is promised: each VISION frame is
\* taken at most once and in the order it was sent, whatever false headers the
\* stream is cut at.
ImplementsSource == Source!SourceSpec

\* On a clean line the receiver never loses step, wherever the reads cut the
\* stream and whatever SOF bytes the frames hold: no error is counted, and
\* every VISION frame is taken.
CleanLineInStep ==
  faults = 0 => errCount = 0 /\ latest.ord = visionSeq

\* The VISION frames n bytes can be part of.
FramesIn(n) == n \div Total(Min(VisionLens)) + 1

\* What a byte taken for a frame's start can cost: the length behind it may
\* announce more than will ever arrive, and takes a full buffer, and the read
\* that overfilled it, with it.
LossPerStart == FramesIn(MaxBuf + PortCap)

\* The VISION frames sent to the end.
SentVision == IF cur.vision THEN cur.ord - 1 ELSE cur.ord

\* The receiver finds its way back, and in time: a bad byte costs the frame it
\* was part of; that byte, and each SOF byte in a frame that a bad byte may lead
\* the search to, costs only so many VISION frames more; and nothing holds the
\* others up for longer.
LossBounded ==
  SentVision - visionSeq <=
    FramesIn(2 * PortCap)
      + IF faults = 0 THEN 0 ELSE faults + LossPerStart * (faults + embedded)
=============================================================================
