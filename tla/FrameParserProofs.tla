-------------------------- MODULE FrameParserProofs --------------------------
(***************************************************************************)
(* Proofs about the receiver, for frames and buffers of any size.          *)
(*                                                                         *)
(* The invariant is about the bytes in hand, those of buf followed by      *)
(* those of port.  Whatever the line does, they are in the order they were *)
(* sent in, after the start of the latest frame and before the byte to     *)
(* come: so a frame is never taken twice or late.  On a clean line each of *)
(* them moreover follows the one before without a gap, and the first is    *)
(* the first byte of a frame: so no check ever fails.                      *)
(*                                                                         *)
(* The second part counts.  A VISION frame that was started was taken, is  *)
(* still there to be taken, or was lost to a culprit: a damaged byte, a    *)
(* gap, a SOF that begins no frame.  Whatever the search discards at the   *)
(* expense of a frame that is there discards a culprit with it, and each   *)
(* culprit came with a fault or with an embedded SOF: so the frames lost   *)
(* are bounded by those.                                                   *)
(***************************************************************************)
EXTENDS FrameParser, FiniteSetTheorems, SequenceTheorems, WellFoundedInduction, TLAPS

Hand == buf \o port

\* A place in the stream: a byte of hand, the byte to come, a frame's start.
Place(f, i) == [of |-> f, pos |-> i]
Coming == Place(cur, at)

\* Frame g is frame f or a later one.
Reaches(f, g) ==
  \/ f = g
  \/ f.id < g.id /\ f.ord <= g.ord /\ (g.vision => f.ord < g.ord)

Precedes(a, b) == Reaches(a.of, b.of) /\ (a.of = b.of => a.pos < b.pos)

\* A damaged byte has no place.
InOrder ==
  /\ \A i, j \in DOMAIN Hand : i < j /\ Hand[i].pos > 0 /\ Hand[j].pos > 0
       => Precedes(Hand[i], Hand[j])
  /\ \A i \in DOMAIN Hand : Hand[i].pos > 0
       => Precedes(Place(latest, 1), Hand[i]) /\ Precedes(Hand[i], Coming)
  /\ Precedes(Place(latest, 1), Coming)

FrameTypes(max) ==
  [id : 0 .. max, ord : 0 .. max, vision : BOOLEAN, len : VisionLens \cup OtherLens \cup {0}]

Typed ==
  /\ TypeOK
  /\ cur \in FrameTypes(MaxFrames + 1) /\ cur.ord <= cur.id
  /\ cur.len \in VisionLens \cup OtherLens
  /\ at \in 1 .. FrameLen(cur)
  /\ latest \in FrameTypes(MaxFrames) /\ visionSeq <= latest.ord

\* Place b is d bytes after place a.
Follows(a, b, d) ==
  /\ a.pos + d <= FrameLen(a.of) => b.of = a.of /\ b.pos = a.pos + d
  /\ a.pos + d = FrameLen(a.of) + 1 => b.of \in FramesAfter(a.of) /\ b.pos = 1

\* A frame that may be the next to be taken.
Awaited(f) == f.ord = latest.ord + (IF f.vision THEN 1 ELSE 0)

\* On a clean line.
Gapless ==
  /\ \A i \in DOMAIN Hand :
       /\ Hand[i].pos \in 1 .. FrameLen(Hand[i].of)
       /\ Hand[i].of.len \in VisionLens \cup OtherLens
       /\ Hand[i].val \in Sent(Hand[i].of, Hand[i].pos)
       /\ Follows(Hand[i], Coming, Len(Hand) + 1 - i)
       /\ \A j \in DOMAIN Hand : i < j => Follows(Hand[i], Hand[j], j - i)
  /\ IF Hand = <<>> THEN at = 1 /\ Awaited(cur)
     ELSE Hand[1].pos = 1 /\ Awaited(Hand[1].of)

ParserInv == Typed /\ InOrder /\ CleanLineInStep /\ (faults = 0 => Gapless)
-----------------------------------------------------------------------------
(* Numbers and sequences.                                                  *)

LEMMA MinIsLeast ==
  ASSUME NEW S \in SUBSET Nat, S # {}
  PROVE  Min(S) \in S /\ \A y \in S : Min(S) <= y
<1> DEFINE R == {p \in Nat \X Nat : p[1] < p[2]}
<1>1. OpToRel(<, Nat) = R
  BY Zenon DEF OpToRel
<1>2. IsWellFoundedOn(R, Nat)
  BY <1>1, NatLessThanWellFounded, Zenon
<1> HIDE DEF R
<1>3. \E x \in S : \A y \in S : <<y, x>> \notin R
  BY <1>2, WFMin, Zenon
<1>4. PICK x \in S : \A y \in S : <<y, x>> \notin R
  BY <1>3
<1>5. ASSUME NEW y \in S PROVE x <= y
  <2>1. x \in Nat /\ y \in Nat /\ <<y, x>> \notin R
    BY <1>4
  <2>2. <<y, x>> \in R <=> y < x
    BY <2>1, SMT DEF R
  <2> QED
    BY <2>1, <2>2
<1> QED
  BY <1>5 DEF Min

LEMMA Sizes ==
  /\ HeaderLen \in Nat /\ HeaderLen >= 2 /\ CmdLen \in Nat
  /\ CrcLen \in Nat \ {0} /\ TailLen \in Nat \ {0}
  /\ MaxBuf \in Nat /\ PortCap \in Nat /\ MaxFrames \in Nat
  /\ MaxFaults \in Nat /\ MaxEmbedded \in Nat
  /\ Bytes \subseteq Nat /\ VisionLens \subseteq Nat /\ OtherLens \subseteq Nat
  /\ VisionLens \subseteq Bytes /\ OtherLens \subseteq Bytes
BY ParserAssumption

LEMMA TotalNat ==
  ASSUME NEW len \in Nat
  PROVE  Total(len) \in Nat /\ Total(len) > HeaderLen + TailLen
         /\ Total(len) - TailLen >= 3 /\ Total(len) > HeaderLen
<1>1. Total(len) = HeaderLen + CmdLen + len + CrcLen + TailLen
  BY DEF Total
<1>2. /\ HeaderLen \in Nat /\ HeaderLen >= 2 /\ CmdLen \in Nat
      /\ CrcLen \in Nat \ {0} /\ TailLen \in Nat \ {0}
  BY Sizes, Zenon
<1> HIDE DEF Total
<1> QED
  BY <1>1, <1>2

LEMMA FrameLenNat ==
  ASSUME NEW f, f.len \in Nat
  PROVE  FrameLen(f) \in Nat /\ FrameLen(f) = Total(f.len) /\ FrameLen(f) - TailLen >= 3
<1>1. FrameLen(f) = Total(f.len)
  BY DEF FrameLen, Total
<1> QED
  BY <1>1, TotalNat

LEMMA CellTyped ==
  ASSUME NEW c \in Cells
  PROVE  /\ c.pos \in Nat /\ c.val \in Bytes
         /\ c.of \in FrameTypes(MaxFrames) /\ c.of.len \in Nat /\ FrameLen(c.of) \in Nat
<1>1. c.pos \in Nat /\ c.val \in Bytes /\ c.of \in FrameTypes(MaxFrames)
  BY DEF Cells, FrameTypes
<1>2. c.of.len \in VisionLens \/ c.of.len \in OtherLens \/ c.of.len = 0
  BY <1>1 DEF FrameTypes
<1>3. c.of.len \in Nat
  <2>1. VisionLens \subseteq Nat /\ OtherLens \subseteq Nat
    BY Sizes
  <2>2. 0 \in Nat
    OBVIOUS
  <2> QED
    BY <1>2, <2>1, <2>2, Zenon
<1> QED
  BY <1>1, <1>3, FrameLenNat

\* The end of a sequence.
LEMMA FromProperties ==
  ASSUME NEW S, NEW s \in Seq(S), NEW m \in 1 .. Len(s) + 1
  PROVE  /\ From(s, m) \in Seq(S) /\ Len(From(s, m)) = Len(s) - m + 1
         /\ \A i \in 1 .. Len(s) - m + 1 : From(s, m)[i] = s[i + m - 1]
<1>1. Len(s) \in Nat /\ m \in Int /\ \A i \in m .. Len(s) : s[i] \in S
  BY ElementOfSeq, LenProperties
<1>2. /\ SubSeq(s, m, Len(s)) \in Seq(S)
      /\ Len(SubSeq(s, m, Len(s))) = IF m <= Len(s) THEN Len(s) - m + 1 ELSE 0
      /\ \A i \in 1 .. Len(s) - m + 1 : SubSeq(s, m, Len(s))[i] = s[m + i - 1]
  BY <1>1, SubSeqProperties
<1>3. \A i \in 1 .. Len(s) - m + 1 : m + i - 1 = i + m - 1
  BY <1>1
<1> QED
  BY <1>1, <1>2, <1>3 DEF From

\* An end of an end.
LEMMA FromFrom ==
  ASSUME NEW S, NEW s \in Seq(S), NEW k \in 1 .. Len(s) + 1,
         NEW n \in 1 .. Len(s) - k + 2
  PROVE  k + n - 1 \in 1 .. Len(s) + 1 /\ From(From(s, k), n) = From(s, k + n - 1)
<1> DEFINE t == From(s, k)
           u == From(t, n)
           v == From(s, k + n - 1)
<1>1. Len(s) \in Nat /\ k + n - 1 \in 1 .. Len(s) + 1
  BY LenProperties
<1>2. /\ t \in Seq(S) /\ Len(t) = Len(s) - k + 1
      /\ \A i \in 1 .. Len(s) - k + 1 : t[i] = s[i + k - 1]
  BY FromProperties
<1> HIDE DEF t
<1>3. n \in 1 .. Len(t) + 1
  BY <1>1, <1>2
<1>4. /\ u \in Seq(S) /\ Len(u) = Len(t) - n + 1
      /\ \A i \in 1 .. Len(t) - n + 1 : u[i] = t[i + n - 1]
  BY <1>2, <1>3, FromProperties
<1>5. /\ v \in Seq(S) /\ Len(v) = Len(s) - (k + n - 1) + 1
      /\ \A i \in 1 .. Len(s) - (k + n - 1) + 1 : v[i] = s[i + (k + n - 1) - 1]
  BY <1>1, FromProperties
<1> HIDE DEF u, v
<1>6. Len(u) = Len(v)
  BY <1>1, <1>2, <1>4, <1>5
<1>7. ASSUME NEW i \in 1 .. Len(u) PROVE u[i] = v[i]
  <2>1. i + n - 1 \in 1 .. Len(s) - k + 1 /\ u[i] = t[i + n - 1]
    BY <1>1, <1>2, <1>4
  <2>2. t[i + n - 1] = s[(i + n - 1) + k - 1]
    BY <1>2, <2>1
  <2>3. v[i] = s[i + (k + n - 1) - 1]
    BY <1>5, <1>6, <1>1
  <2>4. (i + n - 1) + k - 1 = i + (k + n - 1) - 1
    BY <1>1
  <2> QED
    BY <2>1, <2>2, <2>3, <2>4
<1>8. u = v
  BY <1>4, <1>5, <1>6, <1>7, SeqEqual
<1> QED
  BY <1>1, <1>8 DEF t, u, v
-----------------------------------------------------------------------------
(* The bytes in hand.                                                      *)

LEMMA HandTyped ==
  ASSUME Typed
  PROVE  /\ Hand \in Seq(Cells) /\ Len(Hand) = Len(buf) + Len(port)
         /\ Len(buf) \in Nat /\ Len(port) \in Nat
         /\ DOMAIN Hand = 1 .. Len(Hand) /\ DOMAIN buf = 1 .. Len(buf)
         /\ \A i \in 1 .. Len(buf) : Hand[i] = buf[i] /\ buf[i] \in Cells
         /\ \A i \in 1 .. Len(Hand) : Hand[i] \in Cells
<1>1. buf \in Seq(Cells) /\ port \in Seq(Cells)
  BY DEF Typed, TypeOK
<1>2. /\ Hand \in Seq(Cells) /\ Len(Hand) = Len(buf) + Len(port)
      /\ \A i \in 1 .. Len(buf) + Len(port) : Hand[i] =
           IF i <= Len(buf) THEN buf[i] ELSE port[i - Len(buf)]
  BY <1>1, ConcatProperties DEF Hand
<1>3. Len(buf) \in Nat /\ Len(port) \in Nat
  BY <1>1
<1> QED
  BY <1>1, <1>2, <1>3, ElementOfSeq, LenProperties

\* What is left of hand when bytes are taken from the buffer.
LEMMA HandDropped ==
  ASSUME Typed, NEW m \in 1 .. Len(buf) + 1, buf' = From(buf, m), port' = port
  PROVE  /\ buf' \in Seq(Cells) /\ Len(buf') <= Len(buf)
         /\ Hand' \in Seq(Cells) /\ DOMAIN Hand' = 1 .. Len(Hand')
         /\ Len(Hand') = Len(Hand) - m + 1
         /\ \A i \in 1 .. Len(Hand') : i + m - 1 \in 1 .. Len(Hand) /\ Hand'[i] = Hand[i + m - 1]
<1>1. /\ buf \in Seq(Cells) /\ port \in Seq(Cells)
      /\ Len(buf) \in Nat /\ Len(port) \in Nat
  BY LenProperties DEF Typed, TypeOK
<1> DEFINE b == From(buf, m)
<1>2. /\ b \in Seq(Cells) /\ Len(b) = Len(buf) - m + 1
      /\ \A i \in 1 .. Len(buf) - m + 1 : b[i] = buf[i + m - 1]
  BY <1>1, FromProperties
<1> HIDE DEF b
<1>3. /\ Hand = buf \o port /\ Hand' = b \o port /\ buf' = b
  BY DEF Hand, b
<1>4. /\ Len(Hand) = Len(buf) + Len(port)
      /\ \A i \in 1 .. Len(buf) + Len(port) : Hand[i] =
           IF i <= Len(buf) THEN buf[i] ELSE port[i - Len(buf)]
  BY <1>1, <1>3, ConcatProperties
<1>5. /\ b \o port \in Seq(Cells) /\ Len(b \o port) = Len(b) + Len(port)
      /\ \A i \in 1 .. Len(b) + Len(port) : (b \o port)[i] =
           IF i <= Len(b) THEN b[i] ELSE port[i - Len(b)]
  BY <1>1, <1>2, ConcatProperties
<1>6. ASSUME NEW i \in 1 .. Len(b) + Len(port)
      PROVE  i + m - 1 \in 1 .. Len(Hand) /\ (b \o port)[i] = Hand[i + m - 1]
  <2>1. i + m - 1 \in 1 .. Len(buf) + Len(port) /\ i \in Int /\ m \in Int
    BY <1>1, <1>2
  <2>2. CASE i <= Len(b)
    <3>1. (b \o port)[i] = b[i] /\ i \in 1 .. Len(buf) - m + 1
      BY <1>1, <1>2, <1>5, <2>2
    <3>2. b[i] = buf[i + m - 1] /\ i + m - 1 <= Len(buf)
      BY <1>1, <1>2, <3>1
    <3> QED
      BY <1>4, <2>1, <3>1, <3>2
  <2>3. CASE ~(i <= Len(b))
    <3>1. (b \o port)[i] = port[i - Len(b)]
      BY <1>5, <2>3
    <3>2. ~(i + m - 1 <= Len(buf)) /\ i - Len(b) = (i + m - 1) - Len(buf)
      BY <1>1, <1>2, <2>1, <2>3
    <3> QED
      BY <1>4, <2>1, <3>1, <3>2
  <2> QED
    BY <2>2, <2>3
<1>7. DOMAIN (b \o port) = 1 .. Len(b \o port)
  BY <1>5, LenProperties
<1> QED
  BY <1>1, <1>2, <1>3, <1>4, <1>5, <1>6, <1>7

\* The parser works on an end of the buffer.
LEMMA WorkIsEnd ==
  ASSUME Typed
  PROVE  \E k \in 1 .. Len(buf) + 1 : Work = From(buf, k)
<1>1. buf \in Seq(Cells) /\ Len(buf) \in Nat
  BY LenProperties DEF Typed, TypeOK
<1>2. From(buf, 1) = buf
  BY <1>1, SubSeqFull DEF From
<1>3. From(buf, Len(buf) + 1) = <<>>
  BY <1>1, SubSeqEmpty DEF From
<1>4. CASE Len(buf) < HeaderLen
  BY <1>1, <1>2, <1>4 DEF Work
<1>5. CASE ~(Len(buf) < HeaderLen)
  <2> DEFINE sofs == {i \in 1 .. Len(buf) : buf[i].val = Sof}
  <2>1. Work = IF sofs = {} THEN <<>> ELSE From(buf, Min(sofs))
    BY <1>5 DEF Work, Resynced
  <2>2. CASE sofs = {}
    BY <1>1, <1>3, <2>1, <2>2
  <2>3. CASE sofs # {}
    <3>1. sofs \in SUBSET Nat
      BY <1>1
    <3>2. Min(sofs) \in sofs
      BY <2>3, <3>1, MinIsLeast
    <3>3. Min(sofs) \in 1 .. Len(buf)
      BY <3>2
    <3>4. Work = From(buf, Min(sofs))
      BY <2>1, <2>3
    <3> HIDE DEF sofs
    <3>5. Min(sofs) \in 1 .. Len(buf) + 1
      BY <1>1, <3>3
    <3> QED
      BY <3>4, <3>5
  <2> QED
    BY <2>2, <2>3
<1> QED
  BY <1>4, <1>5

\* What a complete frame is made of, as bytes of the buffer.
LEMMA WorkCells ==
  ASSUME Typed, Complete(Work), NEW k \in 1 .. Len(buf) + 1, Work = From(buf, k)
  PROVE  /\ Len(Work) = Len(buf) - k + 1 /\ Len(Work) >= HeaderLen
         /\ Work[2].val \in Nat /\ Total(Work[2].val) \in HeaderLen + 1 .. Len(Work)
         /\ \A i \in 1 .. Len(Work) : /\ i + k - 1 \in 1 .. Len(buf)
                                     /\ Work[i] = buf[i + k - 1] /\ Work[i] \in Cells
                                     /\ Work[i] = Hand[i + k - 1]
<1>1. /\ buf \in Seq(Cells) /\ Len(buf) \in Nat
      /\ \A i \in 1 .. Len(buf) : Hand[i] = buf[i] /\ buf[i] \in Cells
  BY HandTyped DEF Typed, TypeOK
<1> DEFINE w == Work
<1>2. Len(w) = Len(buf) - k + 1 /\ \A i \in 1 .. Len(buf) - k + 1 : w[i] = buf[i + k - 1]
  BY <1>1, FromProperties
<1>3. Len(w) >= HeaderLen /\ Len(w) >= Total(w[2].val)
  BY DEF Complete
<1> HIDE DEF w
<1>4. ASSUME NEW i \in 1 .. Len(w)
      PROVE  /\ i + k - 1 \in 1 .. Len(buf)
             /\ w[i] = buf[i + k - 1] /\ w[i] \in Cells /\ w[i] = Hand[i + k - 1]
  <2>1. i + k - 1 \in 1 .. Len(buf)
    BY <1>1, <1>2
  <2> QED
    BY <1>1, <1>2, <2>1
<1>5. 2 \in 1 .. Len(w)
  BY <1>1, <1>2, <1>3, Sizes
<1>6. w[2].val \in Nat
  BY <1>4, <1>5, Sizes DEF Cells
<1>7. Total(w[2].val) \in Nat /\ Total(w[2].val) > HeaderLen
  <2>1. PICK len \in Nat : len = w[2].val
    BY <1>6
  <2>2. Total(len) \in Nat /\ Total(len) > HeaderLen
    BY TotalNat
  <2> QED
    BY <2>1, <2>2
<1>8. Total(w[2].val) \in HeaderLen + 1 .. Len(w)
  BY <1>1, <1>2, <1>3, <1>7, Sizes
<1> QED
  BY <1>2, <1>3, <1>4, <1>6, <1>8 DEF w
-----------------------------------------------------------------------------
(* The order of the stream.                                                *)

LEMMA AfterTyped ==
  ASSUME NEW f, f.id \in 0 .. MaxFrames, f.ord \in 0 .. f.id, NEW g \in FramesAfter(f)
  PROVE  /\ g.id = f.id + 1 /\ g.ord \in {f.ord, f.ord + 1}
         /\ (g.vision => g.ord = f.ord + 1)
         /\ g.len \in VisionLens \cup OtherLens
         /\ g \in FrameTypes(MaxFrames + 1)
<1>1. /\ f.id + 1 \in 0 .. MaxFrames + 1 /\ f.ord \in 0 .. MaxFrames + 1
      /\ f.ord + 1 \in 0 .. MaxFrames + 1
  BY Sizes
<1>2. CASE g \in [id : {f.id + 1}, ord : {f.ord + 1}, vision : {TRUE}, len : VisionLens]
  <2>1. g.id = f.id + 1 /\ g.ord = f.ord + 1 /\ g.len \in VisionLens
    BY <1>2
  <2>2. g \in FrameTypes(MaxFrames + 1)
    BY <1>1, <1>2 DEF FrameTypes
  <2> QED
    BY <2>1, <2>2
<1>3. CASE g \in [id : {f.id + 1}, ord : {f.ord}, vision : {FALSE}, len : OtherLens]
  <2>1. g.id = f.id + 1 /\ g.ord = f.ord /\ g.vision = FALSE /\ g.len \in OtherLens
    BY <1>3
  <2>2. g \in FrameTypes(MaxFrames + 1)
    BY <1>1, <1>3 DEF FrameTypes
  <2> QED
    BY <2>1, <2>2
<1> QED
  BY <1>2, <1>3 DEF FramesAfter

\* When the sender goes on, what was before the byte to come still is.
LEMMA AdvanceStep ==
  ASSUME Typed, Advance, cur.id <= MaxFrames
  PROVE  /\ cur' \in FrameTypes(MaxFrames + 1) /\ cur'.ord <= cur'.id
         /\ cur'.len \in VisionLens \cup OtherLens
         /\ at' \in 1 .. FrameLen(cur')
         /\ Precedes(Coming, Coming')
         /\ \A a : /\ a.of.id \in Nat /\ a.of.ord \in Nat /\ a.pos \in Nat
                   /\ Precedes(a, Coming)
                   => Precedes(a, Coming')
<1>1. /\ cur.id \in Nat /\ cur.ord \in Nat /\ cur.vision \in BOOLEAN
      /\ cur.id <= MaxFrames /\ cur.ord <= cur.id
      /\ cur.len \in VisionLens \cup OtherLens /\ cur.len \in Nat
      /\ at \in 1 .. FrameLen(cur) /\ FrameLen(cur) \in Nat
  <2>1. cur \in FrameTypes(MaxFrames + 1) /\ cur.len \in VisionLens \cup OtherLens
    BY DEF Typed
  <2>2. cur.len \in Nat
    BY <2>1, Sizes
  <2>3. cur.id \in Nat /\ cur.ord \in Nat /\ cur.vision \in BOOLEAN
    BY <2>1, Sizes DEF FrameTypes
  <2>4. FrameLen(cur) \in Nat
    BY <2>2, FrameLenNat
  <2> QED
    BY <2>1, <2>2, <2>3, <2>4 DEF Typed
<1>2. CASE at < FrameLen(cur)
  <2>1. at' = at + 1 /\ cur' = cur
    BY <1>2 DEF Advance
  <2>2. at' \in 1 .. FrameLen(cur)
    BY <1>1, <1>2, <2>1
  <2> QED
    BY <1>1, <2>1, <2>2 DEF Typed, Precedes, Reaches, Coming, Place
<1>3. CASE ~(at < FrameLen(cur))
  <2>1. at' = 1 /\ cur' \in FramesAfter(cur)
    BY <1>3 DEF Advance
  <2>2. /\ cur'.id = cur.id + 1 /\ cur'.ord \in {cur.ord, cur.ord + 1}
        /\ (cur'.vision => cur'.ord = cur.ord + 1)
        /\ cur'.len \in VisionLens \cup OtherLens
        /\ cur' \in FrameTypes(MaxFrames + 1)
    BY <1>1, <2>1, AfterTyped
  <2>3. cur'.ord <= cur'.id
    BY <1>1, <2>2
  <2>4. at' \in 1 .. FrameLen(cur')
    <3>1. cur'.len \in Nat
      BY <2>2, Sizes
    <3>2. FrameLen(cur') \in Nat /\ FrameLen(cur') - TailLen >= 3 /\ TailLen \in Nat
      BY <3>1, FrameLenNat, Sizes
    <3> QED
      BY <2>1, <3>2
  <2>5. ASSUME NEW a, a.of.id \in Nat, a.of.ord \in Nat, Reaches(a.of, cur)
        PROVE  Reaches(a.of, cur') /\ a.of # cur'
    BY <1>1, <2>2, <2>5 DEF Reaches
  <2>6. Reaches(cur, cur') /\ cur # cur'
    BY <1>1, <2>2 DEF Reaches
  <2> QED
    BY <2>1, <2>2, <2>3, <2>4, <2>5, <2>6 DEF Precedes, Coming, Place
<1> QED
  BY <1>2, <1>3

\* Taking bytes from the buffer keeps the order; the latest frame is what it
\* was, or one whose start is among the bytes taken.
LEMMA OrderKept ==
  ASSUME Typed, InOrder, NEW m \in 1 .. Len(buf) + 1, buf' = From(buf, m), port' = port,
         UNCHANGED <<cur, at>>,
         \/ latest' = latest
         \/ \E k \in 1 .. m - 1 : Hand[k].pos = 1 /\ latest' = Hand[k].of
  PROVE  InOrder'
<1>1. /\ DOMAIN Hand' = 1 .. Len(Hand') /\ Len(Hand') = Len(Hand) - m + 1
      /\ \A i \in 1 .. Len(Hand') : i + m - 1 \in 1 .. Len(Hand) /\ Hand'[i] = Hand[i + m - 1]
  BY HandDropped
<1>2. /\ DOMAIN Hand = 1 .. Len(Hand) /\ Len(Hand) \in Nat /\ Len(buf) \in Nat
      /\ Len(buf) <= Len(Hand)
  BY HandTyped
<1>3. Coming' = Coming
  BY DEF Coming, Place
<1>4. ASSUME NEW i \in 1 .. Len(Hand'), NEW j \in 1 .. Len(Hand'), i < j,
             Hand'[i].pos > 0, Hand'[j].pos > 0
      PROVE  Precedes(Hand'[i], Hand'[j])
  <2>1. /\ i + m - 1 \in DOMAIN Hand /\ j + m - 1 \in DOMAIN Hand /\ i + m - 1 < j + m - 1
        /\ Hand'[i] = Hand[i + m - 1] /\ Hand'[j] = Hand[j + m - 1]
    BY <1>1, <1>2, <1>4
  <2> QED
    BY <1>4, <2>1 DEF InOrder
<1>5. ASSUME NEW i \in 1 .. Len(Hand'), Hand'[i].pos > 0
      PROVE  Precedes(Place(latest', 1), Hand'[i]) /\ Precedes(Hand'[i], Coming)
  <2>1. i + m - 1 \in DOMAIN Hand /\ Hand'[i] = Hand[i + m - 1]
    BY <1>1, <1>2
  <2>2. CASE latest' = latest
    BY <1>5, <2>1, <2>2 DEF InOrder
  <2>3. ASSUME NEW k \in 1 .. m - 1, Hand[k].pos = 1, latest' = Hand[k].of
        PROVE  Precedes(Place(latest', 1), Hand'[i])
    <3>1. k \in DOMAIN Hand /\ k < i + m - 1
      BY <1>1, <1>2
    <3>2. Precedes(Hand[k], Hand[i + m - 1])
      BY <1>5, <2>1, <2>3, <3>1 DEF InOrder
    <3> QED
      BY <2>1, <2>3, <3>2 DEF Precedes, Place
  <2> QED
    BY <1>5, <2>1, <2>2, <2>3 DEF InOrder
<1>6. Precedes(Place(latest', 1), Coming)
  <2>1. CASE latest' = latest
    BY <2>1 DEF InOrder
  <2>2. ASSUME NEW k \in 1 .. m - 1, Hand[k].pos = 1, latest' = Hand[k].of
        PROVE  Precedes(Place(latest', 1), Coming)
    <3>1. k \in DOMAIN Hand
      BY <1>1, <1>2
    <3>2. Precedes(Hand[k], Coming)
      BY <2>2, <3>1 DEF InOrder
    <3> QED
      BY <2>2, <3>2 DEF Precedes, Place
  <2> QED
    BY <2>1, <2>2
<1> QED
  BY <1>1, <1>3, <1>4, <1>5, <1>6 DEF InOrder

\* A byte arrives.
LEMMA HandAppended ==
  ASSUME Typed, NEW c \in Cells, port' = Append(port, c), buf' = buf
  PROVE  /\ port' \in Seq(Cells) /\ Len(port') = Len(port) + 1
         /\ DOMAIN Hand' = 1 .. Len(Hand) + 1 /\ Len(Hand') = Len(Hand) + 1
         /\ \A i \in 1 .. Len(Hand) : Hand'[i] = Hand[i]
         /\ Hand'[Len(Hand) + 1] = c
<1>1. /\ buf \in Seq(Cells) /\ port \in Seq(Cells)
      /\ Len(buf) \in Nat /\ Len(port) \in Nat
  BY LenProperties DEF Typed, TypeOK
<1> DEFINE p == Append(port, c)
<1>2. /\ p \in Seq(Cells) /\ Len(p) = Len(port) + 1
      /\ \A i \in 1 .. Len(port) : p[i] = port[i]
      /\ p[Len(port) + 1] = c
  BY <1>1, AppendProperties
<1> HIDE DEF p
<1>3. Hand = buf \o port /\ Hand' = buf \o p /\ port' = p
  BY DEF Hand, p
<1>4. /\ Len(Hand) = Len(buf) + Len(port)
      /\ \A i \in 1 .. Len(buf) + Len(port) : Hand[i] =
           IF i <= Len(buf) THEN buf[i] ELSE port[i - Len(buf)]
  BY <1>1, <1>3, ConcatProperties
<1>5. /\ buf \o p \in Seq(Cells) /\ Len(buf \o p) = Len(buf) + Len(p)
      /\ \A i \in 1 .. Len(buf) + Len(p) : (buf \o p)[i] =
           IF i <= Len(buf) THEN buf[i] ELSE p[i - Len(buf)]
  BY <1>1, <1>2, ConcatProperties
<1>6. DOMAIN (buf \o p) = 1 .. Len(buf \o p)
  BY <1>5, LenProperties
<1>7. ASSUME NEW i \in 1 .. Len(Hand) PROVE (buf \o p)[i] = Hand[i]
  <2>1. i \in 1 .. Len(buf) + Len(p) /\ i \in 1 .. Len(buf) + Len(port)
    BY <1>1, <1>2, <1>4
  <2>2. CASE i <= Len(buf)
    BY <1>4, <1>5, <2>1, <2>2
  <2>3. CASE ~(i <= Len(buf))
    <3>1. i - Len(buf) \in 1 .. Len(port)
      BY <1>1, <2>1, <2>3
    <3> QED
      BY <1>2, <1>4, <1>5, <2>1, <2>3, <3>1
  <2> QED
    BY <2>2, <2>3
<1>8. (buf \o p)[Len(Hand) + 1] = c
  <2>1. /\ Len(Hand) + 1 \in 1 .. Len(buf) + Len(p) /\ ~(Len(Hand) + 1 <= Len(buf))
        /\ Len(Hand) + 1 - Len(buf) = Len(port) + 1
    BY <1>1, <1>2, <1>4
  <2> QED
    BY <1>2, <1>5, <2>1
<1> QED
  BY <1>1, <1>2, <1>3, <1>4, <1>5, <1>6, <1>7, <1>8

\* Reading moves bytes within hand.
LEMMA HandFed ==
  ASSUME Typed, NEW n \in 1 .. Len(port), buf' = buf \o SubSeq(port, 1, n),
         port' = SubSeq(port, n + 1, Len(port))
  PROVE  /\ Hand' = Hand /\ buf' \in Seq(Cells)
         /\ port' \in Seq(Cells) /\ Len(port') <= Len(port)
<1> DEFINE a == SubSeq(port, 1, n)
           b == SubSeq(port, n + 1, Len(port))
<1>1. /\ buf \in Seq(Cells) /\ port \in Seq(Cells) /\ Len(port) \in Nat
      /\ \A i \in 1 .. Len(port) : port[i] \in Cells
  BY LenProperties, ElementOfSeq DEF Typed, TypeOK
<1>2. /\ n \in Int /\ n + 1 \in Int /\ Len(port) \in Int
      /\ \A i \in 1 .. n : port[i] \in Cells
      /\ \A i \in n + 1 .. Len(port) : port[i] \in Cells
  BY <1>1
<1>3. a \in Seq(Cells)
  BY <1>2, SubSeqProperties
<1>4. b \in Seq(Cells) /\ Len(b) = IF n + 1 <= Len(port) THEN Len(port) - (n + 1) + 1 ELSE 0
  BY <1>2, SubSeqProperties
<1>5. a \o b = port
  <2>1. a \o b = SubSeq(port, 1, Len(port))
    <3>1. 1 \in 1 .. Len(port) + 1 /\ n \in 1 - 1 .. Len(port) /\ Len(port) \in n .. Len(port)
      BY <1>1
    <3> QED
      BY <1>1, <3>1, ConcatAdjacentSubSeq
  <2> QED
    BY <1>1, <2>1, SubSeqFull
<1> HIDE DEF a, b
<1>6. (buf \o a) \o b = buf \o (a \o b)
  <2>1. buf \in Seq(Cells) /\ a \in Seq(Cells) /\ b \in Seq(Cells)
    BY <1>1, <1>3, <1>4
  <2> QED
    BY <2>1, ConcatAssociative
<1>7. buf \o a \in Seq(Cells)
  BY <1>1, <1>3, ConcatProperties
<1>8. buf' = buf \o a /\ port' = b
  BY DEF a, b
<1>9. Hand' = buf \o port
  BY <1>5, <1>6, <1>8 DEF Hand
<1>10. Len(b) <= Len(port)
  BY <1>1, <1>2, <1>4
<1> QED
  BY <1>4, <1>7, <1>8, <1>9, <1>10 DEF Hand

\* Sending keeps the order.
LEMMA OrderSent ==
  ASSUME Typed, InOrder, Advance, cur.id <= MaxFrames, UNCHANGED <<buf, latest>>,
         \/ port' = port
         \/ \E c \in Cells : port' = Append(port, c) /\ (c.pos = 0 \/ (c.of = cur /\ c.pos = at))
  PROVE  InOrder'
<1>1. /\ Precedes(Coming, Coming')
      /\ \A a : /\ a.of.id \in Nat /\ a.of.ord \in Nat /\ a.pos \in Nat
                /\ Precedes(a, Coming)
                => Precedes(a, Coming')
  BY AdvanceStep
<1>2. /\ DOMAIN Hand = 1 .. Len(Hand) /\ Len(Hand) \in Nat
      /\ \A i \in 1 .. Len(Hand) : Hand[i] \in Cells
  BY HandTyped, LenProperties
<1>3. \A i \in DOMAIN Hand : Hand[i].pos > 0 => Precedes(Hand[i], Coming')
  <2> SUFFICES ASSUME NEW i \in DOMAIN Hand, Hand[i].pos > 0
               PROVE  Precedes(Hand[i], Coming')
    OBVIOUS
  <2>1. /\ Hand[i].of.id \in Nat /\ Hand[i].of.ord \in Nat /\ Hand[i].pos \in Nat
    BY <1>2, Sizes DEF Cells
  <2>2. Precedes(Hand[i], Coming)
    BY DEF InOrder
  <2> QED
    BY <1>1, <2>1, <2>2
<1>4. Precedes(Place(latest, 1), Coming')
  <2>1. latest.id \in Nat /\ latest.ord \in Nat
    BY Sizes DEF Typed, FrameTypes
  <2>2. Precedes(Place(latest, 1), Coming)
    BY DEF InOrder
  <2> QED
    BY <1>1, <2>1, <2>2 DEF Place
<1>5. CASE port' = port
  <2>1. Hand' = Hand
    BY <1>5 DEF Hand
  <2> QED
    BY <1>3, <1>4, <2>1 DEF InOrder
<1>6. ASSUME NEW c \in Cells, port' = Append(port, c), c.pos = 0 \/ (c.of = cur /\ c.pos = at)
      PROVE  InOrder'
  <2> DEFINE n == Len(Hand) + 1
  <2>1. /\ DOMAIN Hand' = 1 .. n /\ n \in Nat
        /\ \A i \in 1 .. n : i = n \/ i \in DOMAIN Hand
        /\ \A i \in DOMAIN Hand : Hand'[i] = Hand[i]
        /\ Hand'[n] = c
    BY <1>2, <1>6, HandAppended
  <2> HIDE DEF n
  <2>2. c.pos > 0 => c.of = Coming.of /\ c.pos = Coming.pos
    BY <1>6 DEF Coming, Place
  <2>3. ASSUME NEW i \in 1 .. n, NEW j \in 1 .. n, i < j, Hand'[i].pos > 0, Hand'[j].pos > 0
        PROVE  Precedes(Hand'[i], Hand'[j])
    <3>1. i \in DOMAIN Hand /\ Hand'[i] = Hand[i]
      BY <1>2, <2>1, <2>3
    <3>2. CASE j = n
      <4>1. Precedes(Hand[i], Coming)
        BY <2>3, <3>1 DEF InOrder
      <4> QED
        BY <2>1, <2>2, <2>3, <3>1, <3>2, <4>1 DEF Precedes
    <3>3. CASE j # n
      <4>1. j \in DOMAIN Hand /\ Hand'[j] = Hand[j]
        BY <2>1, <3>3
      <4> QED
        BY <2>3, <3>1, <4>1 DEF InOrder
    <3> QED
      BY <3>2, <3>3
  <2>4. ASSUME NEW i \in 1 .. n, Hand'[i].pos > 0
        PROVE  Precedes(Place(latest, 1), Hand'[i]) /\ Precedes(Hand'[i], Coming')
    <3>1. CASE i = n
      <4>1. c.of = Coming.of /\ c.pos = Coming.pos
        BY <2>1, <2>2, <2>4, <3>1
      <4>2. Precedes(c, Coming')
        BY <1>1, <4>1 DEF Precedes
      <4>3. Precedes(Place(latest, 1), c)
        BY <4>1 DEF InOrder, Precedes
      <4> QED
        BY <2>1, <3>1, <4>2, <4>3
    <3>2. CASE i # n
      <4>1. i \in DOMAIN Hand /\ Hand'[i] = Hand[i]
        BY <2>1, <3>2
      <4> QED
        BY <1>3, <2>4, <4>1 DEF InOrder
    <3> QED
      BY <3>1, <3>2
  <2> QED
    BY <1>4, <2>1, <2>3, <2>4 DEF InOrder
<1>7. CASE \E c \in Cells : port' = Append(port, c) /\ (c.pos = 0 \/ (c.of = cur /\ c.pos = at))
  <2>1. PICK c \in Cells : port' = Append(port, c) /\ (c.pos = 0 \/ (c.of = cur /\ c.pos = at))
    BY <1>7
  <2> QED
    BY <1>6, <2>1
<1> QED
  BY <1>5, <1>7
-----------------------------------------------------------------------------
(* A clean line.                                                           *)

\* The byte to come moves on by one.
LEMMA FollowsNext ==
  ASSUME Typed, Advance, NEW a, a.pos \in Nat, FrameLen(a.of) \in Nat, NEW d \in Nat,
         Follows(a, Coming, d)
  PROVE  Follows(a, Coming', d + 1)
<1>1. at \in Nat /\ FrameLen(cur) \in Nat /\ at <= FrameLen(cur)
  <2>1. cur.len \in Nat
    BY Sizes DEF Typed
  <2> QED
    BY <2>1, FrameLenNat DEF Typed
<1>2. Coming.of = cur /\ Coming.pos = at /\ Coming'.of = cur' /\ Coming'.pos = at'
  BY DEF Coming, Place
<1>3. ASSUME a.pos + (d + 1) <= FrameLen(a.of)
      PROVE  cur' = a.of /\ at' = a.pos + (d + 1)
  <2>1. cur = a.of /\ at = a.pos + d
    BY <1>2, <1>3 DEF Follows
  <2>2. at < FrameLen(cur)
    BY <1>1, <1>3, <2>1
  <2> QED
    BY <2>1, <2>2 DEF Advance
<1>4. ASSUME a.pos + (d + 1) = FrameLen(a.of) + 1
      PROVE  cur' \in FramesAfter(a.of) /\ at' = 1
  <2>1. cur = a.of /\ at = a.pos + d
    BY <1>2, <1>4 DEF Follows
  <2>2. ~(at < FrameLen(cur))
    BY <1>1, <1>4, <2>1
  <2> QED
    BY <2>1, <2>2 DEF Advance
<1> QED
  BY <1>2, <1>3, <1>4 DEF Follows

\* It is followed by the next one.
LEMMA FollowsSent ==
  ASSUME Typed, Advance, NEW a, a.of = cur, a.pos = at
  PROVE  Follows(a, Coming', 1)
<1>1. at \in Nat /\ FrameLen(cur) \in Nat
  <2>1. cur.len \in Nat
    BY Sizes DEF Typed
  <2> QED
    BY <2>1, FrameLenNat DEF Typed
<1>2. Coming'.of = cur' /\ Coming'.pos = at'
  BY DEF Coming, Place
<1>3. CASE at < FrameLen(cur)
  <2>1. at' = at + 1 /\ cur' = cur
    BY <1>3 DEF Advance
  <2>2. at + 1 # FrameLen(cur) + 1
    BY <1>1, <1>3
  <2> QED
    BY <1>2, <2>1, <2>2 DEF Follows
<1>4. CASE ~(at < FrameLen(cur))
  <2>1. at' = 1 /\ cur' \in FramesAfter(cur)
    BY <1>4 DEF Advance
  <2>2. ~(at + 1 <= FrameLen(cur))
    BY <1>1, <1>4
  <2> QED
    BY <1>2, <2>1, <2>2 DEF Follows
<1> QED
  BY <1>3, <1>4

\* Sending leaves no gap.
LEMMA GaplessSent ==
  ASSUME Typed, Gapless, Advance, UNCHANGED <<buf, latest>>,
         NEW c \in Cells, c.of = cur, c.pos = at, c.val \in Sent(cur, at),
         port' = Append(port, c)
  PROVE  Gapless'
<1> DEFINE n == Len(Hand) + 1
<1>1. /\ DOMAIN Hand = 1 .. Len(Hand) /\ Len(Hand) \in Nat
      /\ Hand \in Seq(Cells) /\ \A i \in 1 .. Len(Hand) : Hand[i] \in Cells
  BY HandTyped, LenProperties
<1>2. /\ DOMAIN Hand' = 1 .. n /\ n \in Nat /\ Len(Hand') = n
      /\ \A i \in 1 .. n : i = n \/ i \in DOMAIN Hand
      /\ \A i \in DOMAIN Hand : Hand'[i] = Hand[i]
      /\ Hand'[n] = c
  BY <1>1, HandAppended
<1>3. ASSUME NEW i \in DOMAIN Hand PROVE Hand[i].pos \in Nat /\ FrameLen(Hand[i].of) \in Nat
  BY <1>1, CellTyped
<1>4. ASSUME NEW i \in 1 .. n
      PROVE  /\ Hand'[i].pos \in 1 .. FrameLen(Hand'[i].of)
             /\ Hand'[i].of.len \in VisionLens \cup OtherLens
             /\ Hand'[i].val \in Sent(Hand'[i].of, Hand'[i].pos)
             /\ Follows(Hand'[i], Coming', n + 1 - i)
  <2>1. CASE i = n
    <3>1. Follows(c, Coming', 1)
      BY FollowsSent
    <3>2. n + 1 - i = 1
      BY <1>2, <2>1
    <3> QED
      BY <1>2, <2>1, <3>1, <3>2 DEF Typed
  <2>2. CASE i # n
    <3>1. i \in DOMAIN Hand /\ Hand'[i] = Hand[i]
      BY <1>2, <2>2
    <3>2. Follows(Hand[i], Coming, Len(Hand) + 1 - i) /\ Len(Hand) + 1 - i \in Nat
      BY <1>1, <3>1 DEF Gapless
    <3>3. Follows(Hand[i], Coming', (Len(Hand) + 1 - i) + 1)
      BY <1>3, <3>1, <3>2, FollowsNext
    <3>4. (Len(Hand) + 1 - i) + 1 = n + 1 - i
      BY <1>1
    <3> QED
      BY <3>1, <3>3, <3>4 DEF Gapless
  <2> QED
    BY <2>1, <2>2
<1>5. ASSUME NEW i \in 1 .. n, NEW j \in 1 .. n, i < j
      PROVE  Follows(Hand'[i], Hand'[j], j - i)
  <2>1. i \in DOMAIN Hand /\ Hand'[i] = Hand[i]
    BY <1>1, <1>2, <1>5
  <2>2. CASE j = n
    <3>1. Follows(Hand[i], Coming, Len(Hand) + 1 - i)
      BY <2>1 DEF Gapless
    <3>2. Hand'[j].of = Coming.of /\ Hand'[j].pos = Coming.pos
      BY <1>2, <2>2 DEF Coming, Place
    <3> QED
      BY <2>1, <2>2, <3>1, <3>2 DEF Follows
  <2>3. CASE j # n
    <3>1. j \in DOMAIN Hand /\ Hand'[j] = Hand[j]
      BY <1>2, <2>3
    <3> QED
      BY <1>5, <2>1, <3>1 DEF Gapless
  <2> QED
    BY <2>2, <2>3
<1>6. /\ Hand' # <<>> /\ Hand'[1].pos = 1
      /\ Hand'[1].of.ord = latest'.ord + (IF Hand'[1].of.vision THEN 1 ELSE 0)
  <2>1. CASE Hand = <<>>
    <3>1. n = 1 /\ at = 1 /\ Awaited(cur)
      BY <2>1 DEF Gapless
    <3>2. Hand'[1] = c
      BY <1>2, <3>1
    <3> QED
      BY <1>2, <3>1, <3>2 DEF Awaited
  <2>2. CASE Hand # <<>>
    <3>1. 1 \in DOMAIN Hand /\ Hand[1].pos = 1 /\ Awaited(Hand[1].of)
      BY <1>1, <2>2, EmptySeq DEF Gapless
    <3>2. Hand'[1] = Hand[1] /\ 1 \in DOMAIN Hand'
      BY <1>1, <1>2, <3>1
    <3> QED
      BY <3>1, <3>2 DEF Awaited
  <2> QED
    BY <2>1, <2>2
<1> HIDE DEF n
<1> QED
  BY <1>2, <1>4, <1>5, <1>6 DEF Gapless, Awaited

\* What a frame has at its fixed places.
LEMMA SentPlaces ==
  ASSUME NEW f, f.len \in Nat
  PROVE  /\ Sent(f, 1) = {Sof} /\ Sent(f, 2) = {f.len}
         /\ \A i \in FrameLen(f) - TailLen + 1 .. FrameLen(f) : Sent(f, i) = {End}
<1>1. /\ FrameLen(f) \in Nat /\ TailLen \in Nat /\ FrameLen(f) - TailLen >= 3
  BY FrameLenNat, Sizes
<1> DEFINE l == FrameLen(f) - TailLen
<1>2. l \in Int /\ ~(1 > l) /\ ~(2 > l)
  BY <1>1
<1>3. Sent(f, 1) = {Sof}
  BY <1>2 DEF Sent
<1>4. Sent(f, 2) = {f.len}
  BY <1>2 DEF Sent
<1>5. ASSUME NEW i \in l + 1 .. FrameLen(f) PROVE Sent(f, i) = {End}
  <2>1. i > l /\ i # 1 /\ i # 2
    BY <1>1
  <2> QED
    BY <2>1 DEF Sent
<1> QED
  BY <1>3, <1>4, <1>5

\* On a clean line the parser finds the first frame where the buffer begins;
\* it matches, and fits into the buffer.
LEMMA CleanWork ==
  ASSUME Typed, Gapless
  PROVE  /\ Work = buf
         /\ ~Complete(Work) => Len(Work) <= MaxBuf
         /\ Complete(Work) => /\ ChecksumsMatch(Work) /\ TailMatches(Work)
                              /\ Total(Work[2].val) = FrameLen(Hand[1].of)
                              /\ Len(Work) >= HeaderLen /\ Len(Work) >= Total(Work[2].val)
<1>1. /\ buf \in Seq(Cells) /\ Len(buf) \in Nat /\ Len(buf) <= Len(Hand)
      /\ DOMAIN Hand = 1 .. Len(Hand) /\ Len(Hand) \in Nat
      /\ \A i \in 1 .. Len(buf) : Hand[i] = buf[i] /\ buf[i] \in Cells
  BY HandTyped DEF Typed, TypeOK
<1>2. HeaderLen \in Nat /\ HeaderLen >= 2 /\ HeaderLen <= MaxBuf /\ MaxBuf \in Nat
  <2>1. PICK len \in VisionLens \cup OtherLens : Total(len) <= MaxBuf
    BY ParserAssumption, SizeAssumption
  <2>2. len \in Nat
    BY Sizes
  <2> QED
    BY <2>1, <2>2, Sizes DEF Total
<1>3. CASE Len(buf) < HeaderLen
  <2>1. Work = buf
    BY <1>3 DEF Work
  <2>2. ~Complete(Work)
    BY <1>1, <1>2, <1>3, <2>1 DEF Complete
  <2> QED
    BY <1>1, <1>2, <1>3, <2>1, <2>2
<1>4. CASE ~(Len(buf) < HeaderLen)
  <2> DEFINE f == Hand[1].of
             total == FrameLen(f)
  <2>1. 1 \in 1 .. Len(buf) /\ 2 \in 1 .. Len(buf) /\ 1 \in DOMAIN Hand /\ Hand # <<>>
    BY <1>1, <1>2, <1>4, EmptySeq
  <2>2. /\ Hand[1].pos = 1 /\ f.len \in VisionLens \cup OtherLens
        /\ Hand[1].val \in Sent(f, 1)
    BY <2>1 DEF Gapless
  <2>3. /\ f.len \in Nat /\ total \in Nat /\ total = Total(f.len) /\ total <= MaxBuf
        /\ TailLen \in Nat /\ total - TailLen >= 3
    <3>1. f.len \in Nat
      BY <2>2, Sizes
    <3> QED
      BY <2>2, <3>1, FrameLenNat, SizeAssumption, Sizes
  <2>4. Work = buf
    <3> DEFINE sofs == {i \in 1 .. Len(buf) : buf[i].val = Sof}
    <3>1. buf[1].val = Sof
      BY <1>1, <2>1, <2>2, <2>3, SentPlaces
    <3>2. sofs \in SUBSET Nat /\ 1 \in sofs
      BY <1>1, <2>1, <3>1
    <3>3. Min(sofs) \in sofs /\ Min(sofs) <= 1
      BY <3>2, MinIsLeast
    <3>4. Min(sofs) = 1
      BY <3>3
    <3>5. Work = From(buf, Min(sofs))
      BY <1>4, <3>2 DEF Work, Resynced
    <3> HIDE DEF sofs
    <3> QED
      BY <1>1, <3>4, <3>5, SubSeqFull DEF From
  <2>5. ASSUME NEW i \in 1 .. Len(buf), i <= total
        PROVE  /\ buf[i].of = f /\ buf[i].pos = i /\ buf[i].val \in Sent(f, i)
    <3>1. i \in DOMAIN Hand /\ Hand[i] = buf[i]
      BY <1>1
    <3>2. CASE i = 1
      BY <2>2, <3>1, <3>2
    <3>3. CASE i # 1
      <4>1. Follows(Hand[1], Hand[i], i - 1)
        <5>1. \A j \in DOMAIN Hand : 1 < j => Follows(Hand[1], Hand[j], j - 1)
          BY <2>1 DEF Gapless
        <5>2. 1 < i
          BY <1>1, <3>3
        <5> QED
          BY <3>1, <5>1, <5>2
      <4>2. 1 + (i - 1) = i
        OBVIOUS
      <4>3. Hand[i].of = f /\ Hand[i].pos = i
        BY <2>2, <2>5, <4>1, <4>2 DEF Follows
      <4> QED
        BY <3>1, <4>3 DEF Gapless
    <3> QED
      BY <3>2, <3>3
  <2>6. Total(Work[2].val) = total
    <3>1. buf[2].val \in Sent(f, 2)
      BY <2>1, <2>3, <2>5
    <3> QED
      BY <2>3, <2>4, <3>1, SentPlaces
  <2>7. CASE ~Complete(Work)
    <3>1. ~(Len(buf) >= total)
      BY <1>4, <1>1, <1>2, <2>4, <2>6, <2>7 DEF Complete
    <3> HIDE DEF total
    <3>2. Len(Work) <= MaxBuf
      BY <1>1, <1>2, <2>3, <2>4, <3>1
    <3> QED
      BY <2>4, <2>7, <3>2
  <2>8. CASE Complete(Work)
    <3>1. Len(buf) >= total
      BY <2>4, <2>6, <2>8 DEF Complete
    <3> HIDE DEF f, total
    <3>2. ChecksumsMatch(Work)
      <4>1. buf[1].of = f /\ FrameLen(f) = total
        BY <2>1, <2>3, <2>5 DEF total
      <4>2. \A i \in 1 .. total - TailLen : buf[i].of = f /\ buf[i].pos = i
        BY <1>1, <2>3, <2>5, <3>1
      <4> QED
        BY <2>4, <2>6, <4>1, <4>2 DEF ChecksumsMatch
    <3>3. TailMatches(Work)
      <4>1. ASSUME NEW i \in 1 .. TailLen PROVE buf[total - TailLen + i].val = End
        <5> DEFINE j == total - TailLen + i
        <5>1. j \in 1 .. Len(buf) /\ j <= total /\ j \in total - TailLen + 1 .. total
          BY <1>1, <2>3, <3>1
        <5> HIDE DEF j
        <5>2. buf[j].val \in Sent(f, j)
          BY <2>5, <5>1
        <5>3. Sent(f, j) = {End}
          BY <2>3, <5>1, SentPlaces DEF total
        <5> QED
          BY <5>2, <5>3 DEF j
      <4> QED
        BY <2>4, <2>6, <4>1 DEF TailMatches
    <3> QED
      BY <1>1, <1>4, <2>4, <2>6, <2>8, <3>1, <3>2, <3>3 DEF f, total, Complete
  <2> QED
    BY <2>4, <2>7, <2>8
<1> QED
  BY <1>3, <1>4

\* A whole frame leaves no gap behind.
LEMMA GaplessAccepted ==
  ASSUME Typed, Gapless, NEW f, Hand # <<>>, f = Hand[1].of,
         FrameLen(f) \in Nat, FrameLen(f) + 1 \in 1 .. Len(buf) + 1, FrameLen(f) >= 1,
         buf' = From(buf, FrameLen(f) + 1), port' = port, UNCHANGED <<cur, at>>,
         latest' = IF f.vision THEN f ELSE latest
  PROVE  Gapless'
<1> DEFINE m == FrameLen(f) + 1
<1>1. /\ DOMAIN Hand' = 1 .. Len(Hand') /\ Len(Hand') = Len(Hand) - m + 1
      /\ Hand' \in Seq(Cells)
      /\ \A i \in 1 .. Len(Hand') : i + m - 1 \in 1 .. Len(Hand) /\ Hand'[i] = Hand[i + m - 1]
  BY HandDropped
<1>2. /\ DOMAIN Hand = 1 .. Len(Hand) /\ Len(Hand) \in Nat /\ Hand \in Seq(Cells)
      /\ \A i \in 1 .. Len(Hand) : Hand[i] \in Cells
  BY HandTyped, LenProperties
<1>3. m \in Nat /\ m >= 2
  <2>1. Len(buf) \in Nat
    BY HandTyped
  <2> QED
    BY <2>1
<1>4. Coming' = Coming
  BY DEF Coming, Place
<1>5. /\ 1 \in DOMAIN Hand /\ Hand[1].pos = 1
      /\ f.ord = latest.ord + (IF f.vision THEN 1 ELSE 0)
  BY <1>2, EmptySeq DEF Gapless, Awaited
<1> HIDE DEF m
<1>6. ASSUME NEW i \in 1 .. Len(Hand')
      PROVE  /\ Hand'[i].pos \in 1 .. FrameLen(Hand'[i].of)
             /\ Hand'[i].of.len \in VisionLens \cup OtherLens
             /\ Hand'[i].val \in Sent(Hand'[i].of, Hand'[i].pos)
             /\ Follows(Hand'[i], Coming, Len(Hand') + 1 - i)
             /\ \A j \in 1 .. Len(Hand') : i < j => Follows(Hand'[i], Hand'[j], j - i)
  <2>1. /\ i + m - 1 \in DOMAIN Hand /\ Hand'[i] = Hand[i + m - 1]
        /\ Len(Hand) + 1 - (i + m - 1) = Len(Hand') + 1 - i
    BY <1>1, <1>2, <1>3
  <2>2. ASSUME NEW j \in 1 .. Len(Hand'), i < j
        PROVE  Follows(Hand'[i], Hand'[j], j - i)
    <3>1. /\ j + m - 1 \in DOMAIN Hand /\ Hand'[j] = Hand[j + m - 1]
          /\ i + m - 1 < j + m - 1 /\ (j + m - 1) - (i + m - 1) = j - i
      BY <1>1, <1>2, <1>3, <2>2
    <3>2. Follows(Hand[i + m - 1], Hand[j + m - 1], (j + m - 1) - (i + m - 1))
      BY <2>1, <3>1 DEF Gapless
    <3> QED
      BY <2>1, <3>1, <3>2
  <2>3. Follows(Hand[i + m - 1], Coming, Len(Hand) + 1 - (i + m - 1))
    BY <2>1 DEF Gapless
  <2> QED
    BY <2>1, <2>2, <2>3 DEF Gapless
<1>7. ASSUME NEW g \in FramesAfter(f)
      PROVE  g.ord = latest'.ord + (IF g.vision THEN 1 ELSE 0)
  <2>1. f.ord \in Nat /\ latest.ord \in Nat /\ f.vision \in BOOLEAN
    <3>1. f \in FrameTypes(MaxFrames)
      BY <1>2, <1>5, CellTyped
    <3> QED
      BY <3>1, Sizes DEF FrameTypes, Typed
  <2>2. latest'.ord = f.ord
    BY <1>5, <2>1
  <2>3. (g.vision = TRUE /\ g.ord = f.ord + 1) \/ (g.vision = FALSE /\ g.ord = f.ord)
    BY DEF FramesAfter
  <2> QED
    BY <2>1, <2>2, <2>3
<1>8. CASE Hand' = <<>>
  <2>1. Len(Hand) = m - 1
    BY <1>1, <1>2, <1>3, <1>8
  <2>2. Follows(Hand[1], Coming, Len(Hand) + 1 - 1)
    BY <1>5 DEF Gapless
  <2>3. 1 + (Len(Hand) + 1 - 1) = FrameLen(f) + 1
    BY <1>2, <1>3, <2>1 DEF m
  <2>4. cur \in FramesAfter(f) /\ at = 1
    BY <1>5, <2>2, <2>3 DEF Follows, Coming, Place
  <2>5. cur.ord = latest'.ord + (IF cur.vision THEN 1 ELSE 0)
    BY <1>7, <2>4
  <2> QED
    BY <1>1, <1>4, <1>6, <1>8, <2>4, <2>5 DEF Gapless, Awaited
<1>9. CASE Hand' # <<>>
  <2>1. 1 \in 1 .. Len(Hand')
    BY <1>1, <1>9, EmptySeq, LenProperties
  <2>2. m \in DOMAIN Hand /\ Hand'[1] = Hand[m]
    BY <1>1, <1>2, <1>3, <2>1
  <2>3. Follows(Hand[1], Hand[m], m - 1)
    <3>1. \A j \in DOMAIN Hand : 1 < j => Follows(Hand[1], Hand[j], j - 1)
      BY <1>5 DEF Gapless
    <3> QED
      BY <1>3, <2>2, <3>1
  <2>4. 1 + (m - 1) = FrameLen(f) + 1
    BY <1>3 DEF m
  <2>5. Hand[m].of \in FramesAfter(f) /\ Hand[m].pos = 1
    BY <1>5, <2>3, <2>4 DEF Follows
  <2>6. Hand'[1].of.ord = latest'.ord + (IF Hand'[1].of.vision THEN 1 ELSE 0)
    BY <1>7, <2>2, <2>5
  <2> QED
    BY <1>1, <1>4, <1>6, <1>9, <2>2, <2>5, <2>6 DEF Gapless, Awaited
<1> QED
  BY <1>8, <1>9
-----------------------------------------------------------------------------
(* The steps.                                                              *)

LEMMA NoFrameTyped ==
  NoFrame \in FrameTypes(MaxFrames) /\ NoFrame.id = 0 /\ NoFrame.ord = 0
<1>1. PICK no \in BOOLEAN : no = FALSE
  OBVIOUS
<1>2. NoFrame = [id |-> 0, ord |-> 0, vision |-> no, len |-> 0]
  BY <1>1, Zenon DEF NoFrame
<1> QED
  BY <1>2, Sizes DEF FrameTypes

\* A byte as it is sent.
LEMMA SentTyped ==
  ASSUME Typed, cur.id <= MaxFrames, NEW v \in Sent(cur, at)
  PROVE  [of |-> cur, pos |-> at, val |-> v] \in Cells
<1>1. cur.len \in Nat /\ cur.len \in Bytes /\ at \in Nat
  <2>1. cur.len \in Nat /\ cur.len \in Bytes
    BY Sizes DEF Typed
  <2>2. FrameLen(cur) \in Nat
    BY <2>1, FrameLenNat
  <2> QED
    BY <2>1, <2>2 DEF Typed
<1>2. v \in Bytes
  BY <1>1, ParserAssumption DEF Sent
<1>3. cur \in FrameTypes(MaxFrames)
  <2>1. cur \in FrameTypes(MaxFrames + 1) /\ cur.ord <= cur.id
    BY DEF Typed
  <2>2. cur.id \in 0 .. MaxFrames /\ cur.ord \in 0 .. MaxFrames
    BY <2>1, Sizes DEF FrameTypes
  <2> QED
    BY <2>1, <2>2 DEF FrameTypes
<1> QED
  BY <1>1, <1>2, <1>3 DEF Cells, FrameTypes

LEMMA LineTyped ==
  ASSUME Typed, Sending, Advance, UNCHANGED parserVars,
         port' = port \/ \E c \in Cells : port' = Append(port, c),
         faults' \in 0 .. MaxFaults, embedded' \in 0 .. MaxEmbedded
  PROVE  Typed'
<1>1. port' \in Seq(Cells) /\ Len(port') <= PortCap
  <2>1. CASE port' = port
    BY <2>1 DEF Typed, TypeOK
  <2>2. ASSUME NEW c \in Cells, port' = Append(port, c)
        PROVE  port' \in Seq(Cells) /\ Len(port') <= PortCap
    <3>1. port' \in Seq(Cells) /\ Len(port') = Len(port) + 1 /\ Len(port) \in Nat
      BY <2>2, HandAppended, HandTyped DEF parserVars
    <3> QED
      BY <3>1, Sizes DEF Sending
  <2> QED
    BY <2>1, <2>2
<1>2. cur.id <= MaxFrames
  BY DEF Sending
<1>3. /\ cur' \in FrameTypes(MaxFrames + 1) /\ cur'.ord <= cur'.id
      /\ cur'.len \in VisionLens \cup OtherLens
      /\ at' \in 1 .. FrameLen(cur')
  BY <1>2, AdvanceStep
<1>4. /\ buf' = buf /\ parsing' = parsing /\ latest' = latest
      /\ visionSeq' = visionSeq /\ errCount' = errCount
  BY DEF parserVars
<1> QED
  BY <1>1, <1>3, <1>4 DEF Typed, TypeOK

LEMMA TransmitKeeps ==
  ASSUME ParserInv, Transmit
  PROVE  ParserInv'
<1>1. Typed /\ InOrder /\ Sending /\ Advance /\ cur.id <= MaxFrames
  BY DEF ParserInv, Transmit, Sending
<1>2. /\ buf' = buf /\ latest' = latest /\ visionSeq' = visionSeq
      /\ errCount' = errCount /\ faults' = faults /\ UNCHANGED parserVars
  BY DEF Transmit, parserVars
<1>3. PICK v \in Sent(cur, at) :
        /\ port' = Append(port, [of |-> cur, pos |-> at, val |-> v])
        /\ embedded' = IF v = Sof /\ at # 1 THEN embedded + 1 ELSE embedded
  BY DEF Transmit
<1> DEFINE c == [of |-> cur, pos |-> at, val |-> v]
<1>4. c \in Cells /\ c.of = cur /\ c.pos = at /\ c.val \in Sent(cur, at) /\ port' = Append(port, c)
  BY <1>1, <1>3, SentTyped
<1> HIDE DEF c
<1>5. Typed'
  <2>1. faults' \in 0 .. MaxFaults /\ embedded \in Nat /\ embedded' <= MaxEmbedded
    BY <1>1, <1>2, Sizes DEF Typed, TypeOK, Transmit
  <2>2. embedded' \in 0 .. MaxEmbedded
    BY <1>3, <2>1, Sizes
  <2> QED
    BY <1>1, <1>2, <1>4, <2>1, <2>2, LineTyped
<1>6. InOrder'
  BY <1>1, <1>2, <1>4, OrderSent
<1>7. CleanLineInStep'
  BY <1>2 DEF ParserInv, CleanLineInStep
<1>8. faults' = 0 => Gapless'
  <2> SUFFICES ASSUME faults' = 0 PROVE Gapless'
    OBVIOUS
  <2>1. Gapless
    BY <1>2 DEF ParserInv
  <2> QED
    BY <1>1, <1>2, <1>4, <2>1, GaplessSent
<1> QED
  BY <1>5, <1>6, <1>7, <1>8 DEF ParserInv

\* A byte is damaged or lost: from then on the line is not clean.
LEMMA FaultKeeps ==
  ASSUME ParserInv, Damage \/ Lose
  PROVE  ParserInv'
<1>1. /\ Typed /\ InOrder /\ Sending /\ Advance /\ cur.id <= MaxFrames
      /\ faults < MaxFaults /\ faults' = faults + 1 /\ embedded' = embedded
      /\ UNCHANGED parserVars /\ UNCHANGED <<buf, latest>>
  BY DEF ParserInv, Damage, Lose, Sending, parserVars
<1>2. port' = port \/ \E c \in Cells : port' = Append(port, c) /\ c.pos = 0
  <2>1. CASE Lose
    BY <2>1 DEF Lose
  <2>2. CASE Damage
    <3>1. PICK w \in Bytes : port' = Append(port, [of |-> NoFrame, pos |-> 0, val |-> w])
      BY <2>2 DEF Damage
    <3> DEFINE c == [of |-> NoFrame, pos |-> 0, val |-> w]
    <3>2. c \in Cells /\ c.pos = 0
      BY NoFrameTyped DEF Cells, FrameTypes
    <3> QED
      BY <3>1, <3>2
  <2> QED
    BY <2>1, <2>2
<1>3. faults \in 0 .. MaxFaults /\ embedded \in 0 .. MaxEmbedded
  BY <1>1 DEF Typed, TypeOK
<1>4. faults' \in 0 .. MaxFaults /\ faults' # 0 /\ embedded' \in 0 .. MaxEmbedded
  BY <1>1, <1>3, Sizes
<1>5. Typed'
  BY <1>1, <1>2, <1>4, LineTyped
<1>6. InOrder'
  BY <1>1, <1>2, OrderSent
<1> QED
  BY <1>4, <1>5, <1>6 DEF ParserInv, CleanLineInStep

LEMMA FeedKeeps ==
  ASSUME ParserInv, Feed
  PROVE  ParserInv'
<1>1. PICK n \in 1 .. Len(port) :
        buf' = buf \o SubSeq(port, 1, n) /\ port' = SubSeq(port, n + 1, Len(port))
  BY DEF Feed
<1>2. /\ Typed /\ parsing' = TRUE /\ cur' = cur /\ at' = at /\ faults' = faults
      /\ embedded' = embedded /\ latest' = latest /\ visionSeq' = visionSeq
      /\ errCount' = errCount
  BY DEF Feed, ParserInv, lineVars
<1>3. /\ Hand' = Hand /\ buf' \in Seq(Cells)
      /\ port' \in Seq(Cells) /\ Len(port') <= Len(port)
  BY <1>1, <1>2, HandFed
<1>4. Typed'
  <2>1. Len(port) <= PortCap /\ Len(port) \in Nat /\ Len(port') \in Nat /\ PortCap \in Nat
    BY <1>2, <1>3, HandTyped, LenProperties, Sizes DEF Typed, TypeOK
  <2>2. Len(port') <= PortCap
    BY <1>3, <2>1
  <2>3. parsing' \in BOOLEAN /\ (~parsing' => Len(buf') <= MaxBuf)
    BY <1>2
  <2> QED
    BY <1>2, <1>3, <2>2, <2>3 DEF Typed, TypeOK
<1>5. Coming' = Coming
  BY <1>2 DEF Coming, Place
<1>6. InOrder'
  BY <1>2, <1>3, <1>5 DEF ParserInv, InOrder
<1>7. faults' = 0 => Gapless'
  <2>1. Gapless => Gapless'
    BY <1>2, <1>3, <1>5 DEF Gapless, Awaited
  <2> QED
    BY <1>2, <2>1 DEF ParserInv
<1> QED
  BY <1>2, <1>4, <1>6, <1>7 DEF ParserInv, CleanLineInStep

LEMMA StopParsingKeeps ==
  ASSUME ParserInv, StopParsing
  PROVE  ParserInv'
<1>1. /\ Typed /\ InOrder /\ parsing' = FALSE /\ port' = port /\ cur' = cur /\ at' = at
      /\ faults' = faults /\ embedded' = embedded /\ latest' = latest
      /\ visionSeq' = visionSeq
  BY DEF StopParsing, ParserInv, lineVars
<1>2. PICK k \in 1 .. Len(buf) + 1 : Work = From(buf, k)
  BY <1>1, WorkIsEnd
<1>3. /\ buf \in Seq(Cells) /\ Len(buf) \in Nat
  BY <1>1, HandTyped DEF Typed, TypeOK
<1>4. From(buf, Len(buf) + 1) = <<>>
  BY <1>3, SubSeqEmpty DEF From
<1>5. \/ buf' = Work /\ errCount' = errCount /\ Len(Work) <= MaxBuf
      \/ buf' = <<>> /\ errCount' = errCount + 1 /\ ~(Len(Work) <= MaxBuf)
  <2>1. Work \in Seq(Cells) /\ Len(Work) \in Nat
    BY <1>2, <1>3, FromProperties, LenProperties
  <2> QED
    BY <2>1, Sizes DEF StopParsing
<1>6. PICK m \in 1 .. Len(buf) + 1 : buf' = From(buf, m)
  <2>1. Len(buf) + 1 \in 1 .. Len(buf) + 1
    BY <1>3
  <2> QED
    BY <1>2, <1>4, <1>5, <2>1
<1>7. Typed'
  <2>1. buf' \in Seq(Cells)
    BY <1>1, <1>6, HandDropped
  <2>2. Len(buf') <= MaxBuf
    BY <1>5, Sizes
  <2>3. errCount' \in Nat
    BY <1>1, <1>5 DEF Typed, TypeOK
  <2>4. parsing' \in BOOLEAN
    BY <1>1
  <2> QED
    BY <1>1, <2>1, <2>2, <2>3, <2>4 DEF Typed, TypeOK
<1>8. InOrder'
  BY <1>1, <1>6, OrderKept
<1>9. ASSUME faults' = 0 PROVE CleanLineInStep' /\ Gapless'
  <2>1. Gapless /\ CleanLineInStep
    BY <1>1, <1>9 DEF ParserInv
  <2>2. Work = buf /\ Len(Work) <= MaxBuf
    <3>1. ~Complete(Work)
      BY DEF StopParsing
    <3> QED
      BY <1>1, <2>1, <3>1, CleanWork
  <2>3. buf' = buf /\ errCount' = errCount
    BY <1>5, <2>2
  <2>4. Hand' = Hand /\ Coming' = Coming
    BY <1>1, <2>3 DEF Hand, Coming, Place
  <2> QED
    BY <1>1, <2>1, <2>3, <2>4 DEF Gapless, Awaited, CleanLineInStep
<1> QED
  BY <1>7, <1>8, <1>9 DEF ParserInv, CleanLineInStep

LEMMA RejectKeeps ==
  ASSUME ParserInv, Reject
  PROVE  ParserInv'
<1>1. /\ Typed /\ InOrder /\ parsing /\ parsing' = parsing /\ port' = port /\ cur' = cur
      /\ at' = at /\ faults' = faults /\ embedded' = embedded /\ latest' = latest
      /\ visionSeq' = visionSeq /\ errCount' = errCount + 1 /\ Complete(Work)
      /\ ~(ChecksumsMatch(Work) /\ TailMatches(Work))
      /\ buf' = From(Work, HeaderLen + 1)
  BY DEF Reject, ParserInv, lineVars
<1>2. PICK k \in 1 .. Len(buf) + 1 : Work = From(buf, k)
  BY <1>1, WorkIsEnd
<1>3. /\ buf \in Seq(Cells) /\ Len(buf) \in Nat
      /\ Len(Work) = Len(buf) - k + 1 /\ Len(Work) >= HeaderLen
  BY <1>1, <1>2, HandTyped, WorkCells DEF Typed, TypeOK
<1>4. PICK m \in 1 .. Len(buf) + 1 : buf' = From(buf, m)
  <2>1. HeaderLen + 1 \in 1 .. Len(buf) - k + 2
    BY <1>3, Sizes
  <2> QED
    BY <1>1, <1>2, <1>3, <2>1, FromFrom
<1>5. Typed'
  <2>1. buf' \in Seq(Cells)
    BY <1>1, <1>4, HandDropped
  <2>2. errCount' \in Nat
    BY <1>1 DEF Typed, TypeOK
  <2> QED
    BY <1>1, <2>1, <2>2 DEF Typed, TypeOK
<1>6. InOrder'
  BY <1>1, <1>4, OrderKept
<1>7. faults' # 0
  <2> SUFFICES ASSUME faults = 0 PROVE FALSE
    BY <1>1
  <2>1. Gapless
    BY DEF ParserInv
  <2> QED
    BY <1>1, <2>1, CleanWork
<1> QED
  BY <1>5, <1>6, <1>7 DEF ParserInv, CleanLineInStep

\* What an accepted frame is: the bytes from the k-th on, the first of them the
\* frame's first.
LEMMA AcceptedFrame ==
  ASSUME Typed, InOrder, Accept
  PROVE  \E k \in 1 .. Len(buf) + 1 : \E m \in k + 1 .. Len(buf) + 1 :
           /\ Work = From(buf, k) /\ m = k + Total(Work[2].val)
           /\ buf' = From(buf, m)
           /\ Hand[k].pos = 1 /\ Hand[k] \in Cells /\ Work[1].of = Hand[k].of
           /\ Precedes(Place(latest, 1), Hand[k])
<1>1. /\ Complete(Work) /\ ChecksumsMatch(Work)
      /\ buf' = From(Work, Total(Work[2].val) + 1)
  BY DEF Accept
<1>2. PICK k \in 1 .. Len(buf) + 1 : Work = From(buf, k)
  BY WorkIsEnd
<1>3. /\ buf \in Seq(Cells) /\ Len(buf) \in Nat /\ Len(buf) <= Len(Hand)
      /\ DOMAIN Hand = 1 .. Len(Hand) /\ Len(Hand) \in Nat
  BY HandTyped DEF Typed, TypeOK
<1>4. /\ Len(Work) = Len(buf) - k + 1 /\ Len(Work) >= HeaderLen
      /\ Work[2].val \in Nat /\ Total(Work[2].val) \in HeaderLen + 1 .. Len(Work)
      /\ \A i \in 1 .. Len(Work) : /\ i + k - 1 \in 1 .. Len(buf)
                                  /\ Work[i] = buf[i + k - 1] /\ Work[i] \in Cells
                                  /\ Work[i] = Hand[i + k - 1]
  BY <1>1, <1>2, WorkCells
<1> DEFINE t == Total(Work[2].val)
<1>5. t \in Nat /\ t >= 1 /\ t - TailLen >= 1
  <2>1. PICK len \in Nat : len = Work[2].val
    BY <1>4
  <2>2. Total(len) \in Nat /\ Total(len) - TailLen >= 3 /\ TailLen \in Nat
    BY TotalNat, Sizes
  <2> QED
    BY <2>1, <2>2
<1>6. 1 \in 1 .. Len(Work) /\ 1 + k - 1 = k
  BY <1>3, <1>4, Sizes
<1>7. Work[1] = Hand[k] /\ Hand[k] \in Cells /\ k \in 1 .. Len(buf)
  <2>1. /\ 1 + k - 1 \in 1 .. Len(buf) /\ Work[1] \in Cells
        /\ Work[1] = Hand[1 + k - 1]
    BY <1>4, <1>6
  <2> QED
    BY <1>6, <2>1
<1>8. Hand[k].pos = 1
  <2>1. 1 \in 1 .. t - TailLen
    BY <1>5, Sizes
  <2>2. Work[1].pos = 1
    BY <1>1, <2>1 DEF ChecksumsMatch
  <2> QED
    BY <1>7, <2>2
<1>9. Precedes(Place(latest, 1), Hand[k])
  <2>1. k \in DOMAIN Hand
    BY <1>3, <1>7
  <2> QED
    BY <1>8, <2>1 DEF InOrder
<1>10. t + 1 \in 1 .. Len(buf) - k + 2 /\ k + (t + 1) - 1 = k + t /\ k + t \in k + 1 .. Len(buf) + 1
  <2>1. PICK l \in Nat : l = Len(buf)
    BY <1>3
  <2>2. k \in 1 .. l + 1 /\ t \in Nat /\ t >= 1 /\ t <= l - k + 1
    BY <1>3, <1>4, <1>5, <2>1
  <2> HIDE DEF t
  <2>3. t + 1 \in 1 .. l - k + 2 /\ k + (t + 1) - 1 = k + t /\ k + t \in k + 1 .. l + 1
    BY <2>2
  <2> QED
    BY <2>1, <2>3
<1>11. buf' = From(buf, k + t)
  <2>1. buf' = From(From(buf, k), t + 1)
    BY <1>1, <1>2
  <2> HIDE DEF t
  <2> QED
    BY <1>3, <1>10, <2>1, FromFrom
<1> QED
  BY <1>2, <1>7, <1>8, <1>9, <1>10, <1>11

\* A VISION frame that is taken is newer than the latest.
LEMMA AcceptedIsNewer ==
  ASSUME Typed, InOrder, Accept, Work[1].of.vision
  PROVE  /\ latest' = Work[1].of /\ latest' \in FrameTypes(MaxFrames)
         /\ latest'.ord \in latest.ord + 1 .. MaxFrames
<1>1. PICK k \in 1 .. Len(buf) + 1 :
        /\ Hand[k].pos = 1 /\ Hand[k] \in Cells /\ Work[1].of = Hand[k].of
        /\ Precedes(Place(latest, 1), Hand[k])
  BY AcceptedFrame
<1>2. latest' = Hand[k].of
  BY <1>1 DEF Accept
<1>3. latest' \in FrameTypes(MaxFrames)
  BY <1>1, <1>2, CellTyped
<1>4. latest'.ord \in 0 .. MaxFrames /\ latest.ord \in Nat
  BY <1>3, Sizes DEF FrameTypes, Typed
<1>5. latest.ord < latest'.ord
  <2>1. Hand[k].of # latest
    BY <1>1 DEF Precedes, Place
  <2>2. Reaches(latest, Hand[k].of)
    BY <1>1 DEF Precedes, Place
  <2> QED
    BY <1>1, <1>2, <2>1, <2>2 DEF Reaches
<1> QED
  BY <1>1, <1>2, <1>3, <1>4, <1>5, Sizes

LEMMA AcceptKeeps ==
  ASSUME ParserInv, Accept
  PROVE  ParserInv'
<1>1. /\ Typed /\ InOrder /\ parsing /\ parsing' = parsing /\ port' = port /\ cur' = cur
      /\ at' = at /\ faults' = faults /\ embedded' = embedded
      /\ errCount' = errCount /\ Complete(Work)
      /\ buf' = From(Work, Total(Work[2].val) + 1)
  BY DEF Accept, ParserInv, lineVars
<1>2. PICK k \in 1 .. Len(buf) + 1 : \E m \in k + 1 .. Len(buf) + 1 :
        /\ Work = From(buf, k) /\ m = k + Total(Work[2].val)
        /\ buf' = From(buf, m)
        /\ Hand[k].pos = 1 /\ Hand[k] \in Cells /\ Work[1].of = Hand[k].of
  BY <1>1, AcceptedFrame
<1>3. PICK m \in k + 1 .. Len(buf) + 1 : buf' = From(buf, m)
  BY <1>2
<1>4. m \in 1 .. Len(buf) + 1 /\ k \in 1 .. m - 1 /\ Len(buf) \in Nat
  BY <1>1, HandTyped
<1>5. \/ Work[1].of.vision /\ latest' = Work[1].of /\ visionSeq' = visionSeq + 1
      \/ ~Work[1].of.vision /\ latest' = latest /\ visionSeq' = visionSeq
  BY DEF Accept
<1>6. Typed'
  <2>1. buf' \in Seq(Cells)
    BY <1>1, <1>3, <1>4, HandDropped
  <2>2. latest' \in FrameTypes(MaxFrames) /\ visionSeq' <= latest'.ord /\ visionSeq' \in Nat
    <3>1. /\ latest \in FrameTypes(MaxFrames) /\ visionSeq <= latest.ord /\ visionSeq \in Nat
          /\ latest.ord \in Nat
      BY <1>1, Sizes DEF Typed, TypeOK, FrameTypes
    <3>2. CASE ~Work[1].of.vision
      BY <1>5, <3>1, <3>2
    <3>3. CASE Work[1].of.vision
      <4>1. /\ latest' \in FrameTypes(MaxFrames)
            /\ latest'.ord \in latest.ord + 1 .. MaxFrames
        BY <1>1, <3>3, AcceptedIsNewer
      <4>2. visionSeq' = visionSeq + 1
        BY <1>5, <3>3
      <4> QED
        BY <3>1, <4>1, <4>2, Sizes
    <3> QED
      BY <3>2, <3>3
  <2>3. visionSeq' \in 0 .. MaxFrames
    <3>1. latest'.ord \in 0 .. MaxFrames
      BY <2>2 DEF FrameTypes
    <3> QED
      BY <2>2, <3>1, Sizes
  <2> QED
    BY <1>1, <2>1, <2>2, <2>3 DEF Typed, TypeOK
<1>7. InOrder'
  <2>1. latest' = latest \/ (Hand[k].pos = 1 /\ latest' = Hand[k].of)
    BY <1>2, <1>5
  <2> QED
    BY <1>1, <1>3, <1>4, <2>1, OrderKept
<1>8. ASSUME faults' = 0 PROVE CleanLineInStep' /\ Gapless'
  <2>1. Gapless /\ errCount = 0 /\ latest.ord = visionSeq
    BY <1>1, <1>8 DEF ParserInv, CleanLineInStep
  <2>2. /\ Work = buf /\ Total(Work[2].val) = FrameLen(Hand[1].of)
        /\ Len(buf) >= HeaderLen /\ Len(buf) >= FrameLen(Hand[1].of)
    BY <1>1, <2>1, CleanWork
  <2>3. /\ 1 \in 1 .. Len(buf) /\ 1 \in 1 .. Len(Hand) /\ Hand[1] = buf[1] /\ Hand # <<>>
        /\ Hand[1] \in Cells
    BY <1>1, <1>4, <2>2, HandTyped, EmptySeq, Sizes
  <2> DEFINE f == Hand[1].of
  <2>4. f.len \in Nat /\ FrameLen(f) \in Nat /\ FrameLen(f) >= 1
    <3>1. f.len \in Nat
      BY <2>3, CellTyped
    <3> QED
      BY <3>1, FrameLenNat, Sizes
  <2>5. Work[1].of = f
    BY <2>2, <2>3
  <2>6. f.ord = latest.ord + (IF f.vision THEN 1 ELSE 0)
    BY <2>1, <2>3 DEF Gapless, Awaited
  <2> HIDE DEF f
  <2>7. latest' = IF f.vision THEN f ELSE latest
    BY <1>5, <2>5
  <2>8. Gapless'
    <3>1. FrameLen(f) + 1 \in 1 .. Len(buf) + 1 /\ buf' = From(buf, FrameLen(f) + 1)
      BY <1>1, <1>4, <2>2, <2>4 DEF f
    <3> QED
      BY <1>1, <2>1, <2>3, <2>4, <2>7, <3>1, GaplessAccepted DEF f
  <2>9. latest'.ord = visionSeq' /\ errCount' = 0
    BY <1>1, <1>5, <2>1, <2>5, <2>6, <2>7
  <2> QED
    BY <2>8, <2>9 DEF CleanLineInStep
<1> QED
  BY <1>6, <1>7, <1>8 DEF ParserInv, CleanLineInStep

LEMMA ParserStarts ==
  ASSUME Init
  PROVE  ParserInv
<1>1. NoFrame \in FrameTypes(MaxFrames) /\ NoFrame.id = 0 /\ NoFrame.ord = 0
  BY NoFrameTyped
<1>2. /\ cur \in FramesAfter(NoFrame) /\ at = 1 /\ port = <<>> /\ buf = <<>>
      /\ parsing = FALSE /\ latest = NoFrame /\ visionSeq = 0 /\ errCount = 0
      /\ faults = 0 /\ embedded = 0
  BY DEF Init
<1>3. /\ cur.id = 1 /\ cur.ord \in {0, 1} /\ (cur.vision => cur.ord = 1)
      /\ cur.len \in VisionLens \cup OtherLens
      /\ cur \in FrameTypes(MaxFrames + 1)
  <2>1. NoFrame.id \in 0 .. MaxFrames /\ NoFrame.ord \in 0 .. NoFrame.id
    BY <1>1, Sizes
  <2> QED
    BY <1>1, <1>2, <2>1, AfterTyped
<1>4. at \in 1 .. FrameLen(cur)
  <2>1. cur.len \in Nat
    BY <1>3, Sizes
  <2>2. FrameLen(cur) \in Nat /\ FrameLen(cur) - TailLen >= 3 /\ TailLen \in Nat
    BY <2>1, FrameLenNat, Sizes
  <2> QED
    BY <1>2, <2>2
<1>5. Hand = <<>> /\ Hand \in Seq(Cells) /\ DOMAIN Hand = {}
  BY <1>2, ConcatEmptySeq DEF Hand
<1>6. Typed
  <2>1. port \in Seq(Cells) /\ buf \in Seq(Cells) /\ Len(port) = 0 /\ Len(buf) = 0
    BY <1>2
  <2>2. parsing \in BOOLEAN
    BY <1>2
  <2>3. cur.ord <= cur.id
    BY <1>3
  <2> QED
    BY <1>1, <1>2, <1>3, <1>4, <2>1, <2>2, <2>3, Sizes DEF Typed, TypeOK
<1>7. InOrder
  <2>1. Precedes(Place(latest, 1), Coming)
    BY <1>1, <1>2, <1>3 DEF Precedes, Reaches, Place, Coming
  <2> QED
    BY <1>5, <2>1 DEF InOrder
<1>8. Gapless
  <2>1. Awaited(cur)
    <3>1. (cur.vision = TRUE /\ cur.ord = NoFrame.ord + 1) \/ (cur.vision = FALSE /\ cur.ord = NoFrame.ord)
      BY <1>2 DEF FramesAfter
    <3> QED
      BY <1>1, <1>2, <3>1 DEF Awaited
  <2> QED
    BY <1>2, <1>5, <2>1 DEF Gapless
<1>9. CleanLineInStep
  BY <1>1, <1>2 DEF CleanLineInStep
<1> QED
  BY <1>6, <1>7, <1>8, <1>9 DEF ParserInv

LEMMA ParserUnchanged ==
  ASSUME ParserInv, UNCHANGED vars
  PROVE  ParserInv'
<1>1. /\ cur' = cur /\ at' = at /\ faults' = faults /\ embedded' = embedded /\ port' = port
      /\ buf' = buf /\ parsing' = parsing /\ latest' = latest /\ visionSeq' = visionSeq
      /\ errCount' = errCount
  BY DEF vars, lineVars, parserVars
<1>2. Hand' = Hand /\ Coming' = Coming
  BY <1>1 DEF Hand, Coming, Place
<1>3. Typed'
  BY <1>1 DEF ParserInv, Typed, TypeOK
<1>4. InOrder' /\ CleanLineInStep'
  BY <1>1, <1>2 DEF ParserInv, InOrder, CleanLineInStep
<1>5. Gapless => Gapless'
  BY <1>1, <1>2 DEF Gapless, Awaited
<1> QED
  BY <1>1, <1>3, <1>4, <1>5 DEF ParserInv
-----------------------------------------------------------------------------
(* The theorems.                                                           *)

\* Every state of the receiver keeps the bytes in hand in sending order, and on
\* a clean line without a gap.
THEOREM ParserInvariant == Spec => []ParserInv
<1>1. Init => ParserInv
  BY ParserStarts
<1>2. ParserInv /\ [Next]_vars => ParserInv'
  <2> SUFFICES ASSUME ParserInv, [Next]_vars PROVE ParserInv'
    OBVIOUS
  <2>1. CASE Transmit
    BY <2>1, TransmitKeeps
  <2>2. CASE Damage \/ Lose
    BY <2>2, FaultKeeps
  <2>3. CASE Feed
    BY <2>3, FeedKeeps
  <2>4. CASE StopParsing
    BY <2>4, StopParsingKeeps
  <2>5. CASE Reject
    BY <2>5, RejectKeeps
  <2>6. CASE Accept
    BY <2>6, AcceptKeeps
  <2>7. CASE UNCHANGED vars
    BY <2>7, ParserUnchanged
  <2> QED
    BY <2>1, <2>2, <2>3, <2>4, <2>5, <2>6, <2>7 DEF Next
<1> QED
  BY <1>1, <1>2, PTL DEF Spec

\* Each variable has its type, and buf_ holds at most MaxBuf bytes whenever
\* feed has let go of the mutex.
THEOREM ParserTypeCorrect == Spec => []TypeOK
<1>1. ParserInv => TypeOK
  BY DEF ParserInv, Typed
<1> QED
  BY <1>1, ParserInvariant, PTL

\* On a clean line no error is counted and every VISION frame is taken, for
\* frames and buffers of any size.
THEOREM ParserCleanLineInStep == Spec => []CleanLineInStep
<1>1. ParserInv => CleanLineInStep
  BY DEF ParserInv
<1> QED
  BY <1>1, ParserInvariant, PTL

\* What a step shows to the reader: nothing, or a newer frame taken.
LEMMA StepShows ==
  ASSUME ParserInv, [Next]_vars
  PROVE  \/ UNCHANGED <<latest, visionSeq>>
         \/ latest'.ord \in latest.ord + 1 .. MaxFrames /\ visionSeq' = visionSeq + 1
<1>1. CASE Accept
  <2>1. CASE Work[1].of.vision
    BY <1>1, <2>1, AcceptedIsNewer DEF ParserInv, Accept
  <2>2. CASE ~Work[1].of.vision
    BY <1>1, <2>2 DEF Accept
  <2> QED
    BY <2>1, <2>2
<1>2. CASE Transmit \/ Damage \/ Lose \/ Feed \/ StopParsing \/ Reject \/ UNCHANGED vars
  BY <1>2 DEF Transmit, Damage, Lose, Feed, StopParsing, Reject, vars, parserVars
<1> QED
  BY <1>1, <1>2 DEF Next

\* The receiver implements the source of frames its reader is promised.
THEOREM ParserImplementsSource == Spec => ImplementsSource
<1>1. Init => Source!SourceInit
  BY NoFrameTyped DEF Init, Source!SourceInit
<1>2. ParserInv /\ [Next]_vars => [Source!Take]_(Source!sourceVars)
  BY StepShows DEF Source!Take, Source!sourceVars
<1> QED
  BY <1>1, <1>2, ParserInvariant, PTL DEF Spec, ImplementsSource, Source!SourceSpec
-----------------------------------------------------------------------------
(* Counting.                                                               *)

\* Whole numbers of frames in a number of bytes.
LEMMA Quotients ==
  ASSUME NEW T \in Nat \ {0}, NEW a \in Nat, NEW b \in Nat
  PROVE  /\ a \div T \in Nat /\ (a + T) \div T = (a \div T) + 1
         /\ (a + b) \div T <= (a \div T) + (b \div T) + 1
         /\ (a <= b => a \div T <= b \div T)
<1>1. a \div T \in Nat /\ (a + T) \div T = (a \div T) + 1
  OBVIOUS
<1>2. (a + b) \div T <= (a \div T) + (b \div T) + 1
  OBVIOUS
<1>3. a <= b => a \div T <= b \div T
  OBVIOUS
<1> QED
  BY <1>1, <1>2, <1>3

LEMMA Products ==
  ASSUME NEW d \in Nat, NEW a \in Nat, NEW b \in Nat
  PROVE  d * a \in Nat /\ d * (a + 1) = d * a + d /\ (a <= b => d * a <= d * b)
<1>1. d * a \in Nat /\ d * (a + 1) = d * a + d
  OBVIOUS
<1>2. a <= b => d * a <= d * b
  OBVIOUS
<1> QED
  BY <1>1, <1>2

\* What lies after d, seen from there.
LEMMA Shifted ==
  ASSUME NEW d \in Nat, NEW n \in Nat, NEW A \in SUBSET (1 .. n),
         NEW B, B = {j \in 1 .. n : j + d \in A}
  PROVE  /\ IsFiniteSet(B) /\ Cardinality(B) \in Nat
         /\ Cardinality(B) = Cardinality({x \in A : x > d})
<1> DEFINE C == {x \in A : x > d}
           f == [x \in C |-> x - d]
<1>1. IsFiniteSet(C)
  <2>1. IsFiniteSet(1 .. n)
    BY FS_Interval
  <2>2. C \in SUBSET (1 .. n)
    OBVIOUS
  <2> QED
    BY <2>1, <2>2, FS_Subset
<1>2. ExistsBijection(C, B)
  <2>1. f \in [C -> B]
    <3>1. ASSUME NEW x \in C PROVE x - d \in B
      BY <3>1
    <3> QED
      BY <3>1
  <2>2. \A x, y \in C : f[x] = f[y] => x = y
    OBVIOUS
  <2>3. \A y \in B : \E x \in C : f[x] = y
    <3>1. ASSUME NEW y \in B PROVE y + d \in C /\ f[y + d] = y
      OBVIOUS
    <3> QED
      BY <3>1
  <2>4. f \in Bijection(C, B)
    BY <2>1, <2>2, <2>3, Zenon DEF Bijection, Injection, Surjection, IsInjective
  <2> QED
    BY <2>4 DEF ExistsBijection
<1> HIDE DEF C
<1>3. IsFiniteSet(B) /\ Cardinality(B) = Cardinality(C)
  BY <1>1, <1>2, FS_Bijection
<1> QED
  BY <1>3, FS_CardinalityType DEF C

\* Places at least T apart.
Apart(S, T) == \A x, y \in S : x < y => y - x >= T

\* So many places that far apart fit into n.
LEMMA ApartCount ==
  ASSUME NEW T \in Nat \ {0}, NEW a \in Int, NEW n \in Nat,
         NEW S \in SUBSET (a + 1 .. a + n), Apart(S, T)
  PROVE  /\ IsFiniteSet(S) /\ Cardinality(S) \in Nat
         /\ (n >= 1 => Cardinality(S) <= ((n - 1) \div T) + 1)
         /\ (n = 0 => Cardinality(S) = 0)
<1> DEFINE Fits(m) == \A R \in SUBSET (a + 1 .. a + m) : Apart(R, T) =>
             IsFiniteSet(R) /\ (R # {} => Cardinality(R) <= ((m - 1) \div T) + 1)
           Bad == {m \in Nat : ~Fits(m)}
<1>1. ASSUME Bad # {} PROVE FALSE
  <2>1. PICK m \in Bad : \A k \in Bad : m <= k
    <3>1. Bad \in SUBSET Nat
      OBVIOUS
    <3> HIDE DEF Bad
    <3> QED
      BY <1>1, <3>1, MinIsLeast
  <2>2. m \in Nat /\ ~Fits(m)
    BY <2>1
  <2>3. \A k \in 0 .. m - 1 : Fits(k)
    BY <2>1, <2>2
  <2>4. ASSUME NEW R \in SUBSET (a + 1 .. a + m), Apart(R, T)
        PROVE  IsFiniteSet(R) /\ (R # {} => Cardinality(R) <= ((m - 1) \div T) + 1)
    <3>1. IsFiniteSet(R)
      <4>1. IsFiniteSet(a + 1 .. a + m)
        BY <2>2, FS_Interval
      <4> QED
        BY <4>1, FS_Subset
    <3>2. ASSUME R # {} PROVE Cardinality(R) <= ((m - 1) \div T) + 1
      <4>1. PICK x \in R : \A y \in R : y <= x
        <5> DEFINE M == {k \in 1 .. m : a + 1 + m - k \in R}
        <5>1. M \in SUBSET Nat /\ M # {}
          <6>1. PICK y \in R : y \in a + 1 .. a + m
            BY <3>2
          <6>2. /\ a + 1 + m - y \in 1 .. m
                /\ a + 1 + m - (a + 1 + m - y) = y
            BY <2>2, <6>1
          <6>3. a + 1 + m - y \in M
            BY <6>1, <6>2
          <6>4. M \in SUBSET Nat
            BY <2>2
          <6> QED
            BY <6>3, <6>4
        <5>2. PICK k \in M : \A l \in M : k <= l
          <6> HIDE DEF M
          <6> QED
            BY <5>1, MinIsLeast
        <5>3. a + 1 + m - k \in R /\ k \in 1 .. m
          BY <5>2
        <5>4. ASSUME NEW y \in R PROVE y <= a + 1 + m - k
          <6>1. a + 1 + m - y \in M /\ y \in Int
            BY <2>2
          <6>2. k <= a + 1 + m - y
            BY <5>2, <6>1
          <6> QED
            BY <2>2, <5>3, <6>1, <6>2
        <5> QED
          BY <5>3, <5>4
      <4> DEFINE Q == R \ {x}
      <4>2. x \in a + 1 .. a + m /\ m >= 1 /\ \A y \in Q : y \in a + 1 .. x - T
        <5>1. x \in a + 1 .. a + m
          OBVIOUS
        <5>2. ASSUME NEW y \in Q PROVE y \in a + 1 .. x - T
          <6>1. y \in Int /\ y >= a + 1 /\ y <= x /\ y # x
            BY <4>1
          <6>2. x - y >= T
            BY <2>4, <5>1, <6>1 DEF Apart
          <6> QED
            BY <5>1, <6>1, <6>2
        <5> QED
          BY <2>2, <5>1, <5>2
      <4>3. Cardinality(R) = Cardinality(Q) + 1 /\ Cardinality(Q) \in Nat
        <5>1. IsFiniteSet(Q) /\ Cardinality(Q) = Cardinality(R) - 1
          BY <3>1, FS_RemoveElement
        <5> QED
          BY <3>1, <5>1, FS_CardinalityType
      <4>4. CASE Q = {}
        <5>1. Cardinality(R) = 1
          <6>1. Cardinality(Q) = 0
            BY <4>4, FS_EmptySet
          <6> HIDE DEF Q
          <6> QED
            BY <4>3, <6>1
        <5>2. (m - 1) \div T \in Nat
          <6>1. m - 1 \in Nat
            BY <2>2, <4>2
          <6> QED
            BY <6>1, Quotients
        <5> QED
          BY <5>1, <5>2
      <4>5. CASE Q # {}
        <5> DEFINE k == x - T - a
        <5>1. k \in 1 .. m - 1 /\ a + k = x - T
          <6>1. PICK y \in Q : y \in a + 1 .. x - T
            BY <4>2, <4>5
          <6> QED
            BY <2>2, <4>2, <6>1
        <5>2. Cardinality(Q) <= ((k - 1) \div T) + 1
          <6>1. Fits(k)
            <7>1. k \in 0 .. m - 1
              BY <5>1
            <7> HIDE DEF Fits, k
            <7> QED
              BY <2>3, <7>1
          <6>2. Q \in SUBSET (a + 1 .. a + k) /\ Apart(Q, T)
            BY <2>4, <4>2, <5>1 DEF Apart
          <6> HIDE DEF Q, k
          <6> QED
            BY <4>5, <6>1, <6>2
        <5>3. ((k - 1) + T) \div T = ((k - 1) \div T) + 1
          <6>1. k - 1 \in Nat
            BY <5>1
          <6> HIDE DEF k
          <6> QED
            BY <6>1, Quotients
        <5>4. ((k - 1) + T) \div T <= (m - 1) \div T
          <6>1. (k - 1) + T \in Nat /\ m - 1 \in Nat /\ (k - 1) + T <= m - 1
            BY <2>2, <4>2, <5>1
          <6> HIDE DEF k
          <6> QED
            BY <6>1, Quotients
        <5>5. (k - 1) \div T \in Nat /\ (m - 1) \div T \in Nat
          <6>1. k - 1 \in Nat /\ m - 1 \in Nat
            BY <2>2, <4>2, <5>1
          <6> HIDE DEF k
          <6> QED
            BY <6>1, Quotients
        <5> HIDE DEF k, Q
        <5> QED
          BY <4>3, <5>2, <5>3, <5>4, <5>5
      <4> QED
        BY <4>4, <4>5
    <3> QED
      BY <3>1, <3>2
  <2> QED
    BY <2>2, <2>4
<1>2. Fits(n)
  BY <1>1
<1>3. IsFiniteSet(S) /\ (S # {} => Cardinality(S) <= ((n - 1) \div T) + 1)
  BY <1>2
<1>4. Cardinality(S) \in Nat
  BY <1>3, FS_CardinalityType
<1>5. n >= 1 => (n - 1) \div T \in Nat
  <2>1. n >= 1 => n - 1 \in Nat
    OBVIOUS
  <2> QED
    BY <2>1, Quotients
<1>6. S = {} => Cardinality(S) = 0
  BY FS_EmptySet
<1>7. n = 0 => S = {}
  OBVIOUS
<1> HIDE DEF Fits, Bad
<1> QED
  BY <1>3, <1>4, <1>5, <1>6, <1>7
-----------------------------------------------------------------------------
(* The line: the bytes in hand and the place of the byte to come.          *)

\* The least length of a VISION frame.
Least == Total(Min(VisionLens))

Stop == Len(Hand) + 1
Line == [j \in 1 .. Stop |-> IF j < Stop THEN Hand[j] ELSE Coming]

\* A byte that has a place has a value its frame can have there.
Honest(line, stop) ==
  /\ stop \in Nat \ {0} /\ line[stop].pos > 0
  /\ \A j \in 1 .. stop :
       /\ line[j].pos \in Nat
       /\ line[j].pos > 0 =>
            /\ line[j].of.len \in VisionLens \cup OtherLens
            /\ line[j].of.vision => line[j].of.len \in VisionLens
            /\ line[j].pos <= FrameLen(line[j].of)
            /\ j < stop => line[j].val \in Sent(line[j].of, line[j].pos)

\* Place b is the next one in a's frame, or any frame's start if that is over.
Joined(a, b) ==
  IF a.pos < FrameLen(a.of) THEN b.of = a.of /\ b.pos = a.pos + 1 ELSE b.pos = 1

\* From the i-th byte on there is the frame it begins, so far as it was sent.
Whole(line, stop, i) ==
  \A j \in i .. stop : j - i < FrameLen(line[i].of) =>
    line[j].of = line[i].of /\ line[j].pos = j - i + 1

\* The VISION frames that can still be taken.
Starts(line, stop) ==
  {i \in 1 .. stop - 1 : line[i].pos = 1 /\ line[i].of.vision /\ Whole(line, stop, i)}

\* What can lead the search astray: a byte that was damaged, one that looks like
\* a start, a place where bytes are missing.
Broken(line, stop, j) ==
  j < stop /\ (line[j].pos = 0 \/ (line[j].pos > 1 /\ line[j].val = Sof))

Torn(line, j) ==
  j > 1 /\ line[j - 1].pos > 0 /\ line[j].pos > 0 /\ ~Joined(line[j - 1], line[j])

Culprits(line, stop) == {j \in 1 .. stop : Broken(line, stop, j) \/ Torn(line, j)}

LEMMA LeastLength ==
  /\ Least \in Nat \ {0} /\ Least > HeaderLen + TailLen /\ Least > HeaderLen
  /\ \A len \in VisionLens : Least <= Total(len)
<1> DEFINE m == Min(VisionLens)
<1>1. m \in VisionLens /\ \A y \in VisionLens : m <= y
  <2>1. VisionLens \in SUBSET Nat /\ VisionLens # {}
    BY ParserAssumption
  <2> QED
    BY <2>1, MinIsLeast
<1>2. m \in Nat
  BY <1>1, Sizes
<1> HIDE DEF m
<1>3. Total(m) \in Nat /\ Total(m) > HeaderLen + TailLen /\ Total(m) > HeaderLen
  BY <1>2, TotalNat
<1>4. ASSUME NEW len \in VisionLens PROVE Total(m) <= Total(len)
  <2>1. m <= len /\ len \in Nat
    BY <1>1, Sizes
  <2> QED
    BY <1>2, <2>1, Sizes DEF Total
<1>5. Total(m) # 0
  BY <1>3, Sizes
<1> QED
  BY <1>3, <1>4, <1>5 DEF Least, m

LEMMA HonestCell ==
  ASSUME NEW line, NEW stop, Honest(line, stop), NEW j \in 1 .. stop, line[j].pos > 0
  PROVE  /\ line[j].pos \in Nat /\ line[j].of.len \in Nat
         /\ FrameLen(line[j].of) \in Nat /\ FrameLen(line[j].of) = Total(line[j].of.len)
         /\ FrameLen(line[j].of) <= MaxBuf /\ FrameLen(line[j].of) >= TailLen + 3
         /\ FrameLen(line[j].of) > HeaderLen + TailLen
         /\ (line[j].of.vision => FrameLen(line[j].of) >= Least)
<1> DEFINE len == line[j].of.len
<1>1. /\ line[j].pos \in Nat /\ len \in VisionLens \cup OtherLens
      /\ (line[j].of.vision => len \in VisionLens)
  BY DEF Honest
<1>2. len \in Nat
  BY <1>1, Sizes
<1>3. /\ FrameLen(line[j].of) \in Nat /\ FrameLen(line[j].of) = Total(len)
      /\ FrameLen(line[j].of) - TailLen >= 3
  BY <1>2, FrameLenNat
<1> HIDE DEF len
<1>4. Total(len) <= MaxBuf /\ Total(len) > HeaderLen + TailLen
  BY <1>1, <1>2, SizeAssumption, TotalNat
<1>5. line[j].of.vision => Total(len) >= Least
  BY <1>1, LeastLength
<1> QED
  BY <1>1, <1>2, <1>3, <1>4, <1>5, Sizes DEF len

\* Without a culprit on the way a frame goes on.
LEMMA RunFrom ==
  ASSUME NEW line, NEW stop, Honest(line, stop), NEW i \in 1 .. stop, line[i].pos = 1,
         NEW b \in i .. stop, \A j \in i + 1 .. b : j \notin Culprits(line, stop)
  PROVE  \A j \in i .. b : j - i < FrameLen(line[i].of) =>
           line[j].of = line[i].of /\ line[j].pos = j - i + 1
<1> DEFINE f == line[i].of
           Right(j) == line[j].of = f /\ line[j].pos = j - i + 1
           Bad == {j \in i .. b : j - i < FrameLen(f) /\ ~Right(j)}
<1>1. stop \in Nat /\ i \in Nat /\ b \in Nat /\ i >= 1 /\ FrameLen(f) \in Nat
  BY HonestCell DEF Honest
<1>2. ASSUME Bad # {} PROVE FALSE
  <2>1. PICK j \in Bad : \A k \in Bad : j <= k
    <3>1. Bad \in SUBSET Nat
      BY <1>1
    <3> HIDE DEF Bad
    <3> QED
      BY <1>2, <3>1, MinIsLeast
  <2>2. j \in i .. b /\ j - i < FrameLen(f) /\ ~Right(j)
    BY <2>1
  <2>3. j # i
    BY <2>2
  <2>4. /\ j - 1 \in i .. b /\ (j - 1) - i < FrameLen(f) /\ j \in i + 1 .. b /\ j > 1
        /\ j - 1 \in 1 .. stop /\ j \in 1 .. stop /\ ~(j <= j - 1)
    BY <1>1, <2>2, <2>3
  <2>5. Right(j - 1)
    <3>1. j - 1 \notin Bad
      <4> HIDE DEF Bad
      <4> QED
        BY <2>1, <2>4
    <3> QED
      BY <2>4, <3>1
  <2>6. line[j - 1].of = f /\ line[j - 1].pos = j - i
    BY <1>1, <2>4, <2>5
  <2>7. line[j - 1].pos > 0 /\ line[j - 1].pos < FrameLen(line[j - 1].of)
    BY <1>1, <2>2, <2>4, <2>6
  <2>8. ~Broken(line, stop, j) /\ ~Torn(line, j)
    BY <2>4 DEF Culprits
  <2>9. line[j].pos > 0
    <3>1. line[j].pos \in Nat /\ line[stop].pos > 0
      BY <2>4 DEF Honest
    <3>2. j < stop \/ j = stop
      BY <1>1, <2>4
    <3> QED
      BY <2>8, <3>1, <3>2 DEF Broken
  <2>10. Joined(line[j - 1], line[j])
    BY <2>4, <2>7, <2>8, <2>9 DEF Torn
  <2>11. line[j].of = f /\ line[j].pos = (j - i) + 1
    BY <2>6, <2>7, <2>10 DEF Joined
  <2> QED
    BY <2>2, <2>11
<1>3. \A j \in i .. b : j - i < FrameLen(f) => Right(j)
  BY <1>2
<1> QED
  BY <1>3

\* Within a frame none begins.
LEMMA NoStartWithin ==
  ASSUME NEW line, NEW stop, Honest(line, stop), NEW i \in 1 .. stop,
         NEW x \in Starts(line, stop), i < x, x - i < FrameLen(line[i].of),
         line[x].pos = x - i + 1
  PROVE  FALSE
<1>1. line[x].pos = 1 /\ x \in Int
  BY DEF Starts
<1> QED
  BY <1>1

LEMMA StartsApart ==
  ASSUME NEW line, NEW stop, Honest(line, stop)
  PROVE  /\ Starts(line, stop) \in SUBSET (1 .. stop - 1) /\ stop \in Nat
         /\ Apart(Starts(line, stop), Least)
         /\ \A S \in SUBSET Starts(line, stop) : IsFiniteSet(S) /\ Cardinality(S) \in Nat
<1>1. Starts(line, stop) \in SUBSET (1 .. stop - 1) /\ stop \in Nat
  BY DEF Starts, Honest
<1>2. ASSUME NEW x \in Starts(line, stop), NEW y \in Starts(line, stop), x < y
      PROVE  y - x >= Least
  <2>1. /\ x \in 1 .. stop /\ y \in x .. stop /\ line[x].pos = 1 /\ line[x].of.vision
        /\ Whole(line, stop, x)
    BY <1>1, <1>2 DEF Starts
  <2>2. FrameLen(line[x].of) >= Least /\ FrameLen(line[x].of) \in Nat
    BY <2>1, HonestCell
  <2>3. ~(y - x < FrameLen(line[x].of))
    <3>1. ASSUME y - x < FrameLen(line[x].of) PROVE FALSE
      <4>1. line[y].pos = y - x + 1
        BY <2>1, <3>1 DEF Whole
      <4> QED
        BY <1>2, <2>1, <3>1, <4>1, NoStartWithin
    <3> QED
      BY <3>1
  <2> QED
    BY <1>1, <2>1, <2>2, <2>3, LeastLength
<1>3. IsFiniteSet(Starts(line, stop))
  <2>1. IsFiniteSet(1 .. stop - 1)
    BY <1>1, FS_Interval
  <2> QED
    BY <1>1, <2>1, FS_Subset
<1>4. ASSUME NEW S \in SUBSET Starts(line, stop)
      PROVE  IsFiniteSet(S) /\ Cardinality(S) \in Nat
  BY <1>3, FS_Subset, FS_CardinalityType
<1> QED
  BY <1>1, <1>2, <1>4 DEF Apart

LEMMA CulpritsFinite ==
  ASSUME NEW line, NEW stop, Honest(line, stop)
  PROVE  /\ Culprits(line, stop) \in SUBSET (1 .. stop)
         /\ \A S \in SUBSET Culprits(line, stop) : IsFiniteSet(S) /\ Cardinality(S) \in Nat
<1>1. Culprits(line, stop) \in SUBSET (1 .. stop) /\ stop \in Nat
  BY DEF Culprits, Honest
<1>2. IsFiniteSet(Culprits(line, stop))
  <2>1. IsFiniteSet(1 .. stop)
    BY <1>1, FS_Interval
  <2> QED
    BY <1>1, <2>1, FS_Subset
<1> QED
  BY <1>1, <1>2, FS_Subset, FS_CardinalityType

Within(S, e) == {x \in S : x <= e}

\* When d bytes are taken, what is behind them stays as it is.
LEMMA LineDropped ==
  ASSUME NEW line, NEW stop, Honest(line, stop), NEW d \in 0 .. stop - 1, NEW rest,
         \A j \in 1 .. stop - d : rest[j] = line[j + d]
  PROVE  /\ Honest(rest, stop - d)
         /\ Starts(rest, stop - d) = {j \in 1 .. stop - d : j + d \in Starts(line, stop)}
         /\ \A j \in Culprits(rest, stop - d) : j + d \in Culprits(line, stop)
         /\ \A j \in 1 .. stop - d : Broken(rest, stop - d, j) <=> Broken(line, stop, j + d)
         /\ \A j \in 2 .. stop - d : Torn(rest, j) <=> Torn(line, j + d)
<1> DEFINE n == stop - d
<1>1. stop \in Nat \ {0} /\ n \in Nat \ {0} /\ d \in Nat /\ d < stop /\ n + d = stop
  BY DEF Honest
<1> HIDE DEF n
<1>2. \A j \in 1 .. n : rest[j] = line[j + d]
  BY DEF n
<1>3. \A j \in 1 .. n : j + d \in 1 .. stop /\ (j < n <=> j + d < stop) /\ (j = n <=> j + d = stop)
  BY <1>1
<1>4. Honest(rest, n)
  <2>1. rest[n].pos > 0
    BY <1>1, <1>2 DEF Honest
  <2>2. ASSUME NEW j \in 1 .. n
        PROVE  /\ rest[j].pos \in Nat
               /\ rest[j].pos > 0 =>
                    /\ rest[j].of.len \in VisionLens \cup OtherLens
                    /\ rest[j].of.vision => rest[j].of.len \in VisionLens
                    /\ rest[j].pos <= FrameLen(rest[j].of)
                    /\ j < n => rest[j].val \in Sent(rest[j].of, rest[j].pos)
    <3>1. rest[j] = line[j + d] /\ j + d \in 1 .. stop /\ (j < n => j + d < stop)
      BY <1>2, <1>3
    <3> QED
      BY <3>1, Zenon DEF Honest
  <2> QED
    BY <1>1, <2>1, <2>2 DEF Honest
<1>5. ASSUME NEW i \in 1 .. n PROVE Whole(rest, n, i) <=> Whole(line, stop, i + d)
  <2>1. ASSUME Whole(line, stop, i + d), NEW j \in i .. n, j - i < FrameLen(rest[i].of)
        PROVE  rest[j].of = rest[i].of /\ rest[j].pos = j - i + 1
    <3>1. /\ j + d \in i + d .. stop /\ (j + d) - (i + d) = j - i
          /\ rest[j] = line[j + d] /\ rest[i] = line[i + d]
      BY <1>1, <1>2
    <3> QED
      BY <2>1, <3>1 DEF Whole
  <2>2. ASSUME Whole(rest, n, i), NEW j \in i + d .. stop,
               j - (i + d) < FrameLen(line[i + d].of)
        PROVE  line[j].of = line[i + d].of /\ line[j].pos = j - (i + d) + 1
    <3>1. j - d \in i .. n /\ (j - d) - i = j - (i + d) /\ (j - d) + d = j /\ j - d \in 1 .. n
      BY <1>1
    <3>2. rest[j - d] = line[j] /\ rest[i] = line[i + d]
      BY <1>2, <3>1
    <3> QED
      BY <2>2, <3>1, <3>2 DEF Whole
  <2> QED
    BY <2>1, <2>2 DEF Whole
<1>6. ASSUME NEW j \in 1 .. n
      PROVE  j \in Starts(rest, n) <=> j + d \in Starts(line, stop)
  <2>1. (j \in 1 .. n - 1) <=> (j + d \in 1 .. stop - 1)
    BY <1>1
  <2>2. rest[j] = line[j + d]
    BY <1>2
  <2> QED
    BY <1>5, <2>1, <2>2 DEF Starts
<1>7. Starts(rest, n) = {j \in 1 .. n : j + d \in Starts(line, stop)}
  <2>1. Starts(rest, n) \subseteq 1 .. n
    BY <1>1 DEF Starts
  <2> QED
    BY <1>6, <2>1
<1>8. ASSUME NEW j \in 1 .. n PROVE Broken(rest, n, j) <=> Broken(line, stop, j + d)
  BY <1>2, <1>3 DEF Broken
<1>9. ASSUME NEW j \in 2 .. n PROVE Torn(rest, j) <=> Torn(line, j + d)
  <2>1. /\ j \in 1 .. n /\ j - 1 \in 1 .. n /\ (j - 1) + d = (j + d) - 1 /\ j > 1 /\ j + d > 1
    BY <1>1
  <2>2. rest[j] = line[j + d] /\ rest[j - 1] = line[(j + d) - 1]
    BY <1>2, <2>1
  <2> QED
    BY <2>1, <2>2 DEF Torn
<1>10. ASSUME NEW j \in Culprits(rest, n) PROVE j + d \in Culprits(line, stop)
  <2>1. j \in 1 .. n /\ (Broken(rest, n, j) \/ Torn(rest, j))
    BY DEF Culprits
  <2>2. Torn(rest, j) => j \in 2 .. n
    BY <1>1, <2>1 DEF Torn
  <2> QED
    BY <1>3, <1>8, <1>9, <2>1, <2>2 DEF Culprits
<1> QED
  BY <1>4, <1>7, <1>8, <1>9, <1>10 DEF n

LEMMA AtMostOne ==
  ASSUME NEW S, \A x, y \in S : x = y
  PROVE  IsFiniteSet(S) /\ Cardinality(S) \in Nat /\ Cardinality(S) <= 1
<1>1. CASE S = {}
  BY <1>1, FS_EmptySet
<1>2. CASE S # {}
  <2>1. PICK x \in S : TRUE
    BY <1>2
  <2>2. S = {x}
    BY <2>1
  <2> QED
    BY <2>2, FS_Singleton
<1> QED
  BY <1>1, <1>2

\* The same in numbers: the frames that can still be taken become fewer by those
\* that began among the bytes taken, the culprits by one if one was among them.
LEMMA CountsDropped ==
  ASSUME NEW line, NEW stop, Honest(line, stop), NEW d \in 0 .. stop - 1, NEW rest,
         \A j \in 1 .. stop - d : rest[j] = line[j + d]
  PROVE  /\ Cardinality(Starts(line, stop)) =
              Cardinality(Within(Starts(line, stop), d))
                + Cardinality(Starts(rest, stop - d))
         /\ Cardinality(Culprits(rest, stop - d)) <= Cardinality(Culprits(line, stop))
         /\ \A c \in Culprits(line, stop) : c <= d =>
              Cardinality(Culprits(rest, stop - d)) + 1 <= Cardinality(Culprits(line, stop))
         /\ \A e \in Int : Cardinality(Within(Starts(rest, stop - d), e - d))
              <= Cardinality(Within(Starts(line, stop), e))
<1> DEFINE A == Starts(line, stop)
           n == stop - d
           B == Starts(rest, n)
           C == Culprits(line, stop)
           E == Culprits(rest, n)
           L == {x \in A : x <= d}
           K == {x \in A : x > d}
           F == {x \in C : x > d}
           G == {j \in 1 .. stop : j + d \in C}
<1>1. /\ stop \in Nat \ {0} /\ n \in Nat /\ d \in Nat /\ n + d = stop
      /\ A \in SUBSET (1 .. stop) /\ C \in SUBSET (1 .. stop) /\ stop \in Nat
      /\ E \subseteq 1 .. n
  BY DEF Honest, Starts, Culprits
<1>2. /\ B = {j \in 1 .. n : j + d \in A} /\ Honest(rest, n)
      /\ \A j \in E : j + d \in C
  BY LineDropped
<1>3. /\ \A S \in SUBSET A : IsFiniteSet(S) /\ Cardinality(S) \in Nat
      /\ \A S \in SUBSET C : IsFiniteSet(S) /\ Cardinality(S) \in Nat
  BY StartsApart, CulpritsFinite
<1>4. \A S \in SUBSET B : IsFiniteSet(S) /\ Cardinality(S) \in Nat
  BY <1>2, StartsApart
<1>5. IsFiniteSet(E) /\ Cardinality(E) \in Nat
  BY <1>2, CulpritsFinite
<1> HIDE DEF A, B, C, E, n
<1>6. B = {j \in 1 .. stop : j + d \in A}
  BY <1>1, <1>2
<1>7. Cardinality(B) = Cardinality(K)
  <2> DEFINE H == {j \in 1 .. stop : j + d \in A}
  <2>1. Cardinality(H) = Cardinality(K)
    BY <1>1, Shifted
  <2> QED
    BY <1>6, <2>1
<1>8. Cardinality(A) = Cardinality(L) + Cardinality(K)
  <2>1. L \in SUBSET A /\ K \in SUBSET A /\ A = L \cup K /\ L \cap K = {}
    <3>1. \A x \in A : x \in Int /\ (x <= d \/ x > d) /\ ~(x <= d /\ x > d)
      BY <1>1
    <3> QED
      BY <3>1, Zenon
  <2>2. IsFiniteSet(L) /\ IsFiniteSet(K) /\ Cardinality(L) \in Nat /\ Cardinality(K) \in Nat
    BY <1>3, <2>1
  <2>3. Cardinality(L \cap K) = 0
    BY <2>1, FS_EmptySet
  <2> HIDE DEF L, K
  <2>4. Cardinality(L \cup K) = Cardinality(L) + Cardinality(K) - Cardinality(L \cap K)
    BY <2>2, FS_Union
  <2> QED
    BY <2>1, <2>2, <2>3, <2>4
<1>9. Cardinality(E) <= Cardinality(F)
  <2>1. IsFiniteSet(G) /\ Cardinality(G) = Cardinality(F)
    BY <1>1, Shifted
  <2>2. E \in SUBSET G
    BY <1>1, <1>2
  <2> HIDE DEF F, G
  <2>3. Cardinality(E) <= Cardinality(G)
    BY <2>1, <2>2, FS_Subset
  <2> QED
    BY <2>1, <2>3
<1>10. Cardinality(F) \in Nat /\ Cardinality(C) \in Nat /\ Cardinality(F) <= Cardinality(C)
  <2>1. F \in SUBSET C /\ C \in SUBSET C
    OBVIOUS
  <2> QED
    BY <1>3, <2>1, FS_Subset
<1>11. ASSUME NEW c \in C, c <= d PROVE Cardinality(E) + 1 <= Cardinality(C)
  <2>1. C \ {c} \in SUBSET C /\ C \in SUBSET C /\ F \in SUBSET (C \ {c})
    BY <1>1, <1>11
  <2>2. IsFiniteSet(C) /\ IsFiniteSet(C \ {c}) /\ Cardinality(C \ {c}) = Cardinality(C) - 1
    BY <1>3, <2>1, FS_RemoveElement
  <2>3. Cardinality(F) <= Cardinality(C \ {c})
    BY <2>1, <2>2, FS_Subset
  <2> HIDE DEF F
  <2> QED
    BY <1>5, <1>9, <1>10, <2>2, <2>3
<1>12. ASSUME NEW e \in Int
       PROVE  Cardinality(Within(B, e - d)) <= Cardinality(Within(A, e))
  <2> DEFINE P == {x \in A : x <= e}
             Q == {x \in B : x <= e - d}
  <2>1. Q = {j \in 1 .. stop : j + d \in P}
    BY <1>1, <1>6
  <2>2. P \in SUBSET (1 .. stop) /\ P \in SUBSET A
    BY <1>1
  <2> DEFINE H == {j \in 1 .. stop : j + d \in P}
  <2> HIDE DEF P, Q
  <2>3. Cardinality(Q) = Cardinality({x \in P : x > d})
    <3>1. Cardinality(H) = Cardinality({x \in P : x > d})
      BY <1>1, <2>2, Shifted
    <3> QED
      BY <2>1, <3>1
  <2>4. {x \in P : x > d} \in SUBSET P /\ IsFiniteSet(P)
    BY <1>3, <2>2
  <2>5. Cardinality({x \in P : x > d}) <= Cardinality(P)
    BY <2>4, FS_Subset
  <2> QED
    BY <2>3, <2>5 DEF P, Q, Within
<1>13. Cardinality(E) <= Cardinality(C)
  <2> HIDE DEF F
  <2> QED
    BY <1>5, <1>9, <1>10
<1>14. Cardinality(A) = Cardinality(Within(A, d)) + Cardinality(B)
  BY <1>7, <1>8 DEF Within
<1> HIDE DEF L, K, F, G
<1> QED
  BY <1>11, <1>12, <1>13, <1>14 DEF A, B, C, E, n
-----------------------------------------------------------------------------
(* What an iteration takes.                                                *)

LEMMA LineIs ==
  ASSUME Typed
  PROVE  /\ Stop \in Nat \ {0} /\ Stop = Len(buf) + Len(port) + 1
         /\ Len(buf) \in Nat /\ Len(port) \in Nat /\ Len(buf) < Stop
         /\ Line[Stop] = Coming /\ \A j \in 1 .. Stop - 1 : Line[j] = Hand[j]
         /\ \A j \in 1 .. Len(buf) : Line[j] = buf[j]
<1>1. /\ Len(Hand) = Len(buf) + Len(port) /\ Len(buf) \in Nat /\ Len(port) \in Nat
      /\ \A i \in 1 .. Len(buf) : Hand[i] = buf[i]
  BY HandTyped
<1>2. Stop = Len(buf) + Len(port) + 1 /\ Stop \in Nat \ {0} /\ Len(buf) < Stop
  BY <1>1 DEF Stop
<1>3. Line[Stop] = Coming /\ \A j \in 1 .. Stop - 1 : Line[j] = Hand[j]
  BY <1>2 DEF Line
<1> HIDE DEF Stop
<1>4. \A j \in 1 .. Len(buf) : Line[j] = buf[j]
  BY <1>1, <1>2, <1>3
<1> QED
  BY <1>1, <1>2, <1>3, <1>4

\* Where an iteration begins: at the first SOF, if there are bytes for a header.
WorkFrom(k) ==
  /\ k \in 1 .. Len(buf) + 1 /\ Work = From(buf, k)
  /\ Len(buf) < HeaderLen => k = 1
  /\ Len(buf) >= HeaderLen /\ k <= Len(buf) => buf[k].val = Sof
  /\ \A i \in 1 .. k - 1 : buf[i].val # Sof

LEMMA WorkStart ==
  ASSUME Typed
  PROVE  \E k \in 1 .. Len(buf) + 1 : WorkFrom(k)
<1>1. buf \in Seq(Cells) /\ Len(buf) \in Nat
  BY LenProperties DEF Typed, TypeOK
<1>2. From(buf, 1) = buf
  BY <1>1, SubSeqFull DEF From
<1>3. From(buf, Len(buf) + 1) = <<>>
  BY <1>1, SubSeqEmpty DEF From
<1>4. CASE Len(buf) < HeaderLen
  <2>1. WorkFrom(1)
    BY <1>1, <1>2, <1>4, Sizes DEF Work, WorkFrom
  <2> QED
    BY <1>1, <2>1
<1>5. CASE ~(Len(buf) < HeaderLen)
  <2> DEFINE sofs == {i \in 1 .. Len(buf) : buf[i].val = Sof}
  <2>1. Work = IF sofs = {} THEN <<>> ELSE From(buf, Min(sofs))
    BY <1>5 DEF Work, Resynced
  <2>2. CASE sofs = {}
    <3>1. WorkFrom(Len(buf) + 1)
      <4>1. Work = From(buf, Len(buf) + 1)
        BY <1>3, <2>1, <2>2
      <4>2. ~(Len(buf) + 1 <= Len(buf)) /\ Len(buf) + 1 \in 1 .. Len(buf) + 1
        BY <1>1
      <4>3. \A i \in 1 .. (Len(buf) + 1) - 1 : buf[i].val # Sof
        BY <1>1, <2>2
      <4> QED
        BY <1>5, <4>1, <4>2, <4>3 DEF WorkFrom
    <3> QED
      BY <1>1, <3>1
  <2>3. CASE sofs # {}
    <3>1. sofs \in SUBSET Nat
      BY <1>1
    <3> DEFINE k == Min(sofs)
    <3>2. k \in sofs /\ \A y \in sofs : k <= y
      <4> HIDE DEF sofs
      <4> QED
        BY <2>3, <3>1, MinIsLeast
    <3>3. k \in 1 .. Len(buf) /\ buf[k].val = Sof /\ Work = From(buf, k)
      BY <2>1, <2>3, <3>2
    <3>4. k \in 1 .. Len(buf) + 1
      <4> HIDE DEF k
      <4> QED
        BY <1>1, <3>3
    <3>5. ASSUME NEW i \in 1 .. k - 1 PROVE buf[i].val # Sof
      <4> HIDE DEF k
      <4>1. i \in 1 .. Len(buf) /\ ~(k <= i)
        BY <1>1, <3>3
      <4> QED
        BY <3>2, <4>1
    <3> HIDE DEF k, sofs
    <3> QED
      BY <1>5, <3>3, <3>4, <3>5 DEF WorkFrom
  <2> QED
    BY <2>2, <2>3
<1> QED
  BY <1>4, <1>5

LEMMA WorkBytes ==
  ASSUME Typed, NEW k, WorkFrom(k)
  PROVE  /\ k \in 1 .. Len(buf) + 1 /\ Len(buf) \in Nat /\ Len(Work) = Len(buf) - k + 1
         /\ \A i \in 1 .. Len(Work) : i + k - 1 \in 1 .. Len(buf) /\ Work[i] = Line[i + k - 1]
<1>1. buf \in Seq(Cells) /\ Len(buf) \in Nat /\ \A j \in 1 .. Len(buf) : Line[j] = buf[j]
  BY LineIs DEF Typed, TypeOK
<1>2. k \in 1 .. Len(buf) + 1 /\ Work = From(buf, k)
  BY DEF WorkFrom
<1> DEFINE w == From(buf, k)
<1>3. Len(w) = Len(buf) - k + 1 /\ \A i \in 1 .. Len(buf) - k + 1 : w[i] = buf[i + k - 1]
  BY <1>1, <1>2, FromProperties
<1> HIDE DEF w
<1>4. ASSUME NEW i \in 1 .. Len(w)
      PROVE  i + k - 1 \in 1 .. Len(buf) /\ w[i] = Line[i + k - 1]
  <2>1. i + k - 1 \in 1 .. Len(buf)
    BY <1>1, <1>2, <1>3
  <2> QED
    BY <1>1, <1>3, <2>1
<1> QED
  BY <1>1, <1>2, <1>3, <1>4 DEF w

\* The search for a SOF skips no start.
LEMMA NoStartSkipped ==
  ASSUME Typed, Honest(Line, Stop), NEW k, WorkFrom(k), NEW x \in Starts(Line, Stop)
  PROVE  x \in Nat /\ x >= k
<1>1. /\ x \in 1 .. Stop - 1 /\ Line[x].pos = 1 /\ Stop \in Nat /\ x \in 1 .. Stop
  BY LineIs DEF Starts
<1>2. Line[x].of.len \in Nat /\ Line[x].val \in Sent(Line[x].of, 1)
  <2>1. Line[x].pos > 0 /\ x < Stop
    BY <1>1
  <2>2. Line[x].of.len \in Nat
    BY <1>1, <2>1, HonestCell
  <2> QED
    BY <1>1, <2>1, <2>2 DEF Honest
<1>3. Line[x].val = Sof
  BY <1>2, SentPlaces
<1>4. ASSUME x < k PROVE FALSE
  <2>1. k \in 1 .. Len(buf) + 1 /\ Len(buf) \in Nat
    BY WorkBytes
  <2>2. x \in 1 .. k - 1 /\ x \in 1 .. Len(buf)
    BY <1>1, <1>4, <2>1
  <2>3. buf[x].val # Sof /\ Line[x] = buf[x]
    BY <2>2, LineIs DEF WorkFrom
  <2> QED
    BY <1>3, <2>3
<1> QED
  BY <1>1, <1>4, WorkBytes

LEMMA HeadIsStart ==
  ASSUME Typed, Honest(Line, Stop), NEW k, WorkFrom(k), Len(Work) >= HeaderLen
  PROVE  /\ k \in 1 .. Len(buf) /\ k \in 1 .. Stop - 1 /\ k \in 1 .. Stop
         /\ k + 1 \in 1 .. Len(buf) /\ k + HeaderLen - 1 <= Len(buf)
         /\ (k \notin Culprits(Line, Stop) => Line[k].pos = 1)
<1>1. /\ k \in 1 .. Len(buf) + 1 /\ Len(buf) \in Nat /\ Len(Work) = Len(buf) - k + 1
      /\ Stop \in Nat /\ Len(buf) < Stop /\ HeaderLen \in Nat /\ HeaderLen >= 2
  BY WorkBytes, LineIs, Sizes
<1>2. /\ k \in 1 .. Len(buf) /\ k \in 1 .. Stop - 1 /\ k \in 1 .. Stop /\ k < Stop
      /\ k + 1 \in 1 .. Len(buf) /\ k + HeaderLen - 1 <= Len(buf)
      /\ Len(buf) >= HeaderLen /\ k <= Len(buf)
  BY <1>1
<1>3. buf[k].val = Sof /\ Line[k] = buf[k]
  BY <1>2, LineIs DEF WorkFrom
<1>4. Line[k].pos \in Nat
  BY <1>2 DEF Honest
<1>5. k \notin Culprits(Line, Stop) => Line[k].pos = 1
  BY <1>2, <1>3, <1>4 DEF Culprits, Broken
<1> QED
  BY <1>2, <1>5

\* The length found in a header is the frame's.
LEMMA HeaderIs ==
  ASSUME Typed, Honest(Line, Stop), NEW k, WorkFrom(k), Len(Work) >= HeaderLen,
         Line[k].pos = 1, Line[k + 1].of = Line[k].of, Line[k + 1].pos = 2
  PROVE  Total(Work[2].val) = FrameLen(Line[k].of)
<1>1. /\ k \in 1 .. Stop /\ k + 1 \in 1 .. Stop /\ k + 1 < Stop
      /\ 2 \in 1 .. Len(Work) /\ 2 + k - 1 = k + 1
  <2>1. k + 1 \in 1 .. Len(buf) /\ k \in 1 .. Stop
    BY HeadIsStart
  <2>2. Len(buf) < Stop /\ Stop \in Nat /\ Len(buf) \in Nat /\ Len(Work) = Len(buf) - k + 1
    BY LineIs, WorkBytes
  <2> QED
    BY <2>1, <2>2
<1>2. Work[2] = Line[k + 1]
  BY <1>1, WorkBytes
<1>3. Line[k + 1].val \in Sent(Line[k].of, 2)
  BY <1>1 DEF Honest
<1>4. Line[k].of.len \in Nat /\ FrameLen(Line[k].of) = Total(Line[k].of.len)
  BY <1>1, HonestCell
<1>5. Work[2].val = Line[k].of.len
  BY <1>2, <1>3, <1>4, SentPlaces
<1> QED
  BY <1>4, <1>5

\* A frame that is there as it was sent passes both checks.
LEMMA WholeMatches ==
  ASSUME Typed, Honest(Line, Stop), NEW k, WorkFrom(k), Complete(Work), Line[k].pos = 1,
         Whole(Line, Stop, k)
  PROVE  ChecksumsMatch(Work) /\ TailMatches(Work)
<1>1. Len(Work) >= HeaderLen /\ Len(Work) >= Total(Work[2].val)
  BY DEF Complete
<1>2. /\ k \in 1 .. Stop /\ k \in Nat /\ k + 1 \in 1 .. Stop /\ k + 1 < Stop /\ Stop \in Nat
      /\ Len(buf) \in Nat /\ Len(buf) < Stop /\ Len(Work) = Len(buf) - k + 1
      /\ 1 \in 1 .. Len(Work) /\ HeaderLen >= 2 /\ HeaderLen \in Nat /\ 1 + k - 1 = k
  <2>1. k + 1 \in 1 .. Len(buf) /\ k \in 1 .. Stop
    BY <1>1, HeadIsStart
  <2>2. Len(buf) < Stop /\ Stop \in Nat /\ Len(buf) \in Nat /\ Len(Work) = Len(buf) - k + 1
    BY LineIs, WorkBytes
  <2> QED
    BY <1>1, <2>1, <2>2, Sizes
<1> DEFINE f == Line[k].of
           l == FrameLen(f)
<1>3. /\ f.len \in Nat /\ l \in Nat /\ l >= TailLen + 3 /\ TailLen \in Nat
  BY <1>2, HonestCell, Sizes
<1>4. \A j \in k .. Stop : j - k < l => Line[j].of = f /\ Line[j].pos = j - k + 1
  BY DEF Whole
<1>5. Total(Work[2].val) = l
  <2>1. Line[k + 1].of = f /\ Line[k + 1].pos = 2
    <3>1. k + 1 \in k .. Stop /\ (k + 1) - k < l /\ (k + 1) - k + 1 = 2
      BY <1>2, <1>3
    <3> HIDE DEF f, l
    <3> QED
      BY <1>4, <3>1
  <2> QED
    BY <1>1, <2>1, HeaderIs
<1>6. Len(Work) >= l
  BY <1>1, <1>5
<1>7. ASSUME NEW i \in 1 .. l
      PROVE  Work[i].of = f /\ Work[i].pos = i /\ Work[i].val \in Sent(f, i)
  <2> HIDE DEF l
  <2>1. i \in 1 .. Len(Work)
    BY <1>2, <1>3, <1>6
  <2> DEFINE j == i + k - 1
  <2>2. j \in k .. Stop /\ j - k < l /\ j - k + 1 = i /\ j \in 1 .. Stop /\ j < Stop
    BY <1>2, <1>3, <2>1
  <2>3. Work[i] = Line[j]
    BY <2>1, WorkBytes
  <2> HIDE DEF j, f
  <2>4. Line[j].of = f /\ Line[j].pos = i
    BY <1>4, <2>2
  <2>5. Line[j].val \in Sent(f, i)
    <3>1. i > 0
      OBVIOUS
    <3> QED
      BY <2>2, <2>4, <3>1 DEF Honest
  <2> QED
    BY <2>3, <2>4, <2>5
<1>8. Work[1].of = f
  BY <1>2, WorkBytes
<1>9. \A i \in l - TailLen + 1 .. l : Sent(f, i) = {End}
  BY <1>3, SentPlaces
<1> HIDE DEF f, l
<1>10. ChecksumsMatch(Work)
  <2>1. \A i \in 1 .. l - TailLen : Work[i].of = f /\ Work[i].pos = i
    <3>1. \A i \in 1 .. l - TailLen : i \in 1 .. l
      BY <1>3
    <3> QED
      BY <1>7, <3>1
  <2>2. l = FrameLen(Work[1].of)
    BY <1>8 DEF l, f
  <2> QED
    BY <1>5, <1>8, <2>1, <2>2 DEF ChecksumsMatch
<1>11. TailMatches(Work)
  <2>1. ASSUME NEW i \in 1 .. TailLen PROVE Work[l - TailLen + i].val = End
    <3> DEFINE j == l - TailLen + i
    <3>1. j \in 1 .. l /\ j \in l - TailLen + 1 .. l
      BY <1>3
    <3> HIDE DEF j
    <3>2. Work[j].val \in Sent(f, j) /\ Sent(f, j) = {End}
      BY <1>7, <1>9, <3>1
    <3> QED
      BY <3>2 DEF j
  <2> QED
    BY <1>5, <2>1 DEF TailMatches
<1> QED
  BY <1>10, <1>11

\* The frames that can no longer be taken when d bytes are gone.
Passed(d) == Within(Starts(Line, Stop), d)

\* A culprit is among them.
Caught(d) == \E c \in Culprits(Line, Stop) : c <= d

\* A rejected frame costs nothing, or one frame and a culprit.
LEMMA RejectCosts ==
  ASSUME Typed, Honest(Line, Stop), NEW k, WorkFrom(k), Complete(Work),
         ~(ChecksumsMatch(Work) /\ TailMatches(Work)), NEW d, d = k + HeaderLen - 1
  PROVE  /\ Cardinality(Passed(d)) \in Nat /\ Cardinality(Passed(d)) <= 1
         /\ Passed(d) = {} \/ Caught(d)
<1>1. Len(Work) >= HeaderLen
  BY DEF Complete
<1>2. /\ k \in 1 .. Stop /\ Stop \in Nat /\ HeaderLen \in Nat /\ d <= Stop
      /\ Least > HeaderLen /\ Least \in Nat /\ d \in Nat /\ d = k + HeaderLen - 1
  <2>1. k \in 1 .. Stop /\ k + HeaderLen - 1 <= Len(buf)
    BY <1>1, HeadIsStart
  <2>2. Len(buf) < Stop /\ Stop \in Nat /\ Len(buf) \in Nat
    BY LineIs
  <2> QED
    BY <2>1, <2>2, LeastLength, Sizes
<1>3. \A x \in Passed(d) : x \in Starts(Line, Stop) /\ x \in k .. d
  <2>1. \A x \in Passed(d) : x \in Starts(Line, Stop) /\ x <= d /\ x \in Nat /\ x >= k
    BY NoStartSkipped DEF Passed, Within
  <2> QED
    BY <1>2, <2>1
<1>4. \A x, y \in Passed(d) : x = y
  <2>1. ASSUME NEW x \in Passed(d), NEW y \in Passed(d), x < y PROVE FALSE
    <3>1. y - x >= Least
      BY <1>3, <2>1, StartsApart DEF Apart
    <3>2. x \in k .. d /\ y \in k .. d
      BY <1>3
    <3> QED
      BY <1>2, <3>1, <3>2
  <2>2. \A x, y \in Passed(d) : x \in Int /\ y \in Int
    BY <1>2, <1>3
  <2> QED
    BY <2>1, <2>2
<1>5. ASSUME NEW x \in Passed(d), ~Caught(d) PROVE FALSE
  <2>1. x \in Starts(Line, Stop) /\ x \in k .. d /\ x \in k .. Stop /\ x \in Int
    BY <1>2, <1>3
  <2>2. \A j \in k .. x : j \notin Culprits(Line, Stop)
    <3>1. \A j \in k .. x : j <= d
      BY <1>2, <2>1
    <3> QED
      BY <1>5, <3>1 DEF Caught
  <2>3. Line[k].pos = 1
    <3>1. k \in k .. x
      BY <1>2, <2>1
    <3> QED
      BY <1>1, <2>2, <3>1, HeadIsStart
  <2>4. CASE x = k
    <3>1. Whole(Line, Stop, k)
      BY <2>1, <2>4 DEF Starts
    <3> QED
      BY <2>3, <3>1, WholeMatches
  <2>5. CASE x # k
    <3>1. k < x /\ x \in k .. x
      BY <1>2, <2>1, <2>5
    <3>2. x - k < FrameLen(Line[k].of)
      <4>1. FrameLen(Line[k].of) \in Nat /\ FrameLen(Line[k].of) > HeaderLen + TailLen
        BY <1>2, <2>3, HonestCell
      <4> QED
        BY <1>2, <2>1, <4>1, Sizes
    <3>3. Line[x].pos = x - k + 1
      <4>1. \A j \in k + 1 .. x : j \notin Culprits(Line, Stop)
        <5>1. \A j \in k + 1 .. x : j \in k .. x
          BY <1>2, <2>1
        <5> QED
          BY <2>2, <5>1
      <4> QED
        BY <1>2, <2>1, <2>3, <3>1, <3>2, <4>1, RunFrom
    <3> QED
      BY <1>2, <2>1, <3>1, <3>2, <3>3, NoStartWithin
  <2> QED
    BY <2>4, <2>5
<1>6. Cardinality(Passed(d)) \in Nat /\ Cardinality(Passed(d)) <= 1
  BY <1>4, AtMostOne
<1> QED
  BY <1>5, <1>6

\* An accepted frame is the one taken, and no other; or a culprit is taken with it.
LEMMA AcceptCosts ==
  ASSUME Typed, Honest(Line, Stop), NEW k, WorkFrom(k), Complete(Work),
         ChecksumsMatch(Work), NEW d, d = k + Total(Work[2].val) - 1
  PROVE  /\ d \in 1 .. Len(buf)
         /\ Cardinality(Passed(d)) \in Nat /\ Cardinality(Passed(d)) <= 1
         /\ \/ Work[1].of.vision \/ Passed(d) = {}
            \/ Caught(d) /\ ~Whole(Line, Stop, k)
<1>1. Len(Work) >= HeaderLen /\ Len(Work) >= Total(Work[2].val)
  BY DEF Complete
<1> DEFINE f == Line[k].of
           t == FrameLen(f)
<1>2. /\ k \in 1 .. Len(buf) /\ k \in 1 .. Stop /\ Len(buf) \in Nat /\ Len(buf) < Stop
      /\ Stop \in Nat /\ Len(Work) = Len(buf) - k + 1 /\ 1 \in 1 .. Len(Work) /\ 1 + k - 1 = k
      /\ TailLen \in Nat
  <2>1. k \in 1 .. Len(buf) /\ k \in 1 .. Stop
    BY <1>1, HeadIsStart
  <2>2. /\ Len(buf) < Stop /\ Stop \in Nat /\ Len(buf) \in Nat
        /\ Len(Work) = Len(buf) - k + 1
    BY LineIs, WorkBytes
  <2> QED
    BY <2>1, <2>2, Sizes
<1>3. Work[1] = Line[k]
  BY <1>2, WorkBytes
<1>4. /\ Total(Work[2].val) = t
      /\ \A i \in 1 .. t - TailLen : Work[i].of = f /\ Work[i].pos = i
  BY <1>3 DEF ChecksumsMatch
<1>5. Line[k].pos = 1
  <2>1. 1 \in 1 .. t - TailLen
    <3>1. WorkFrom(k) /\ k \in 1 .. Len(buf) + 1 /\ Work = From(buf, k)
      BY DEF WorkFrom
    <3>2. Work[2].val \in Nat
      BY <3>1, WorkCells
    <3>3. PICK len \in Nat : len = Work[2].val
      BY <3>2
    <3>4. Total(len) - TailLen >= 3 /\ Total(len) \in Nat
      BY TotalNat
    <3> HIDE DEF t
    <3> QED
      BY <1>2, <1>4, <3>3, <3>4
  <2>2. Work[1].pos = 1
    <3> HIDE DEF t
    <3> QED
      BY <1>4, <2>1
  <2> QED
    BY <1>3, <2>2
<1>6. t \in Nat /\ t > HeaderLen + TailLen /\ t >= TailLen + 3
  BY <1>2, <1>5, HonestCell
<1> HIDE DEF t
<1>7. d = k + t - 1 /\ d \in 1 .. Len(buf) /\ d < Stop /\ d \in k .. Stop
  BY <1>1, <1>2, <1>4, <1>6
<1>8. ASSUME NEW j \in k .. d, j - k < t - TailLen PROVE Line[j].of = f /\ Line[j].pos = j - k + 1
  <2> DEFINE i == j - k + 1
  <2>1. i \in 1 .. t - TailLen /\ i \in 1 .. Len(Work) /\ i + k - 1 = j
    BY <1>2, <1>4, <1>1, <1>6, <1>7, <1>8
  <2>2. Work[i] = Line[i + k - 1]
    BY <2>1, WorkBytes
  <2> HIDE DEF f
  <2>3. Work[i].of = f /\ Work[i].pos = i
    BY <1>4, <2>1
  <2> QED
    BY <2>1, <2>2, <2>3
<1>9. \A x \in Passed(d) : x \in Starts(Line, Stop) /\ x \in k .. d
  <2>1. \A x \in Passed(d) : x \in Starts(Line, Stop) /\ x <= d /\ x \in Nat /\ x >= k
    BY NoStartSkipped DEF Passed, Within
  <2> QED
    BY <1>2, <1>7, <2>1
<1>10. ASSUME NEW x \in Passed(d), x # k
       PROVE  x - k >= t - TailLen /\ ~Whole(Line, Stop, k)
  <2>1. x \in Starts(Line, Stop) /\ x \in k .. d /\ x \in Int /\ k < x /\ x - k < t /\ x \in k .. Stop
    BY <1>2, <1>6, <1>7, <1>9, <1>10
  <2>2. Line[x].pos # x - k + 1
    BY <1>2, <2>1, NoStartWithin DEF t
  <2>3. ~(x - k < t - TailLen)
    BY <1>8, <2>1, <2>2
  <2>4. ~Whole(Line, Stop, k)
    BY <2>1, <2>2 DEF Whole, t
  <2> QED
    BY <1>2, <1>6, <2>1, <2>3, <2>4
<1>11. ASSUME NEW x \in Passed(d), x = k
       PROVE  Whole(Line, Stop, k) /\ f.vision
  BY <1>9, <1>11 DEF Starts
<1>12. \A x, y \in Passed(d) : x = y
  <2>1. ASSUME NEW x \in Passed(d), NEW y \in Passed(d), x < y PROVE FALSE
    <3>1. y - x >= Least /\ Least > HeaderLen + TailLen /\ HeaderLen \in Nat
      BY <1>9, <2>1, StartsApart, LeastLength, Sizes DEF Apart
    <3>2. x \in k .. d /\ y \in k .. d
      BY <1>9
    <3>3. y # k
      BY <1>2, <2>1, <3>2
    <3>4. ~Whole(Line, Stop, k)
      BY <1>10, <3>3
    <3>5. x # k
      BY <1>11, <3>4
    <3>6. x - k >= t - TailLen
      BY <1>10, <3>5
    <3> QED
      BY <1>2, <1>6, <1>7, <3>1, <3>2, <3>6, LeastLength
  <2>2. \A x, y \in Passed(d) : x \in Int /\ y \in Int
    BY <1>2, <1>9
  <2> QED
    BY <2>1, <2>2
<1>13. ASSUME ~Caught(d) PROVE Whole(Line, Stop, k)
  <2>1. \A j \in k + 1 .. d : j \notin Culprits(Line, Stop)
    <3>1. \A j \in k + 1 .. d : j <= d
      BY <1>2, <1>7
    <3> QED
      BY <1>13, <3>1 DEF Caught
  <2>2. \A j \in k .. d : j - k < t => Line[j].of = f /\ Line[j].pos = j - k + 1
    <3>1. PICK b \in k .. Stop : b = d
      BY <1>7
    <3>2. k \in 1 .. Stop /\ Line[k].pos = 1 /\ \A j \in k + 1 .. b : j \notin Culprits(Line, Stop)
      BY <1>2, <1>5, <2>1, <3>1
    <3>3. \A j \in k .. b : j - k < FrameLen(Line[k].of) =>
            Line[j].of = Line[k].of /\ Line[j].pos = j - k + 1
      BY <3>2, RunFrom
    <3> QED
      BY <3>1, <3>3 DEF t
  <2>3. ASSUME NEW j \in k .. Stop, j - k < t PROVE j \in k .. d
    BY <1>2, <1>6, <1>7, <2>3
  <2> QED
    BY <2>2, <2>3 DEF Whole, t
<1>14. ASSUME Whole(Line, Stop, k), Passed(d) # {} PROVE Work[1].of.vision
  <2>1. PICK x \in Passed(d) : TRUE
    BY <1>14
  <2>2. x = k
    BY <1>10, <1>14
  <2> QED
    BY <1>3, <1>11, <2>2
<1>15. Cardinality(Passed(d)) \in Nat /\ Cardinality(Passed(d)) <= 1
  BY <1>12, AtMostOne
<1> QED
  BY <1>7, <1>13, <1>14, <1>15

\* A dropped buffer holds a culprit, and no more frames than fit into it.
LEMMA OverflowCosts ==
  ASSUME Typed, Honest(Line, Stop), NEW k, WorkFrom(k), ~Complete(Work),
         Len(Work) > MaxBuf, Len(buf) <= MaxBuf + PortCap
  PROVE  /\ Caught(Len(buf))
         /\ Cardinality(Passed(Len(buf))) \in Nat
         /\ Cardinality(Passed(Len(buf))) <= LossPerStart
<1>1. /\ k \in 1 .. Len(buf) + 1 /\ Len(buf) \in Nat /\ Len(Work) = Len(buf) - k + 1
      /\ Stop \in Nat /\ Len(buf) < Stop /\ MaxBuf \in Nat /\ PortCap \in Nat
  BY WorkBytes, LineIs, Sizes
<1>2. Len(Work) >= HeaderLen
  <2>1. PICK len \in VisionLens : Total(len) <= MaxBuf
    BY ParserAssumption, SizeAssumption
  <2>2. len \in Nat
    BY <2>1, Sizes
  <2>3. Total(len) > HeaderLen /\ Total(len) \in Nat
    BY <2>2, TotalNat
  <2> QED
    BY <1>1, <2>1, <2>3, Sizes
<1>3. k \in 1 .. Len(buf) /\ k \in 1 .. Stop /\ k + 1 \in 1 .. Len(buf)
  BY <1>2, HeadIsStart
<1>4. ASSUME ~Caught(Len(buf)) PROVE FALSE
  <2>1. \A j \in k .. Len(buf) : j \notin Culprits(Line, Stop)
    <3>1. \A j \in k .. Len(buf) : j <= Len(buf)
      BY <1>1, <1>3
    <3> QED
      BY <1>4, <3>1 DEF Caught
  <2>2. Line[k].pos = 1
    <3>1. k \in k .. Len(buf)
      BY <1>1, <1>3
    <3> QED
      BY <1>2, <2>1, <3>1, HeadIsStart
  <2>3. /\ FrameLen(Line[k].of) \in Nat /\ FrameLen(Line[k].of) <= MaxBuf
        /\ FrameLen(Line[k].of) >= TailLen + 3 /\ TailLen \in Nat
    BY <1>3, <2>2, HonestCell, Sizes
  <2>4. Line[k + 1].of = Line[k].of /\ Line[k + 1].pos = 2
    <3>1. /\ Len(buf) \in k .. Stop /\ k + 1 \in k .. Len(buf)
          /\ (k + 1) - k < FrameLen(Line[k].of) /\ (k + 1) - k + 1 = 2
      BY <1>1, <1>3, <2>3
    <3>2. \A j \in k + 1 .. Len(buf) : j \notin Culprits(Line, Stop)
      <4>1. \A j \in k + 1 .. Len(buf) : j \in k .. Len(buf)
        BY <1>1, <1>3
      <4> QED
        BY <2>1, <4>1
    <3> QED
      BY <1>3, <2>2, <3>1, <3>2, RunFrom
  <2>5. Total(Work[2].val) = FrameLen(Line[k].of)
    BY <1>2, <2>2, <2>4, HeaderIs
  <2>6. Len(Work) >= FrameLen(Line[k].of)
    BY <1>1, <2>3
  <2> QED
    BY <1>2, <2>5, <2>6 DEF Complete
<1> DEFINE P == Passed(Len(buf))
<1>5. /\ Cardinality(P) \in Nat /\ Cardinality(P) <= ((Len(buf) - 1) \div Least) + 1
  <2>1. P \in SUBSET Starts(Line, Stop) /\ P \in SUBSET (0 + 1 .. 0 + Len(buf))
    <3>1. \A x \in P : x \in Starts(Line, Stop) /\ x <= Len(buf) /\ x \in Nat /\ x >= k
      BY NoStartSkipped DEF Passed, Within
    <3>2. \A x \in P : x \in 0 + 1 .. 0 + Len(buf)
      BY <1>1, <3>1
    <3> QED
      BY <3>1, <3>2
  <2>2. Apart(P, Least)
    BY <2>1, StartsApart DEF Apart
  <2>3. Len(buf) >= 1
    BY <1>1, <1>3
  <2>4. PICK n \in Nat : n = Len(buf)
    BY <1>1
  <2>5. Least \in Nat \ {0}
    BY LeastLength
  <2> HIDE DEF P
  <2>6. P \in SUBSET (0 + 1 .. 0 + n) /\ n >= 1 /\ 0 \in Int
    BY <2>1, <2>3, <2>4
  <2>7. Cardinality(P) \in Nat /\ (n >= 1 => Cardinality(P) <= ((n - 1) \div Least) + 1)
    BY <2>2, <2>5, <2>6, ApartCount
  <2> QED
    BY <2>4, <2>6, <2>7
<1>6. ((Len(buf) - 1) \div Least) + 1 <= LossPerStart
  <2> DEFINE m == Len(buf) - 1
             n == MaxBuf + PortCap
  <2>1. m \in Nat /\ n \in Nat /\ m <= n
    BY <1>1, <1>3
  <2> HIDE DEF m, n
  <2>2. m \div Least <= n \div Least /\ m \div Least \in Nat /\ n \div Least \in Nat
    BY <2>1, LeastLength, Quotients
  <2>3. LossPerStart = (n \div Least) + 1
    BY DEF LossPerStart, FramesIn, Least, n
  <2> QED
    BY <2>2, <2>3 DEF m
<1>7. LossPerStart \in Int /\ (Len(buf) - 1) \div Least \in Int
  <2> DEFINE m == Len(buf) - 1
             n == MaxBuf + PortCap
  <2>1. m \in Nat /\ n \in Nat
    BY <1>1, <1>3
  <2> HIDE DEF m, n
  <2>2. m \div Least \in Nat /\ n \div Least \in Nat
    BY <2>1, LeastLength, Quotients
  <2>3. LossPerStart = (n \div Least) + 1
    BY DEF LossPerStart, FramesIn, Least, n
  <2> QED
    BY <2>2, <2>3 DEF m
<1>8. Cardinality(P) <= LossPerStart
  <2> HIDE DEF P
  <2> QED
    BY <1>5, <1>6, <1>7
<1> QED
  BY <1>4, <1>5, <1>8 DEF P

\* What is waited for is the frame the buffer begins with: no other has begun.
LEMMA WaitCosts ==
  ASSUME Typed, Honest(Line, Stop), NEW k, WorkFrom(k), ~Complete(Work),
         k <= Len(buf) /\ Len(buf) >= HeaderLen => Line[k].pos = 1 /\ Whole(Line, Stop, k)
  PROVE  /\ Cardinality(Passed(Len(buf))) \in Nat
         /\ Cardinality(Passed(Len(buf))) <= 1
<1>1. /\ k \in 1 .. Len(buf) + 1 /\ Len(buf) \in Nat /\ Len(Work) = Len(buf) - k + 1
      /\ Stop \in Nat /\ Len(buf) < Stop /\ HeaderLen \in Nat /\ TailLen \in Nat
  BY WorkBytes, LineIs, Sizes
<1>2. \A x \in Passed(Len(buf)) : x \in Starts(Line, Stop) /\ x \in k .. Len(buf)
  <2>1. \A x \in Passed(Len(buf)) :
          x \in Starts(Line, Stop) /\ x <= Len(buf) /\ x \in Nat /\ x >= k
    BY NoStartSkipped DEF Passed, Within
  <2> QED
    BY <1>1, <2>1
<1>3. ASSUME NEW x \in Passed(Len(buf)), NEW y \in Passed(Len(buf)), x < y PROVE FALSE
  <2>1. y - x >= Least /\ Least > HeaderLen /\ Least \in Nat
    BY <1>2, <1>3, StartsApart, LeastLength DEF Apart
  <2>2. x \in k .. Len(buf) /\ y \in k .. Len(buf) /\ y \in Starts(Line, Stop)
    BY <1>2
  <2>3. /\ Len(Work) >= HeaderLen /\ Len(buf) >= HeaderLen /\ k <= Len(buf) /\ k < y
        /\ y - k < Len(Work) /\ y \in k .. Stop /\ k \in 1 .. Stop /\ k + 1 \in k .. Stop
    BY <1>1, <1>3, <2>1, <2>2
  <2>4. Line[k].pos = 1 /\ Whole(Line, Stop, k)
    BY <2>3
  <2>5. /\ FrameLen(Line[k].of) \in Nat /\ FrameLen(Line[k].of) >= TailLen + 3
    BY <2>3, <2>4, HonestCell
  <2>6. Line[k + 1].of = Line[k].of /\ Line[k + 1].pos = 2
    <3>1. (k + 1) - k < FrameLen(Line[k].of) /\ (k + 1) - k + 1 = 2
      BY <1>1, <2>5
    <3> QED
      BY <2>3, <2>4, <3>1 DEF Whole
  <2>7. Total(Work[2].val) = FrameLen(Line[k].of)
    BY <2>3, <2>4, <2>6, HeaderIs
  <2>8. y - k < FrameLen(Line[k].of)
    <3>1. ~(Len(Work) >= FrameLen(Line[k].of))
      BY <2>3, <2>7 DEF Complete
    <3> QED
      BY <1>1, <2>2, <2>3, <2>5, <3>1
  <2>9. Line[y].pos = y - k + 1
    BY <2>3, <2>4, <2>8 DEF Whole
  <2> QED
    BY <2>2, <2>3, <2>8, <2>9, NoStartWithin
<1>4. \A x, y \in Passed(Len(buf)) : x = y
  <2>1. \A x, y \in Passed(Len(buf)) : x \in Int /\ y \in Int
    BY <1>1, <1>2
  <2> QED
    BY <1>3, <2>1
<1> QED
  BY <1>4, AtMostOne
-----------------------------------------------------------------------------
(* What the line adds.                                                     *)

\* The frame that is being sent, if its bytes so far are there.
Open(line, stop) == {x \in Starts(line, stop) : stop - x < FrameLen(line[x].of)}

LEMMA OpenIsOne ==
  ASSUME NEW line, NEW stop, Honest(line, stop)
  PROVE  /\ \A x, y \in Open(line, stop) : x = y
         /\ Open(line, stop) # {} => line[stop].pos > 1 /\ line[stop].of.vision
         /\ IsFiniteSet(Open(line, stop)) /\ Cardinality(Open(line, stop)) \in Nat
         /\ Cardinality(Open(line, stop)) <= 1
<1>1. ASSUME NEW x \in Open(line, stop)
      PROVE  /\ x \in 1 .. stop - 1 /\ stop \in Nat /\ line[stop].of = line[x].of
             /\ line[stop].pos = stop - x + 1 /\ line[x].of.vision
             /\ stop - x < FrameLen(line[x].of) /\ x \in Starts(line, stop)
  <2>1. x \in 1 .. stop - 1 /\ stop \in Nat /\ Whole(line, stop, x) /\ line[x].of.vision
    BY DEF Open, Starts, Honest
  <2>2. stop \in x .. stop
    BY <2>1
  <2> QED
    BY <2>1, <2>2 DEF Open, Whole
<1>2. ASSUME NEW x \in Open(line, stop), NEW y \in Open(line, stop) PROVE x = y
  <2>1. line[stop].pos = stop - x + 1 /\ line[stop].pos = stop - y + 1
    BY <1>1
  <2>2. x \in Int /\ y \in Int /\ stop \in Int
    BY <1>1
  <2> QED
    BY <2>1, <2>2
<1>3. Open(line, stop) # {} => line[stop].pos > 1 /\ line[stop].of.vision
  BY <1>1
<1> QED
  BY <1>2, <1>3, AtMostOne

\* The next byte is one of a frame: it breaks nothing.
LEMMA LineSent ==
  ASSUME NEW line, NEW stop, Honest(line, stop), NEW rest, Honest(rest, stop + 1),
         \A j \in 1 .. stop - 1 : rest[j] = line[j],
         rest[stop].of = line[stop].of, rest[stop].pos = line[stop].pos,
         Joined(line[stop], rest[stop + 1])
  PROVE  /\ Starts(line, stop) \subseteq Starts(rest, stop + 1)
         /\ line[stop].pos = 1 /\ line[stop].of.vision => stop \in Starts(rest, stop + 1)
         /\ Starts(rest, stop + 1) \subseteq Starts(line, stop) \cup {stop}
         /\ Culprits(line, stop) \subseteq Culprits(rest, stop + 1)
         /\ Culprits(rest, stop + 1) \subseteq Culprits(line, stop) \cup {stop}
         /\ stop \in Culprits(rest, stop + 1) /\ ~(rest[stop].pos > 1 /\ rest[stop].val = Sof)
              => stop \in Culprits(line, stop)
<1>1. /\ stop \in Nat \ {0} /\ stop \in 1 .. stop /\ stop \in 1 .. stop + 1
      /\ stop + 1 \in 1 .. stop + 1 /\ line[stop].pos > 0 /\ line[stop].pos \in Nat
  BY DEF Honest
<1>2. \A j \in 1 .. stop : rest[j].of = line[j].of /\ rest[j].pos = line[j].pos
  <2>1. \A j \in 1 .. stop : j \in 1 .. stop - 1 \/ j = stop
    BY <1>1
  <2> QED
    BY <2>1
<1>3. FrameLen(line[stop].of) \in Nat /\ FrameLen(line[stop].of) >= TailLen + 3 /\ TailLen \in Nat
  BY <1>1, HonestCell, Sizes
<1>4. ASSUME NEW x \in 1 .. stop, line[x].pos = 1,
             \A j \in x .. stop : j - x < FrameLen(line[x].of) =>
               line[j].of = line[x].of /\ line[j].pos = j - x + 1
      PROVE  Whole(rest, stop + 1, x)
  <2>1. rest[x].of = line[x].of
    BY <1>2
  <2>2. ASSUME NEW j \in x .. stop + 1, j - x < FrameLen(line[x].of)
        PROVE  rest[j].of = line[x].of /\ rest[j].pos = j - x + 1
    <3>1. CASE j \in x .. stop
      <4>1. j \in 1 .. stop
        BY <1>1, <3>1
      <4> QED
        BY <1>2, <1>4, <2>2, <3>1, <4>1
    <3>2. CASE j = stop + 1
      <4>1. stop \in x .. stop /\ stop - x < FrameLen(line[x].of) /\ FrameLen(line[x].of) \in Nat
        <5>1. FrameLen(line[x].of) \in Nat
          BY <1>1, <1>4, HonestCell
        <5> QED
          BY <1>1, <2>2, <3>2, <5>1
      <4>2. line[stop].of = line[x].of /\ line[stop].pos = stop - x + 1
        BY <1>4, <4>1
      <4>3. line[stop].pos < FrameLen(line[stop].of)
        BY <1>1, <2>2, <3>2, <4>1, <4>2
      <4>4. rest[stop + 1].of = line[stop].of /\ rest[stop + 1].pos = line[stop].pos + 1
        BY <4>3 DEF Joined
      <4> QED
        BY <1>1, <3>2, <4>2, <4>4
    <3>3. j \in x .. stop \/ j = stop + 1
      BY <1>1
    <3> QED
      BY <3>1, <3>2, <3>3
  <2> QED
    BY <2>1, <2>2 DEF Whole
<1>5. ASSUME NEW x \in Starts(line, stop) PROVE x \in Starts(rest, stop + 1)
  <2>1. /\ x \in 1 .. stop /\ x \in 1 .. (stop + 1) - 1 /\ line[x].pos = 1
        /\ line[x].of.vision /\ Whole(line, stop, x)
    BY <1>1 DEF Starts
  <2>2. Whole(rest, stop + 1, x)
    BY <1>4, <2>1 DEF Whole
  <2>3. rest[x].of = line[x].of /\ rest[x].pos = line[x].pos
    BY <1>2, <2>1
  <2> QED
    BY <2>1, <2>2, <2>3 DEF Starts
<1>6. ASSUME line[stop].pos = 1, line[stop].of.vision PROVE stop \in Starts(rest, stop + 1)
  <2>1. ASSUME NEW j \in stop .. stop PROVE line[j].of = line[stop].of /\ line[j].pos = j - stop + 1
    <3>1. j = stop
      BY <1>1
    <3> QED
      BY <1>1, <1>6, <3>1
  <2>2. Whole(rest, stop + 1, stop)
    BY <1>1, <1>4, <1>6, <2>1
  <2>3. stop \in 1 .. (stop + 1) - 1
    BY <1>1
  <2> QED
    BY <1>2, <1>1, <1>6, <2>2, <2>3 DEF Starts
<1>7. ASSUME NEW x \in Starts(rest, stop + 1), x # stop PROVE x \in Starts(line, stop)
  <2>1. /\ x \in 1 .. stop - 1 /\ x \in 1 .. stop /\ rest[x].pos = 1 /\ rest[x].of.vision
        /\ Whole(rest, stop + 1, x)
    BY <1>1, <1>7 DEF Starts
  <2>2. rest[x].of = line[x].of /\ rest[x].pos = line[x].pos
    BY <1>2, <2>1
  <2>3. ASSUME NEW j \in x .. stop, j - x < FrameLen(line[x].of)
        PROVE  line[j].of = line[x].of /\ line[j].pos = j - x + 1
    <3>1. j \in x .. stop + 1 /\ j \in 1 .. stop
      BY <1>1, <2>1
    <3>2. rest[j].of = rest[x].of /\ rest[j].pos = j - x + 1
      BY <2>1, <2>2, <2>3, <3>1 DEF Whole
    <3> QED
      BY <1>2, <2>2, <3>1, <3>2
  <2> QED
    BY <2>1, <2>2, <2>3 DEF Starts, Whole
<1>8. ASSUME NEW j \in 1 .. stop
      PROVE  /\ Torn(rest, j) <=> Torn(line, j)
             /\ j < stop => (Broken(rest, stop + 1, j) <=> Broken(line, stop, j))
  <2>1. j > 1 => j - 1 \in 1 .. stop
    BY <1>1
  <2>2. j > 1 => (Joined(rest[j - 1], rest[j]) <=> Joined(line[j - 1], line[j]))
    BY <1>2, <2>1 DEF Joined
  <2>3. Torn(rest, j) <=> Torn(line, j)
    BY <1>2, <2>1, <2>2 DEF Torn
  <2>4. j < stop => rest[j] = line[j] /\ j < stop + 1
    BY <1>1
  <2> QED
    BY <2>3, <2>4 DEF Broken
<1>9. ~Torn(rest, stop + 1) /\ ~Broken(rest, stop + 1, stop + 1)
  <2>1. (stop + 1) - 1 = stop /\ ~(stop + 1 < stop + 1)
    BY <1>1
  <2>2. Joined(rest[stop], rest[stop + 1])
    BY <1>2, <1>1 DEF Joined
  <2> QED
    BY <2>1, <2>2 DEF Torn, Broken
<1>10. ASSUME NEW j \in Culprits(line, stop) PROVE j \in Culprits(rest, stop + 1)
  <2>1. j \in 1 .. stop /\ j \in 1 .. stop + 1 /\ (Broken(line, stop, j) => j < stop)
    BY <1>1 DEF Culprits, Broken
  <2> QED
    BY <1>8, <2>1 DEF Culprits
<1>11. ASSUME NEW j \in Culprits(rest, stop + 1), j # stop PROVE j \in Culprits(line, stop)
  <2>1. j # stop + 1
    BY <1>9 DEF Culprits
  <2>2. j \in 1 .. stop /\ j < stop
    BY <1>1, <1>11, <2>1 DEF Culprits
  <2> QED
    BY <1>8, <2>2 DEF Culprits
<1>12. ASSUME stop \in Culprits(rest, stop + 1), ~(rest[stop].pos > 1 /\ rest[stop].val = Sof)
       PROVE  stop \in Culprits(line, stop)
  <2>1. rest[stop].pos # 0
    BY <1>1, <1>2
  <2>2. ~Broken(rest, stop + 1, stop)
    BY <1>12, <2>1 DEF Broken
  <2> QED
    BY <1>1, <1>8, <1>12, <2>2 DEF Culprits
<1> QED
  BY <1>5, <1>6, <1>7, <1>10, <1>11, <1>12

\* A fault breaks at most the frame that is being sent, and adds one culprit.
LEMMA LineFaulted ==
  ASSUME NEW line, NEW stop, Honest(line, stop), NEW rest, NEW last \in {stop, stop + 1},
         \A j \in 1 .. stop - 1 : rest[j] = line[j],
         last = stop + 1 => rest[stop].pos = 0
  PROVE  /\ Starts(line, stop) \ Open(line, stop) \subseteq Starts(rest, last)
         /\ Culprits(rest, last) \subseteq Culprits(line, stop) \cup {stop}
<1>1. stop \in Nat \ {0}
  BY DEF Honest
<1>2. ASSUME NEW x \in Starts(line, stop), x \notin Open(line, stop)
      PROVE  x \in Starts(rest, last)
  <2>1. /\ x \in 1 .. stop - 1 /\ x \in 1 .. stop /\ line[x].pos = 1 /\ line[x].of.vision
        /\ Whole(line, stop, x) /\ ~(stop - x < FrameLen(line[x].of))
    BY <1>1, <1>2 DEF Starts, Open
  <2>2. FrameLen(line[x].of) \in Nat
    BY <2>1, HonestCell
  <2>3. rest[x] = line[x] /\ x \in 1 .. last - 1
    BY <1>1, <2>1
  <2>4. ASSUME NEW j \in x .. last, j - x < FrameLen(line[x].of)
        PROVE  rest[j].of = line[x].of /\ rest[j].pos = j - x + 1
    <3>1. j \in 1 .. stop - 1 /\ j \in x .. stop
      BY <1>1, <2>1, <2>2, <2>4
    <3>2. rest[j] = line[j]
      BY <3>1
    <3> QED
      BY <2>1, <2>4, <3>1, <3>2 DEF Whole
  <2>5. Whole(rest, last, x)
    BY <2>3, <2>4 DEF Whole
  <2> QED
    BY <2>1, <2>3, <2>5 DEF Starts
<1>3. ASSUME NEW j \in Culprits(rest, last), j # stop PROVE j \in Culprits(line, stop)
  <2>1. j \in 1 .. last /\ (Broken(rest, last, j) \/ Torn(rest, j))
    BY DEF Culprits
  <2>2. CASE j < stop
    <3>1. /\ j \in 1 .. stop - 1 /\ j \in 1 .. stop /\ (j > 1 => j - 1 \in 1 .. stop - 1)
      BY <1>1, <2>1, <2>2
    <3>2. rest[j] = line[j] /\ (j > 1 => rest[j - 1] = line[j - 1])
      BY <3>1
    <3> QED
      BY <2>1, <2>2, <3>1, <3>2 DEF Culprits, Broken, Torn
  <2>3. CASE ~(j < stop)
    <3>1. j = stop + 1 /\ last = stop + 1 /\ ~(j < last) /\ j - 1 = stop
      BY <1>1, <1>3, <2>1, <2>3
    <3>2. rest[j - 1].pos = 0
      BY <3>1
    <3> QED
      BY <2>1, <3>1, <3>2 DEF Broken, Torn
  <2> QED
    BY <2>2, <2>3
<1> QED
  BY <1>2, <1>3
-----------------------------------------------------------------------------
(* The account.                                                            *)

\* The VISION frames sent from their start on.
Started == IF cur.vision /\ at = 1 THEN cur.ord - 1 ELSE cur.ord

Takeable == Cardinality(Starts(Line, Stop))
Culpable == Cardinality(Culprits(Line, Stop))

\* Each frame that was started was taken, can still be taken, or was paid for by
\* a bad byte, or by one that did its harm and is gone.
Accounted ==
  /\ Culpable <= faults + embedded
  /\ Started <= visionSeq + Takeable
       + IF faults = 0 THEN 0 ELSE faults + LossPerStart * (faults + embedded - Culpable)

\* What was in the buffer when it was last parsed to the end.
Searched == Len(buf) - IF parsing THEN PortCap ELSE 0

\* One frame's full price was paid and has not been used.
Spare ==
  Started + LossPerStart <= visionSeq + Takeable + faults + LossPerStart * (faults + embedded) + 1

\* The buffer holds back more than the frame it waits for only because of a
\* culprit, or at the expense of one that is gone.
Settled ==
  \/ Cardinality(Passed(Searched)) <= 1
  \/ faults > 0 /\ (Culpable = 0 => Spare)

Fits == Len(buf) <= MaxBuf + PortCap

LossInv == ParserInv /\ Honest(Line, Stop) /\ Fits /\ Accounted /\ Settled

LEMMA LossNumbers ==
  ASSUME Typed, Honest(Line, Stop)
  PROVE  /\ LossPerStart \in Nat \ {0} /\ Takeable \in Nat /\ Culpable \in Nat
         /\ Started \in Int /\ faults \in Nat /\ embedded \in Nat /\ visionSeq \in Nat
         /\ Searched \in Int /\ Cardinality(Passed(Searched)) \in Nat
<1>1. LossPerStart \in Nat \ {0}
  <2> DEFINE n == MaxBuf + PortCap
  <2>1. n \in Nat /\ LossPerStart = (n \div Least) + 1
    BY Sizes DEF LossPerStart, FramesIn, Least
  <2> HIDE DEF n
  <2>2. n \div Least \in Nat
    BY <2>1, LeastLength, Quotients
  <2> QED
    BY <2>1, <2>2
<1>2. Takeable \in Nat /\ Culpable \in Nat
  BY StartsApart, CulpritsFinite DEF Takeable, Culpable
<1>3. Started \in Int
  <2>1. cur.ord \in Nat
    BY Sizes DEF Typed, FrameTypes
  <2> QED
    BY <2>1 DEF Started
<1>4. faults \in Nat /\ embedded \in Nat /\ visionSeq \in Nat
  BY Sizes DEF Typed, TypeOK
<1>5. Searched \in Int
  BY LineIs, Sizes DEF Searched
<1>6. Cardinality(Passed(Searched)) \in Nat
  <2>1. Passed(Searched) \in SUBSET Starts(Line, Stop)
    BY DEF Passed, Within
  <2> QED
    BY <2>1, StartsApart
<1> QED
  BY <1>1, <1>2, <1>3, <1>4, <1>5, <1>6

\* The sums: bytes taken, with p frames that had begun among them.
LEMMA SumTaken ==
  ASSUME NEW D \in Nat \ {0}, NEW F \in Nat, NEW E \in Nat, NEW S \in Int,
         NEW V \in Nat, NEW W \in Nat, NEW C \in Nat,
         NEW V2 \in Nat, NEW W2 \in Nat, NEW C2 \in Nat, NEW p \in Nat,
         W = p + W2, C2 <= C, C <= F + E,
         S <= V + W + IF F = 0 THEN 0 ELSE F + D * (F + E - C),
         \/ p + V <= V2
         \/ F > 0 /\ p <= D /\ V <= V2 /\ C2 + 1 <= C
  PROVE  /\ C2 <= F + E
         /\ S <= V2 + W2 + IF F = 0 THEN 0 ELSE F + D * (F + E - C2)
<1> DEFINE a == F + E - C
           b == F + E - C2
<1>1. a \in Nat /\ b \in Nat /\ a <= b /\ C2 <= F + E /\ (C2 + 1 <= C => a + 1 <= b)
  OBVIOUS
<1> HIDE DEF a, b
<1>2. /\ D * a \in Nat /\ D * b \in Nat /\ D * a <= D * b
      /\ a + 1 \in Nat /\ D * (a + 1) = D * a + D /\ (a + 1 <= b => D * (a + 1) <= D * b)
  BY <1>1, Products
<1>3. S <= V + W + IF F = 0 THEN 0 ELSE F + D * a
  BY DEF a
<1> DEFINE x == D * a
           y == D * b
<1>4. x \in Nat /\ y \in Nat /\ x <= y /\ (C2 + 1 <= C => x + D <= y)
  BY <1>1, <1>2
<1>5. S <= V + W + IF F = 0 THEN 0 ELSE F + x
  BY <1>3
<1> HIDE DEF x, y
<1>6. S <= V2 + W2 + IF F = 0 THEN 0 ELSE F + y
  BY <1>4, <1>5
<1> QED
  BY <1>1, <1>6 DEF y, b

LEMMA SumSpared ==
  ASSUME NEW D \in Nat \ {0}, NEW F \in Nat, NEW E \in Nat, NEW S \in Int,
         NEW V \in Nat, NEW W \in Nat, NEW C \in Nat,
         NEW V2 \in Nat, NEW W2 \in Nat, NEW p \in Nat,
         W = p + W2, C <= F + E, F > 0,
         S <= V + W + F + D * (F + E - C),
         C = 0 => S + D <= V + W + F + D * (F + E) + 1 /\ p + V <= V2,
         p + V <= V2 + 1
  PROVE  S + D <= V2 + W2 + F + D * (F + E) + 1
<1> DEFINE a == F + E - C
           b == F + E
<1>1. a \in Nat /\ b \in Nat /\ a <= b /\ (C # 0 => a + 1 <= b)
  OBVIOUS
<1> HIDE DEF a, b
<1>2. /\ D * a \in Nat /\ D * b \in Nat /\ D * a <= D * b
      /\ a + 1 \in Nat /\ D * (a + 1) = D * a + D /\ (a + 1 <= b => D * (a + 1) <= D * b)
  BY <1>1, Products
<1> DEFINE x == D * a
           y == D * b
<1>3. x \in Nat /\ y \in Nat /\ x <= y /\ (C # 0 => x + D <= y)
  BY <1>1, <1>2
<1>4. /\ S <= V + W + F + x
      /\ C = 0 => S + D <= V + W + F + y + 1 /\ p + V <= V2
  BY DEF x, y, a, b
<1> HIDE DEF x, y
<1>5. S + D <= V2 + W2 + F + y + 1
  BY <1>3, <1>4
<1> QED
  BY <1>5 DEF y, b

\* One more fault pays for a frame, and for a culprit.
LEMMA SumFaulted ==
  ASSUME NEW D \in Nat \ {0}, NEW F \in Nat, NEW E \in Nat, NEW S \in Int,
         NEW V \in Nat, NEW W \in Nat, NEW C \in Nat,
         NEW S2 \in Int, NEW W2 \in Nat, NEW C2 \in Nat, NEW o \in Nat,
         W <= W2 + o, S2 + o <= S + 1, C2 <= C + 1, C <= F + E,
         S <= V + W + IF F = 0 THEN 0 ELSE F + D * (F + E - C)
  PROVE  /\ C2 <= (F + 1) + E
         /\ S2 <= V + W2 + ((F + 1) + D * ((F + 1) + E - C2))
         /\ S2 + D <= V + W2 + (F + 1) + D * ((F + 1) + E) + 1
<1> DEFINE a == F + E - C
           b == (F + 1) + E - C2
           c == (F + 1) + E
<1>1. a \in Nat /\ b \in Nat /\ c \in Nat /\ a <= b /\ a + 1 <= c /\ C2 <= (F + 1) + E
  OBVIOUS
<1> HIDE DEF a, b, c
<1>2. /\ D * a \in Nat /\ D * b \in Nat /\ D * c \in Nat /\ D * a <= D * b
      /\ a + 1 \in Nat /\ D * (a + 1) = D * a + D /\ D * (a + 1) <= D * c
  BY <1>1, Products
<1> DEFINE x == D * a
           y == D * b
           z == D * c
<1>3. x \in Nat /\ y \in Nat /\ z \in Nat /\ x <= y /\ x + D <= z
  BY <1>1, <1>2
<1>4. S <= V + W + IF F = 0 THEN 0 ELSE F + x
  BY DEF x, a
<1> HIDE DEF x, y, z
<1>5. S2 <= V + W2 + ((F + 1) + y) /\ S2 + D <= V + W2 + (F + 1) + z + 1
  BY <1>3, <1>4
<1> QED
  BY <1>1, <1>5 DEF y, z, b, c

\* An embedded SOF pays for itself.
LEMMA SumSent ==
  ASSUME NEW D \in Nat \ {0}, NEW F \in Nat, NEW E \in Nat, NEW S \in Int,
         NEW V \in Nat, NEW W \in Nat, NEW C \in Nat,
         NEW S2 \in Int, NEW W2 \in Nat, NEW C2 \in Nat, NEW e \in {0, 1},
         S2 + W <= S + W2, C2 <= C + e, C <= F + E,
         S <= V + W + IF F = 0 THEN 0 ELSE F + D * (F + E - C)
  PROVE  /\ C2 <= F + (E + e)
         /\ S2 <= V + W2 + IF F = 0 THEN 0 ELSE F + D * (F + (E + e) - C2)
         /\ S + D <= V + W + F + D * (F + E) + 1
              => S2 + D <= V + W2 + F + D * (F + (E + e)) + 1
<1> DEFINE a == F + E - C
           b == F + (E + e) - C2
           c == F + E
           g == F + (E + e)
<1>1. /\ a \in Nat /\ b \in Nat /\ c \in Nat /\ g \in Nat /\ a <= b /\ c <= g
      /\ C2 <= F + (E + e)
  OBVIOUS
<1> HIDE DEF a, b, c, g
<1>2. /\ D * a \in Nat /\ D * b \in Nat /\ D * c \in Nat /\ D * g \in Nat
      /\ D * a <= D * b /\ D * c <= D * g
  BY <1>1, Products
<1> DEFINE x == D * a
           y == D * b
           z == D * c
           w == D * g
<1>3. x \in Nat /\ y \in Nat /\ z \in Nat /\ w \in Nat /\ x <= y /\ z <= w
  BY <1>1, <1>2
<1>4. S <= V + W + IF F = 0 THEN 0 ELSE F + x
  BY DEF x, a
<1> HIDE DEF x, y, z, w
<1>5. /\ S2 <= V + W2 + IF F = 0 THEN 0 ELSE F + y
      /\ S + D <= V + W + F + z + 1 => S2 + D <= V + W2 + F + w + 1
  BY <1>3, <1>4
<1> QED
  BY <1>1, <1>5 DEF y, z, w, b, c, g
-----------------------------------------------------------------------------
(* The steps.                                                              *)

LEMMA LineMoved ==
  ASSUME Typed, NEW d \in 0 .. Len(buf), buf' = From(buf, d + 1), port' = port,
         UNCHANGED <<cur, at>>
  PROVE  /\ Stop' = Stop - d /\ d \in 0 .. Stop - 1 /\ Len(buf') = Len(buf) - d
         /\ \A j \in 1 .. Stop - d : Line'[j] = Line[j + d]
<1>1. /\ Len(buf) \in Nat /\ Len(port) \in Nat /\ Stop = Len(buf) + Len(port) + 1
      /\ Stop = Len(Hand) + 1 /\ Line[Stop] = Coming /\ Len(Hand) = Len(buf) + Len(port)
      /\ \A j \in 1 .. Stop - 1 : Line[j] = Hand[j]
  BY LineIs, HandTyped DEF Stop
<1>2. /\ d + 1 \in 1 .. Len(buf) + 1 /\ d \in Nat
  BY <1>1
<1>3. /\ buf' \in Seq(Cells)
      /\ Len(Hand') = Len(Hand) - (d + 1) + 1
      /\ \A i \in 1 .. Len(Hand') : Hand'[i] = Hand[i + (d + 1) - 1]
  BY <1>2, HandDropped
<1>4. Len(buf') = Len(buf) - d
  <2>1. buf \in Seq(Cells)
    BY DEF Typed, TypeOK
  <2>2. Len(From(buf, d + 1)) = Len(buf) - (d + 1) + 1
    BY <1>2, <2>1, FromProperties
  <2> QED
    BY <1>1, <1>2, <2>2
<1>5. Stop' = Stop - d
  <2>1. Stop' = Len(Hand') + 1 /\ Stop = Len(Hand) + 1
    BY DEF Stop
  <2>2. PICK n \in Nat : n = Len(Hand)
    BY <1>1
  <2>3. Len(Hand') = n - (d + 1) + 1
    BY <1>3, <2>2
  <2>4. (n - (d + 1) + 1) + 1 = (n + 1) - d
    BY <1>2
  <2> QED
    BY <2>1, <2>2, <2>3, <2>4
<1>6. Coming' = Coming
  BY DEF Coming, Place
<1>7. Line' = [j \in 1 .. Stop' |-> IF j < Stop' THEN Hand'[j] ELSE Coming']
  BY DEF Line
<1> HIDE DEF Stop
<1>8. ASSUME NEW j \in 1 .. Stop - d PROVE Line'[j] = Line[j + d]
  <2>1. Line'[j] = IF j < Stop' THEN Hand'[j] ELSE Coming
    BY <1>5, <1>6, <1>7
  <2>2. CASE j < Stop'
    <3>1. j \in 1 .. Len(Hand') /\ j + (d + 1) - 1 = j + d /\ j + d \in 1 .. Stop - 1
      <4>1. Len(Hand') = Len(Hand) - (d + 1) + 1
        BY <1>3
      <4> QED
        BY <1>1, <1>2, <1>5, <2>2, <4>1
    <3> QED
      BY <1>1, <1>3, <2>1, <2>2, <3>1
  <2>3. CASE ~(j < Stop')
    <3>1. j + d = Stop
      BY <1>1, <1>2, <1>5, <2>3
    <3> QED
      BY <1>1, <2>1, <2>3, <3>1
  <2> QED
    BY <2>2, <2>3
<1>9. d \in 0 .. Stop - 1
  BY <1>1
<1> QED
  BY <1>4, <1>5, <1>8, <1>9

\* What is left when d bytes are taken.
LEMMA TakenCounts ==
  ASSUME Typed, Honest(Line, Stop), NEW d \in 0 .. Len(buf), buf' = From(buf, d + 1),
         port' = port, UNCHANGED <<cur, at>>
  PROVE  /\ Honest(Line', Stop') /\ Len(buf') = Len(buf) - d /\ Stop' = Stop - d
         /\ Takeable' \in Nat /\ Culpable' \in Nat /\ Cardinality(Passed(d)) \in Nat
         /\ Takeable = Cardinality(Passed(d)) + Takeable'
         /\ Culpable' <= Culpable
         /\ (Caught(d) => Culpable' + 1 <= Culpable)
         /\ \A e \in Int : Cardinality(Within(Starts(Line', Stop'), e - d))
                             <= Cardinality(Passed(e))
         /\ \A e \in Int : Cardinality(Within(Starts(Line', Stop'), e)) \in Nat
<1>1. /\ Stop' = Stop - d /\ d \in 0 .. Stop - 1 /\ Len(buf') = Len(buf) - d
      /\ \A j \in 1 .. Stop - d : Line'[j] = Line[j + d]
  BY LineMoved
<1>2. Honest(Line', Stop - d)
  BY <1>1, LineDropped
<1>3. /\ Cardinality(Starts(Line, Stop)) =
              Cardinality(Within(Starts(Line, Stop), d))
                + Cardinality(Starts(Line', Stop - d))
      /\ Cardinality(Culprits(Line', Stop - d)) <= Cardinality(Culprits(Line, Stop))
      /\ \A c \in Culprits(Line, Stop) : c <= d =>
              Cardinality(Culprits(Line', Stop - d)) + 1 <= Cardinality(Culprits(Line, Stop))
      /\ \A e \in Int : Cardinality(Within(Starts(Line', Stop - d), e - d))
              <= Cardinality(Within(Starts(Line, Stop), e))
  BY <1>1, CountsDropped
<1>4. /\ Takeable' = Cardinality(Starts(Line', Stop - d))
      /\ Culpable' = Cardinality(Culprits(Line', Stop - d))
  BY <1>1 DEF Takeable, Culpable
<1>5. Takeable' \in Nat /\ Culpable' \in Nat
  BY <1>2, <1>4, StartsApart, CulpritsFinite
<1>6. \A e \in Int : Cardinality(Within(Starts(Line', Stop - d), e)) \in Nat
  <2>1. \A e \in Int : Within(Starts(Line', Stop - d), e) \in SUBSET Starts(Line', Stop - d)
    BY DEF Within
  <2> QED
    BY <1>2, <2>1, StartsApart
<1>7. Cardinality(Passed(d)) \in Nat
  <2>1. Passed(d) \in SUBSET Starts(Line, Stop)
    BY DEF Passed, Within
  <2> QED
    BY <2>1, StartsApart
<1> QED
  BY <1>1, <1>2, <1>3, <1>4, <1>5, <1>6, <1>7, Zenon DEF Takeable, Culpable, Passed, Caught

\* Taking d bytes loses no frame that could have been taken, or one, or at most so
\* many, and a culprit goes with them.
PaidFor(d, most) ==
  /\ visionSeq' \in Nat /\ visionSeq <= visionSeq'
  /\ \/ Cardinality(Passed(d)) + visionSeq <= visionSeq'
     \/ faults > 0 /\ Cardinality(Passed(d)) <= most /\ Caught(d)

LEMMA AccountTaken ==
  ASSUME Typed, Honest(Line, Stop), Fits, Accounted,
         NEW d \in 0 .. Len(buf), buf' = From(buf, d + 1), port' = port,
         UNCHANGED <<cur, at, faults, embedded>>,
         NEW most \in Nat, most <= LossPerStart, PaidFor(d, most)
  PROVE  Honest(Line', Stop') /\ Fits' /\ Accounted'
<1> DEFINE p == Cardinality(Passed(d))
<1>1. /\ Honest(Line', Stop') /\ Len(buf') = Len(buf) - d
      /\ Takeable' \in Nat /\ Culpable' \in Nat /\ p \in Nat
      /\ Takeable = p + Takeable' /\ Culpable' <= Culpable
      /\ (Caught(d) => Culpable' + 1 <= Culpable)
  BY TakenCounts
<1>2. /\ LossPerStart \in Nat \ {0} /\ Takeable \in Nat /\ Culpable \in Nat
      /\ Started \in Int /\ faults \in Nat /\ embedded \in Nat /\ visionSeq \in Nat
      /\ Len(buf) \in Nat
  BY LossNumbers, LineIs
<1>3. /\ Started' = Started /\ faults' = faults /\ embedded' = embedded
      /\ LossPerStart' = LossPerStart
  BY DEF Started, LossPerStart, FramesIn
<1>4. PICK w \in Nat : w = Takeable'
  BY <1>1
<1>5. PICK c \in Nat : c = Culpable'
  BY <1>1
<1>6. PICK v \in Nat : v = visionSeq'
  BY DEF PaidFor
<1> HIDE DEF p
<1>7. Takeable = p + w /\ c <= Culpable /\ p \in Nat /\ visionSeq <= v
  BY <1>1, <1>4, <1>5, <1>6 DEF PaidFor
<1>8. \/ p + visionSeq <= v
      \/ faults > 0 /\ p <= most /\ c + 1 <= Culpable
  BY <1>1, <1>5, <1>6, Zenon DEF p, PaidFor
<1>9. Fits'
  <2>1. Len(buf') <= MaxBuf + PortCap
    BY <1>1, <1>2, Sizes DEF Fits
  <2> QED
    BY <2>1 DEF Fits
<1>10. Accounted'
  <2>1. \/ p + visionSeq <= v
        \/ faults > 0 /\ p <= LossPerStart /\ visionSeq <= v /\ c + 1 <= Culpable
    BY <1>2, <1>7, <1>8
  <2>2. /\ Culpable <= faults + embedded
        /\ Started <= visionSeq + Takeable
             + IF faults = 0 THEN 0 ELSE faults + LossPerStart * (faults + embedded - Culpable)
    BY DEF Accounted
  <2>3. /\ c <= faults + embedded
        /\ Started <= v + w
             + IF faults = 0 THEN 0 ELSE faults + LossPerStart * (faults + embedded - c)
    BY <1>2, <1>7, <2>1, <2>2, SumTaken
  <2> QED
    BY <1>3, <1>4, <1>5, <1>6, <2>3 DEF Accounted
<1> QED
  BY <1>1, <1>9, <1>10

\* An iteration that rejects or accepts.
LEMMA TakingAccounts ==
  ASSUME Typed, Honest(Line, Stop), Fits, Accounted, Settled,
         NEW d \in 0 .. Len(buf), buf' = From(buf, d + 1), port' = port,
         UNCHANGED <<cur, at, faults, embedded, parsing>>,
         PaidFor(d, 1)
  PROVE  Honest(Line', Stop') /\ Fits' /\ Accounted' /\ Settled'
<1> DEFINE p == Cardinality(Passed(d))
<1>1. /\ Honest(Line', Stop') /\ Len(buf') = Len(buf) - d /\ Stop' = Stop - d
      /\ Takeable' \in Nat /\ Culpable' \in Nat /\ p \in Nat
      /\ Takeable = p + Takeable' /\ Culpable' <= Culpable
      /\ (Caught(d) => Culpable' + 1 <= Culpable)
  BY TakenCounts
<1>2. /\ LossPerStart \in Nat \ {0} /\ Takeable \in Nat /\ Culpable \in Nat
      /\ Started \in Int /\ faults \in Nat /\ embedded \in Nat /\ visionSeq \in Nat
      /\ Searched \in Int /\ Len(buf) \in Nat
  BY LossNumbers, LineIs
<1>3. /\ Started' = Started /\ faults' = faults /\ embedded' = embedded
      /\ LossPerStart' = LossPerStart
  BY DEF Started, LossPerStart, FramesIn
<1>4. PICK w \in Nat : w = Takeable'
  BY <1>1
<1>5. PICK c \in Nat : c = Culpable'
  BY <1>1
<1>6. PICK v \in Nat : v = visionSeq'
  BY DEF PaidFor
<1> HIDE DEF p
<1>7. Takeable = p + w /\ c <= Culpable /\ p \in Nat /\ visionSeq <= v
  BY <1>1, <1>4, <1>5, <1>6 DEF PaidFor
<1>8. \/ p + visionSeq <= v
      \/ faults > 0 /\ p <= 1 /\ c + 1 <= Culpable
  BY <1>1, <1>5, <1>6, Zenon DEF p, PaidFor
<1>9. Fits' /\ Accounted'
  <2>1. 1 \in Nat /\ 1 <= LossPerStart
    BY <1>2
  <2> QED
    BY <2>1, AccountTaken
<1>10. Settled'
  <2>1. CASE Cardinality(Passed(Searched)) <= 1
    <3>1. Searched' = Searched - d
      BY <1>1, <1>2, Sizes DEF Searched
    <3> DEFINE S == Within(Starts(Line', Stop'), Searched - d)
    <3>2. /\ Cardinality(S) <= Cardinality(Passed(Searched)) /\ Cardinality(S) \in Nat
          /\ Cardinality(Passed(Searched)) \in Nat
      <4>1. Searched - d \in Int
        BY <1>2
      <4> QED
        BY <1>2, <4>1, TakenCounts, LossNumbers
    <3>3. Passed(Searched)' = S
      BY <3>1 DEF Passed
    <3> HIDE DEF S
    <3>4. Cardinality(S) <= 1
      BY <2>1, <3>2
    <3> QED
      BY <3>3, <3>4 DEF Settled
  <2>2. CASE ~(Cardinality(Passed(Searched)) <= 1)
    <3>1. faults > 0 /\ (Culpable = 0 => Spare)
      BY <2>2 DEF Settled
    <3>2. ASSUME c = 0 PROVE Spare'
      <4>1. /\ Culpable <= faults + embedded
            /\ Started <= visionSeq + Takeable + faults + LossPerStart * (faults + embedded - Culpable)
        <5> DEFINE x == LossPerStart * (faults + embedded - Culpable)
        <5>1. x \in Nat
          <6>1. faults + embedded - Culpable \in Nat
            BY <1>2 DEF Accounted
          <6> QED
            BY <1>2, <6>1, Products
        <5>2. /\ Culpable <= faults + embedded
              /\ Started <= visionSeq + Takeable + IF faults = 0 THEN 0 ELSE faults + x
          BY DEF Accounted
        <5> HIDE DEF x
        <5>3. Started <= visionSeq + Takeable + faults + x
          BY <1>2, <3>1, <5>1, <5>2
        <5> QED
          BY <5>2, <5>3 DEF x
      <4>2. Culpable = 0 =>
              /\ Started + LossPerStart <=
                   visionSeq + Takeable + faults + LossPerStart * (faults + embedded) + 1
              /\ p + visionSeq <= v
        <5>1. Culpable = 0 => p + visionSeq <= v
          BY <1>2, <1>7, <1>8
        <5> QED
          BY <3>1, <5>1 DEF Spare
      <4>3. p + visionSeq <= v + 1
        BY <1>2, <1>7, <1>8
      <4>4. Started + LossPerStart <=
              v + w + faults + LossPerStart * (faults + embedded) + 1
        BY <1>2, <1>7, <3>1, <4>1, <4>2, <4>3, SumSpared
      <4> QED
        BY <1>3, <1>4, <1>6, <4>4 DEF Spare
    <3> QED
      BY <1>3, <1>5, <3>1, <3>2 DEF Settled
  <2> QED
    BY <2>1, <2>2
<1> QED
  BY <1>1, <1>9, <1>10

\* On a clean line the iteration begins with the first byte, and a frame's.
LEMMA CleanStart ==
  ASSUME Typed, Gapless, NEW k, WorkFrom(k)
  PROVE  k = 1 /\ (Len(buf) >= 1 => Line[k].pos = 1 /\ Whole(Line, Stop, k))
<1>1. /\ Stop \in Nat \ {0} /\ Stop = Len(buf) + Len(port) + 1 /\ Len(buf) \in Nat
      /\ Len(port) \in Nat /\ Line[Stop] = Coming /\ k \in 1 .. Len(buf) + 1
      /\ \A j \in 1 .. Stop - 1 : Line[j] = Hand[j]
      /\ \A j \in 1 .. Len(buf) : Line[j] = buf[j]
      /\ DOMAIN Hand = 1 .. Stop - 1 /\ Len(Hand) = Stop - 1
  BY LineIs, HandTyped DEF WorkFrom
<1>2. ASSUME Len(buf) >= 1 PROVE Line[1].pos = 1 /\ Line[1].val = Sof /\ Whole(Line, Stop, 1)
  <2>1. 1 \in DOMAIN Hand /\ 1 \in 1 .. Len(buf) /\ 1 \in 1 .. Stop - 1 /\ Line[1] = Hand[1]
    BY <1>1, <1>2
  <2>2. Hand[1].pos = 1
    <3>1. Hand # <<>>
      BY <2>1
    <3> QED
      BY <3>1 DEF Gapless
  <2>3. Hand[1].val = Sof
    <3>1. Hand[1].val \in Sent(Hand[1].of, 1)
      BY <2>1, <2>2 DEF Gapless
    <3>2. Sent(Hand[1].of, 1) = {Sof}
      <4>1. Hand[1] \in Cells
        BY <1>1, <2>1, HandTyped
      <4> QED
        BY <4>1, CellTyped, SentPlaces
    <3> QED
      BY <3>1, <3>2
  <2> DEFINE f == Hand[1].of
  <2>4. FrameLen(f) \in Nat
    <3>1. Hand[1] \in Cells
      BY <1>1, <2>1, HandTyped
    <3> QED
      BY <3>1, CellTyped
  <2>5. ASSUME NEW j \in 1 .. Stop, j - 1 < FrameLen(f) PROVE Line[j].of = f /\ Line[j].pos = j
    <3>1. CASE j = 1
      BY <2>1, <2>2, <3>1
    <3>2. CASE j # 1 /\ j < Stop
      <4>1. j \in DOMAIN Hand /\ 1 < j /\ j \in 1 .. Stop - 1 /\ j - 1 \in Nat
        BY <1>1, <3>2
      <4>2. Follows(Hand[1], Hand[j], j - 1)
        BY <2>1, <4>1 DEF Gapless
      <4>3. Hand[j].of = f /\ Hand[j].pos = 1 + (j - 1)
        <5>1. 1 + (j - 1) <= FrameLen(f)
          BY <1>1, <2>4, <2>5
        <5> QED
          BY <2>2, <4>2, <5>1 DEF Follows
      <4> QED
        BY <1>1, <4>1, <4>3
    <3>3. CASE j = Stop /\ j # 1
      <4>1. Follows(Hand[1], Coming, Len(Hand) + 1 - 1)
        BY <2>1 DEF Gapless
      <4>2. Len(Hand) + 1 - 1 = j - 1 /\ 1 + (j - 1) <= FrameLen(f) /\ 1 + (j - 1) = j
        BY <1>1, <2>4, <2>5, <3>3
      <4>3. Coming.of = f /\ Coming.pos = 1 + (j - 1)
        BY <2>2, <4>1, <4>2 DEF Follows
      <4> QED
        BY <1>1, <3>3, <4>2, <4>3
    <3> QED
      BY <1>1, <3>1, <3>2, <3>3
  <2>6. \A j \in 1 .. Stop : j - 1 + 1 = j
    BY <1>1
  <2> QED
    BY <2>1, <2>2, <2>3, <2>5, <2>6 DEF Whole
<1>3. k = 1
  <2>1. CASE Len(buf) < HeaderLen
    BY <2>1 DEF WorkFrom
  <2>2. CASE ~(Len(buf) < HeaderLen)
    <3>1. Len(buf) >= 1 /\ 1 \in 1 .. Len(buf)
      BY <1>1, <2>2, Sizes
    <3>2. buf[1].val = Sof
      BY <1>1, <1>2, <3>1
    <3>3. ~(1 \in 1 .. k - 1)
      BY <3>2 DEF WorkFrom
    <3> QED
      BY <1>1, <3>3
  <2> QED
    BY <2>1, <2>2
<1> QED
  BY <1>2, <1>3

LEMMA RejectKeepsLoss ==
  ASSUME LossInv, Reject
  PROVE  LossInv'
<1>1. /\ Typed /\ Honest(Line, Stop) /\ Fits /\ Accounted /\ Settled
      /\ ParserInv /\ (faults = 0 => Gapless)
      /\ Complete(Work) /\ ~(ChecksumsMatch(Work) /\ TailMatches(Work))
      /\ buf' = From(Work, HeaderLen + 1) /\ port' = port /\ visionSeq' = visionSeq
      /\ UNCHANGED <<cur, at, faults, embedded, parsing>>
  BY DEF LossInv, ParserInv, Reject, lineVars
<1>2. PICK k \in 1 .. Len(buf) + 1 : WorkFrom(k)
  BY <1>1, WorkStart
<1> DEFINE d == k + HeaderLen - 1
<1>3. /\ Len(buf) \in Nat /\ Len(Work) = Len(buf) - k + 1 /\ Len(Work) >= HeaderLen
      /\ Work = From(buf, k) /\ buf \in Seq(Cells)
  BY <1>1, <1>2, WorkBytes DEF Complete, WorkFrom, Typed, TypeOK
<1>4. /\ d \in 0 .. Len(buf) /\ HeaderLen + 1 \in 1 .. Len(buf) - k + 2
      /\ k + (HeaderLen + 1) - 1 = d + 1
  BY <1>3, Sizes
<1>5. buf' = From(buf, d + 1)
  <2>1. From(From(buf, k), HeaderLen + 1) = From(buf, k + (HeaderLen + 1) - 1)
    BY <1>3, <1>4, FromFrom
  <2> QED
    BY <1>1, <1>3, <1>4, <2>1
<1>6. faults > 0
  <2>1. faults # 0
    BY <1>1, CleanWork
  <2>2. faults \in Nat
    BY <1>1, LossNumbers
  <2> QED
    BY <2>1, <2>2
<1>7. /\ Cardinality(Passed(d)) \in Nat /\ Cardinality(Passed(d)) <= 1
      /\ Passed(d) = {} \/ Caught(d)
  <2>1. d = k + HeaderLen - 1
    OBVIOUS
  <2> HIDE DEF d
  <2> QED
    BY <1>1, <1>2, <2>1, RejectCosts
<1> HIDE DEF d
<1>8. PaidFor(d, 1)
  <2>1. visionSeq \in Nat
    BY <1>1, LossNumbers
  <2>2. Passed(d) = {} => Cardinality(Passed(d)) = 0
    BY FS_EmptySet
  <2>3. PICK v \in Nat : v = visionSeq'
    BY <1>1, <2>1
  <2>4. visionSeq <= v /\ (Passed(d) = {} => Cardinality(Passed(d)) + visionSeq <= v)
    BY <1>1, <2>1, <2>2, <2>3
  <2> QED
    BY <1>6, <1>7, <2>3, <2>4, Zenon DEF PaidFor
<1>9. Honest(Line', Stop') /\ Fits' /\ Accounted' /\ Settled'
  BY <1>1, <1>4, <1>5, <1>8, TakingAccounts
<1>10. ParserInv'
  BY <1>1, RejectKeeps
<1>11. Honest(Line, Stop)'
  BY <1>9
<1> QED
  BY <1>9, <1>10, <1>11 DEF LossInv

LEMMA AcceptKeepsLoss ==
  ASSUME LossInv, Accept
  PROVE  LossInv'
<1>1. /\ Typed /\ Honest(Line, Stop) /\ Fits /\ Accounted /\ Settled
      /\ ParserInv /\ (faults = 0 => Gapless)
      /\ Complete(Work) /\ ChecksumsMatch(Work)
      /\ buf' = From(Work, Total(Work[2].val) + 1) /\ port' = port
      /\ UNCHANGED <<cur, at, faults, embedded, parsing>>
      /\ IF Work[1].of.vision THEN visionSeq' = visionSeq + 1 ELSE visionSeq' = visionSeq
  BY DEF LossInv, ParserInv, Accept, lineVars
<1>2. PICK k \in 1 .. Len(buf) + 1 : WorkFrom(k)
  BY <1>1, WorkStart
<1>3. /\ Len(buf) \in Nat /\ Len(Work) = Len(buf) - k + 1 /\ Work = From(buf, k)
      /\ buf \in Seq(Cells) /\ k \in Nat /\ HeaderLen \in Nat
  <2>1. Len(buf) \in Nat /\ Len(Work) = Len(buf) - k + 1
    BY <1>1, <1>2, WorkBytes
  <2>2. Work = From(buf, k)
    BY <1>2 DEF WorkFrom
  <2>3. buf \in Seq(Cells)
    BY <1>1 DEF Typed, TypeOK
  <2> QED
    BY <2>1, <2>2, <2>3, Sizes
<1>4. PICK t \in Nat : t = Total(Work[2].val) /\ t <= Len(Work)
  <2>1. Total(Work[2].val) \in HeaderLen + 1 .. Len(Work)
    BY <1>1, <1>3, WorkCells
  <2> HIDE DEF Total
  <2> QED
    BY <1>3, <2>1
<1> DEFINE d == k + t - 1
<1>5. /\ Cardinality(Passed(d)) \in Nat /\ Cardinality(Passed(d)) <= 1
      /\ \/ Work[1].of.vision \/ Passed(d) = {}
         \/ Caught(d) /\ ~Whole(Line, Stop, k)
  <2>1. d = k + Total(Work[2].val) - 1
    BY <1>4
  <2> HIDE DEF d
  <2> QED
    BY <1>1, <1>2, <2>1, AcceptCosts
<1>6. d \in 0 .. Len(buf) /\ t + 1 \in 1 .. Len(buf) - k + 2 /\ k + (t + 1) - 1 = d + 1
  BY <1>3, <1>4
<1>7. buf' = From(buf, d + 1)
  <2>1. From(From(buf, k), t + 1) = From(buf, k + (t + 1) - 1)
    BY <1>3, <1>6, FromFrom
  <2> QED
    BY <1>1, <1>3, <1>4, <1>6, <2>1
<1>8. Whole(Line, Stop, k) \/ faults > 0
  <2>1. faults \in Nat
    BY <1>1, LossNumbers
  <2>2. ASSUME faults = 0 PROVE Whole(Line, Stop, k)
    <3>1. Len(buf) >= 1
      BY <1>1, <1>3, Sizes DEF Complete
    <3> QED
      BY <1>1, <1>2, <2>2, <3>1, CleanStart
  <2> QED
    BY <2>1, <2>2
<1> HIDE DEF d
<1>9. PaidFor(d, 1)
  <2>1. visionSeq \in Nat
    BY <1>1, LossNumbers
  <2>2. Passed(d) = {} => Cardinality(Passed(d)) = 0
    BY FS_EmptySet
  <2>3. visionSeq' \in Nat
    BY <1>1, <2>1
  <2>4. PICK v \in Nat : v = visionSeq'
    BY <2>3
  <2>5. /\ visionSeq <= v
        /\ (Work[1].of.vision => Cardinality(Passed(d)) + visionSeq <= v)
        /\ (Passed(d) = {} => Cardinality(Passed(d)) + visionSeq <= v)
    BY <1>1, <1>5, <2>1, <2>2, <2>4
  <2> QED
    BY <1>5, <1>8, <2>4, <2>5, Zenon DEF PaidFor
<1>10. Honest(Line', Stop') /\ Fits' /\ Accounted' /\ Settled'
  BY <1>1, <1>6, <1>7, <1>9, TakingAccounts
<1>11. ParserInv'
  BY <1>1, AcceptKeeps
<1> QED
  BY <1>10, <1>11 DEF LossInv

\* The search ends: a buffer that outgrew MaxBuf goes, with a culprit; else what is
\* in front of the first SOF.
LEMMA DroppedKeepsLoss ==
  ASSUME LossInv, StopParsing, Len(Work) > MaxBuf
  PROVE  Honest(Line', Stop') /\ Fits' /\ Accounted' /\ Settled'
<1>1. /\ Typed /\ Honest(Line, Stop) /\ Fits /\ Accounted /\ ParserInv
      /\ (faults = 0 => Gapless) /\ ~Complete(Work)
      /\ buf' = <<>> /\ port' = port /\ visionSeq' = visionSeq /\ parsing' = FALSE
      /\ UNCHANGED <<cur, at, faults, embedded>>
  BY DEF LossInv, ParserInv, StopParsing, lineVars
<1>2. PICK k \in 1 .. Len(buf) + 1 : WorkFrom(k)
  BY <1>1, WorkStart
<1>3. /\ Len(buf) \in Nat /\ buf \in Seq(Cells) /\ Len(Work) = Len(buf) - k + 1
      /\ Len(buf) \in 0 .. Len(buf)
  <2>1. Len(buf) \in Nat /\ Len(Work) = Len(buf) - k + 1
    BY <1>1, <1>2, WorkBytes
  <2>2. buf \in Seq(Cells)
    BY <1>1 DEF Typed, TypeOK
  <2> QED
    BY <2>1, <2>2
<1>4. buf' = From(buf, Len(buf) + 1)
  BY <1>1, <1>3, SubSeqEmpty DEF From
<1>5. faults > 0
  <2>1. faults # 0
    <3>1. ~(Len(Work) <= MaxBuf)
      BY <1>2, <1>3, Sizes
    <3> QED
      BY <1>1, <3>1, CleanWork
  <2> QED
    BY <1>1, <2>1, LossNumbers
<1>6. /\ Caught(Len(buf)) /\ Cardinality(Passed(Len(buf))) \in Nat
      /\ Cardinality(Passed(Len(buf))) <= LossPerStart
  BY <1>1, <1>2, OverflowCosts DEF Fits
<1>7. LossPerStart \in Nat /\ LossPerStart <= LossPerStart /\ visionSeq \in Nat
  BY <1>1, LossNumbers
<1>8. PaidFor(Len(buf), LossPerStart)
  <2>1. PICK v \in Nat : v = visionSeq'
    BY <1>1, <1>7
  <2>2. visionSeq <= v
    BY <1>1, <1>7, <2>1
  <2> QED
    BY <1>5, <1>6, <2>1, <2>2, Zenon DEF PaidFor
<1>9. Honest(Line', Stop') /\ Fits' /\ Accounted'
  BY <1>1, <1>3, <1>4, <1>7, <1>8, AccountTaken
<1>10. Settled'
  <2>1. Searched' = 0
    <3>1. Len(buf') = 0
      BY <1>1
    <3> QED
      BY <1>1, <3>1 DEF Searched
  <2> DEFINE S == Within(Starts(Line', Stop'), 0)
  <2>2. S = {}
    <3>1. Starts(Line', Stop') \in SUBSET (1 .. Stop' - 1) /\ Stop' \in Nat
      BY <1>9, StartsApart
    <3>2. \A x \in Starts(Line', Stop') : x \in Int /\ ~(x <= 0)
      BY <3>1
    <3> QED
      BY <3>2 DEF Within
  <2>3. Passed(Searched)' = S
    BY <2>1 DEF Passed
  <2>4. Cardinality(S) <= 1
    BY <2>2, FS_EmptySet
  <2> QED
    BY <2>3, <2>4 DEF Settled
<1> QED
  BY <1>9, <1>10

\* What is waited for without being a frame leaves a culprit in the buffer.
LEMMA CulpritWaited ==
  ASSUME Typed, Honest(Line, Stop), NEW k, WorkFrom(k), k <= Len(buf), Len(buf) >= HeaderLen,
         ~(Line[k].pos = 1 /\ Whole(Line, Stop, k)),
         NEW d, d = k - 1, buf' = From(buf, d + 1), port' = port, UNCHANGED <<cur, at>>
  PROVE  Culprits(Line', Stop') # {}
<1>1. /\ Stop \in Nat /\ Len(buf) \in Nat /\ Len(buf) < Stop /\ k \in 1 .. Len(buf)
      /\ k \in 1 .. Stop /\ Line[k].val = Sof /\ d \in 0 .. Len(buf) /\ d \in 0 .. Stop - 1
      /\ 1 + d = k /\ 1 \in 1 .. Stop - d
  <2>1. k \in 1 .. Len(buf) + 1 /\ buf[k].val = Sof
    BY DEF WorkFrom
  <2>2. /\ Stop \in Nat /\ Len(buf) \in Nat /\ Len(buf) < Stop
        /\ \A j \in 1 .. Len(buf) : Line[j] = buf[j]
    BY LineIs
  <2> QED
    BY <2>1, <2>2
<1>2. /\ Stop' = Stop - d /\ \A j \in 1 .. Stop - d : Line'[j] = Line[j + d]
  BY <1>1, LineMoved
<1>3. /\ \A j \in 1 .. Stop - d : Broken(Line', Stop', j) <=> Broken(Line, Stop, j + d)
      /\ \A j \in 2 .. Stop - d : Torn(Line', j) <=> Torn(Line, j + d)
  BY <1>1, <1>2, LineDropped
<1>4. CASE Line[k].pos # 1
  <2>1. Line[k].pos \in Nat
    BY <1>1 DEF Honest
  <2>2. Broken(Line, Stop, k)
    <3>1. PICK p \in Nat : p = Line[k].pos
      BY <2>1
    <3>2. p = 0 \/ p > 1
      BY <1>4, <3>1
    <3>3. k < Stop
      BY <1>1
    <3> QED
      BY <1>1, <3>1, <3>2, <3>3 DEF Broken
  <2>3. Broken(Line', Stop', 1)
    BY <1>1, <1>3, <2>2
  <2> QED
    BY <1>1, <1>2, <2>3 DEF Culprits
<1>5. CASE Line[k].pos = 1
  <2>1. PICK j \in k + 1 .. Stop : j \in Culprits(Line, Stop)
    <3> SUFFICES ASSUME \A j \in k + 1 .. Stop : j \notin Culprits(Line, Stop) PROVE FALSE
      OBVIOUS
    <3>1. Stop \in k .. Stop
      BY <1>1
    <3>2. \A j \in k .. Stop : j - k < FrameLen(Line[k].of) =>
            Line[j].of = Line[k].of /\ Line[j].pos = j - k + 1
      BY <1>1, <1>5, <3>1, RunFrom
    <3> QED
      BY <1>5, <3>2 DEF Whole
  <2> DEFINE i == j - d
  <2>2. i \in 2 .. Stop - d /\ i \in 1 .. Stop - d /\ i + d = j
    BY <1>1
  <2>3. Broken(Line, Stop, j) \/ Torn(Line, j)
    BY <2>1 DEF Culprits
  <2> HIDE DEF i
  <2>4. Broken(Line', Stop', i) \/ Torn(Line', i)
    BY <1>3, <2>2, <2>3
  <2> QED
    BY <1>2, <2>2, <2>4 DEF Culprits
<1> QED
  BY <1>4, <1>5

LEMMA WaitKeepsLoss ==
  ASSUME LossInv, StopParsing, ~(Len(Work) > MaxBuf)
  PROVE  Honest(Line', Stop') /\ Fits' /\ Accounted' /\ Settled'
<1>1. /\ Typed /\ Honest(Line, Stop) /\ Fits /\ Accounted /\ ParserInv
      /\ (faults = 0 => Gapless) /\ ~Complete(Work)
      /\ buf' = Work /\ port' = port /\ visionSeq' = visionSeq /\ parsing' = FALSE
      /\ UNCHANGED <<cur, at, faults, embedded>>
  BY DEF LossInv, ParserInv, StopParsing, lineVars
<1>2. PICK k \in 1 .. Len(buf) + 1 : WorkFrom(k)
  BY <1>1, WorkStart
<1> DEFINE d == k - 1
<1>3. /\ Len(buf) \in Nat /\ d \in 0 .. Len(buf) /\ d + 1 = k
      /\ 0 \in Nat /\ Len(buf) \in Int
  BY <1>1, <1>2, WorkBytes
<1>4. buf' = From(buf, d + 1)
  BY <1>1, <1>2, <1>3 DEF WorkFrom
<1>5. LossPerStart \in Nat /\ 0 <= LossPerStart /\ visionSeq \in Nat /\ faults \in Nat
  BY <1>1, LossNumbers
<1>6. Cardinality(Passed(d)) = 0
  <2>1. \A x \in Starts(Line, Stop) : ~(x <= d)
    <3>1. \A x \in Starts(Line, Stop) : x \in Nat /\ x >= k
      BY <1>1, <1>2, NoStartSkipped
    <3> QED
      BY <1>3, <3>1
  <2>2. Passed(d) = {}
    BY <2>1 DEF Passed, Within
  <2> QED
    BY <2>2, FS_EmptySet
<1> HIDE DEF d
<1>7. PaidFor(d, 0)
  <2>1. PICK v \in Nat : v = visionSeq'
    BY <1>1, <1>5
  <2>2. visionSeq <= v /\ Cardinality(Passed(d)) + visionSeq <= v
    BY <1>1, <1>5, <1>6, <2>1
  <2> QED
    BY <2>1, <2>2, Zenon DEF PaidFor
<1>8. Honest(Line', Stop') /\ Fits' /\ Accounted'
  BY <1>1, <1>3, <1>4, <1>5, <1>7, AccountTaken
<1>9. Settled'
  <2> DEFINE A == k <= Len(buf) /\ Len(buf) >= HeaderLen => Line[k].pos = 1 /\ Whole(Line, Stop, k)
             S == Within(Starts(Line', Stop'), Len(buf) - d)
  <2>1. CASE A
    <3>1. Cardinality(Passed(Len(buf))) \in Nat /\ Cardinality(Passed(Len(buf))) <= 1
      BY <1>1, <1>2, <2>1, WaitCosts
    <3>2. /\ Len(buf') = Len(buf) - d /\ Cardinality(S) <= Cardinality(Passed(Len(buf)))
          /\ Cardinality(S) \in Nat
      <4>1. Len(buf) - d \in Int
        BY <1>3
      <4> QED
        BY <1>1, <1>3, <1>4, <4>1, TakenCounts
    <3>3. Searched' = Len(buf) - d
      <4>1. Len(buf) - d \in Nat
        BY <1>3
      <4> QED
        BY <1>1, <3>2, <4>1 DEF Searched
    <3>4. Passed(Searched)' = S
      BY <3>3 DEF Passed
    <3> HIDE DEF S
    <3>5. Cardinality(S) <= 1
      BY <3>1, <3>2
    <3> QED
      BY <3>4, <3>5 DEF Settled
  <2>2. CASE ~A
    <3>1. Culprits(Line', Stop') # {}
      <4>1. d = k - 1
        BY DEF d
      <4> QED
        BY <1>1, <1>2, <1>4, <2>2, <4>1, CulpritWaited
    <3>2. Culpable' # 0
      <4>1. /\ IsFiniteSet(Culprits(Line', Stop'))
        BY <1>8, CulpritsFinite
      <4>2. Cardinality(Culprits(Line', Stop')) # 0
        BY <3>1, <4>1, FS_EmptySet
      <4> QED
        BY <4>2 DEF Culpable
    <3>3. faults > 0
      <4>1. faults # 0
        <5>1. Len(buf) >= 1
          BY <1>3, <2>2, Sizes
        <5> QED
          BY <1>1, <1>2, <2>2, <5>1, CleanStart
      <4> QED
        BY <1>5, <4>1
    <3>4. faults' > 0
      BY <1>1, <3>3
    <3> QED
      BY <3>2, <3>4 DEF Settled
  <2> QED
    BY <2>1, <2>2
<1> QED
  BY <1>8, <1>9

LEMMA StopParsingKeepsLoss ==
  ASSUME LossInv, StopParsing
  PROVE  LossInv'
<1>1. Honest(Line, Stop)' /\ Fits' /\ Accounted' /\ Settled'
  BY DroppedKeepsLoss, WaitKeepsLoss
<1>2. ParserInv'
  BY StopParsingKeeps DEF LossInv
<1> QED
  BY <1>1, <1>2 DEF LossInv

\* Reading takes bytes from the port: the last of them are yet to be searched.
LEMMA FeedKeepsLoss ==
  ASSUME LossInv, Feed
  PROVE  LossInv'
<1>1. /\ Typed /\ Honest(Line, Stop) /\ Accounted /\ Settled /\ ParserInv
      /\ parsing = FALSE /\ parsing' = TRUE /\ visionSeq' = visionSeq
      /\ cur' = cur /\ at' = at /\ faults' = faults /\ embedded' = embedded
  BY DEF LossInv, ParserInv, Typed, TypeOK, Feed, lineVars
<1>2. PICK n \in 1 .. Len(port) : /\ buf' = buf \o SubSeq(port, 1, n)
                                  /\ port' = SubSeq(port, n + 1, Len(port))
  BY DEF Feed
<1>3. Hand' = Hand /\ Len(port) \in Nat /\ Len(buf) \in Nat
  BY <1>1, <1>2, HandFed, HandTyped
<1>4. Coming' = Coming
  BY <1>1 DEF Coming, Place
<1>5. Stop' = Stop
  BY <1>3 DEF Stop
<1>6. Line' = Line
  BY <1>3, <1>4, <1>5 DEF Line
<1>7. Len(buf') = Len(buf) + n
  <2>1. buf \in Seq(Cells) /\ port \in Seq(Cells)
    BY <1>1 DEF Typed, TypeOK
  <2> DEFINE s == SubSeq(port, 1, n)
  <2>2. s \in Seq(Cells) /\ Len(s) = n
    <3>1. \A i \in 1 .. n : i \in 1 .. Len(port)
      BY <1>3
    <3>2. \A i \in 1 .. n : port[i] \in Cells
      BY <2>1, <3>1, ElementOfSeq
    <3> QED
      BY <1>3, <2>1, <3>2, SubSeqProperties
  <2> HIDE DEF s
  <2>3. buf' = buf \o s
    BY <1>2 DEF s
  <2> QED
    BY <2>1, <2>2, <2>3, ConcatProperties
<1>8. n \in Nat /\ n <= PortCap /\ Len(buf) <= MaxBuf
  BY <1>1, <1>3, Sizes DEF Typed, TypeOK
<1>9. Fits'
  <2>1. Len(buf) + n <= MaxBuf + PortCap
    BY <1>3, <1>8, Sizes
  <2> QED
    BY <1>7, <2>1 DEF Fits
<1>10. /\ Takeable' = Takeable /\ Culpable' = Culpable /\ Started' = Started
       /\ LossPerStart' = LossPerStart
  BY <1>1, <1>5, <1>6 DEF Takeable, Culpable, Started, LossPerStart, FramesIn
<1>11. Accounted' /\ Spare' = Spare
  BY <1>1, <1>10 DEF Accounted, Spare
<1>12. Settled'
  <2>1. CASE Cardinality(Passed(Searched)) <= 1
    <3> DEFINE e == Len(buf) + n - PortCap
    <3>1. Searched' = e /\ Searched = Len(buf) /\ e <= Len(buf) /\ e \in Int
      BY <1>1, <1>3, <1>7, <1>8, Sizes DEF Searched
    <3> HIDE DEF e
    <3>2. Passed(Searched)' = Passed(e)
      BY <1>5, <1>6, <3>1 DEF Passed
    <3>3. Passed(e) \in SUBSET Passed(Searched)
      <4>1. \A x \in Starts(Line, Stop) : x <= e => x <= Searched
        <5>1. \A x \in Starts(Line, Stop) : x \in Int
          BY <1>1, StartsApart
        <5> QED
          BY <1>3, <3>1, <5>1
      <4> QED
        BY <4>1 DEF Passed, Within
    <3>4. IsFiniteSet(Passed(Searched)) /\ Cardinality(Passed(Searched)) \in Nat
      <4>1. Passed(Searched) \in SUBSET Starts(Line, Stop)
        BY DEF Passed, Within
      <4> QED
        BY <1>1, <4>1, StartsApart
    <3> DEFINE a == Cardinality(Passed(e))
               b == Cardinality(Passed(Searched))
    <3>5. a <= b /\ a \in Nat
      BY <3>3, <3>4, FS_Subset, FS_CardinalityType
    <3>6. b <= 1 /\ b \in Nat
      BY <2>1, <3>4
    <3> HIDE DEF a, b
    <3>7. a <= 1
      BY <3>5, <3>6
    <3> QED
      BY <3>2, <3>7 DEF Settled, a
  <2>2. CASE ~(Cardinality(Passed(Searched)) <= 1)
    BY <1>1, <1>10, <1>11, <2>2 DEF Settled
  <2> QED
    BY <2>1, <2>2
<1>13. Honest(Line, Stop)'
  BY <1>1, <1>5, <1>6
<1>14. ParserInv'
  BY <1>1, FeedKeeps
<1> QED
  BY <1>9, <1>11, <1>12, <1>13, <1>14 DEF LossInv

\* The place of the byte to come moves on, within the frame or to the next one's
\* start.
LEMMA ComingMoves ==
  ASSUME Typed, Honest(Line, Stop), Advance, cur.id <= MaxFrames
  PROVE  /\ Joined(Coming, Coming') /\ Coming'.pos \in Nat /\ Coming'.pos > 0
         /\ Coming'.pos <= FrameLen(Coming'.of)
         /\ Coming'.of.len \in VisionLens \cup OtherLens
         /\ Coming'.of.vision => Coming'.of.len \in VisionLens
         /\ Coming.of = cur /\ Coming.pos = at /\ at \in Nat /\ at >= 1
         /\ Started' = IF cur.vision /\ at = 1 THEN Started + 1 ELSE Started
<1>1. /\ cur.ord \in Nat /\ cur.vision \in BOOLEAN /\ cur.len \in Nat
      /\ at \in 1 .. FrameLen(cur) /\ FrameLen(cur) \in Nat /\ FrameLen(cur) >= 3
  <2>1. cur \in FrameTypes(MaxFrames + 1) /\ cur.len \in VisionLens \cup OtherLens
    BY DEF Typed
  <2>2. cur.ord \in 0 .. MaxFrames + 1 /\ cur.vision \in BOOLEAN
    BY <2>1 DEF FrameTypes
  <2>3. cur.len \in Nat
    BY <2>1, Sizes
  <2>4. FrameLen(cur) \in Nat /\ FrameLen(cur) - TailLen >= 3 /\ TailLen \in Nat
    BY <2>3, FrameLenNat, Sizes
  <2> QED
    BY <2>2, <2>3, <2>4 DEF Typed
<1>2. Coming.of = cur /\ Coming.pos = at /\ Coming'.of = cur' /\ Coming'.pos = at'
  BY DEF Coming, Place
<1>3. cur.len \in VisionLens \cup OtherLens /\ (cur.vision => cur.len \in VisionLens)
  <2>1. Line[Stop] = Coming /\ Stop \in Nat \ {0} /\ Stop \in 1 .. Stop
    BY LineIs
  <2>2. Line[Stop].of = cur /\ Line[Stop].pos > 0
    BY <1>1, <1>2, <2>1
  <2> QED
    BY <2>1, <2>2 DEF Honest
<1>4. at' \in 1 .. FrameLen(cur')
  BY AdvanceStep
<1>5. CASE at < FrameLen(cur)
  <2>1. at' = at + 1 /\ cur' = cur
    BY <1>5 DEF Advance
  <2>2. Started' = IF cur.vision /\ at = 1 THEN Started + 1 ELSE Started
    BY <1>1, <2>1 DEF Started
  <2>3. at' \in Nat /\ at' > 0 /\ at' <= FrameLen(cur')
    BY <1>1, <1>5, <2>1
  <2> QED
    BY <1>1, <1>2, <1>3, <1>5, <2>1, <2>2, <2>3 DEF Joined
<1>6. CASE ~(at < FrameLen(cur))
  <2>1. at' = 1 /\ cur' \in FramesAfter(cur) /\ at # 1
    BY <1>1, <1>6 DEF Advance
  <2>2. /\ cur'.len \in VisionLens \cup OtherLens /\ (cur'.vision => cur'.len \in VisionLens)
        /\ \/ cur'.vision = TRUE /\ cur'.ord = cur.ord + 1
           \/ cur'.vision = FALSE /\ cur'.ord = cur.ord
    BY <2>1 DEF FramesAfter
  <2>3. Started' = cur.ord /\ Started = cur.ord
    <3>1. cur'.vision = TRUE /\ cur'.ord = cur.ord + 1 => Started' = cur.ord
      BY <1>1, <2>1 DEF Started
    <3>2. cur'.vision = FALSE /\ cur'.ord = cur.ord => Started' = cur.ord
      BY <1>1, <2>1 DEF Started
    <3> QED
      BY <2>1, <2>2, <3>1, <3>2 DEF Started
  <2>4. at' \in Nat /\ at' > 0 /\ at' <= FrameLen(cur')
    <3>1. cur'.len \in Nat
      BY <2>2, Sizes
    <3>2. FrameLen(cur') \in Nat
      BY <3>1, FrameLenNat
    <3> QED
      BY <1>4, <2>1, <3>2
  <2> QED
    BY <1>1, <1>2, <1>6, <2>1, <2>2, <2>3, <2>4 DEF Joined
<1> QED
  BY <1>5, <1>6

\* The line after a byte got lost, and after one came.
LEMMA LineKept ==
  ASSUME Typed, buf' = buf, port' = port
  PROVE  /\ Stop \in Nat \ {0} /\ Stop' = Stop /\ Line'[Stop] = Coming'
         /\ \A j \in 1 .. Stop - 1 : Line'[j] = Line[j]
<1>1. /\ Stop \in Nat \ {0} /\ Stop = Len(Hand) + 1
      /\ \A j \in 1 .. Stop - 1 : Line[j] = Hand[j]
  BY LineIs DEF Stop
<1>2. Stop' = Len(Hand') + 1 /\ Line' = [j \in 1 .. Stop' |-> IF j < Stop' THEN Hand'[j] ELSE Coming']
  BY DEF Line, Stop
<1>3. Hand' = Hand
  BY DEF Hand
<1>4. Stop' = Stop
  BY <1>1, <1>2, <1>3
<1>5. Line' = [j \in 1 .. Stop |-> IF j < Stop THEN Hand[j] ELSE Coming']
  BY <1>2, <1>3, <1>4
<1>6. Line'[Stop] = Coming' /\ \A j \in 1 .. Stop - 1 : Line'[j] = Hand[j]
  BY <1>1, <1>5
<1> QED
  BY <1>1, <1>4, <1>6

LEMMA LineGrown ==
  ASSUME Typed, buf' = buf, NEW c \in Cells, port' = Append(port, c)
  PROVE  /\ Stop \in Nat \ {0} /\ Stop' = Stop + 1 /\ Line'[Stop] = c
         /\ Line'[Stop + 1] = Coming'
         /\ \A j \in 1 .. Stop - 1 : Line'[j] = Line[j]
<1>1. /\ Stop \in Nat \ {0} /\ Stop = Len(Hand) + 1
      /\ \A j \in 1 .. Stop - 1 : Line[j] = Hand[j]
  BY LineIs DEF Stop
<1>2. Stop' = Len(Hand') + 1 /\ Line' = [j \in 1 .. Stop' |-> IF j < Stop' THEN Hand'[j] ELSE Coming']
  BY DEF Line, Stop
<1>3. /\ Len(Hand') = Len(Hand) + 1 /\ Hand'[Len(Hand) + 1] = c
      /\ \A i \in 1 .. Len(Hand) : Hand'[i] = Hand[i]
  BY HandAppended
<1>4. PICK n \in Nat : n = Len(Hand)
  BY <1>1, HandTyped
<1>5. Stop = n + 1 /\ Stop' = n + 2
  BY <1>1, <1>2, <1>3, <1>4
<1>6. Line' = [j \in 1 .. n + 2 |-> IF j < n + 2 THEN Hand'[j] ELSE Coming']
  BY <1>2, <1>5
<1>7. Line'[n + 1] = c /\ Line'[n + 2] = Coming'
  BY <1>3, <1>4, <1>6
<1>8. ASSUME NEW j \in 1 .. n PROVE Line'[j] = Hand[j]
  BY <1>3, <1>4, <1>6
<1> QED
  BY <1>1, <1>5, <1>7, <1>8

\* An honest line stays so with another byte that is one of its frame or none.
LEMMA HonestExtended ==
  ASSUME Typed, Honest(Line, Stop), Advance, cur.id <= MaxFrames,
         NEW last \in {Stop, Stop + 1}, NEW rest, rest[last] = Coming',
         \A j \in 1 .. Stop - 1 : rest[j] = Line[j],
         last = Stop + 1 =>
           /\ rest[Stop].pos \in Nat
           /\ \/ rest[Stop].pos = 0
              \/ rest[Stop].of = cur /\ rest[Stop].pos = at /\ rest[Stop].val \in Sent(cur, at)
  PROVE  Honest(rest, last)
<1>1. Stop \in Nat \ {0} /\ last \in Nat \ {0}
  BY LineIs
<1>2. /\ Coming'.pos \in Nat /\ Coming'.pos > 0 /\ Coming'.pos <= FrameLen(Coming'.of)
      /\ Coming'.of.len \in VisionLens \cup OtherLens
      /\ Coming'.of.vision => Coming'.of.len \in VisionLens
      /\ Coming.of = cur /\ Coming.pos = at /\ at \in Nat /\ at >= 1
  BY ComingMoves
<1> DEFINE Good(c) == /\ c.of.len \in VisionLens \cup OtherLens
                      /\ c.of.vision => c.of.len \in VisionLens
                      /\ c.pos <= FrameLen(c.of)
           Fine(j) == /\ rest[j].pos \in Nat
                      /\ rest[j].pos > 0 => /\ Good(rest[j])
                                            /\ j < last => rest[j].val \in Sent(rest[j].of, rest[j].pos)
<1>3. ASSUME NEW j \in 1 .. Stop - 1 PROVE Fine(j)
  <2>1. j \in 1 .. Stop /\ j < Stop /\ rest[j] = Line[j]
    BY <1>1
  <2> QED
    BY <2>1 DEF Honest
<1>4. Fine(last)
  BY <1>1, <1>2
<1>5. ASSUME last = Stop + 1 PROVE Fine(Stop)
  <2>1. CASE rest[Stop].pos = 0
    BY <2>1
  <2>2. CASE rest[Stop].of = cur /\ rest[Stop].pos = at /\ rest[Stop].val \in Sent(cur, at)
    <3>1. Line[Stop] = Coming /\ Stop \in 1 .. Stop
      BY <1>1, LineIs
    <3>2. Coming.pos > 0
      BY <1>2
    <3>3. Good(Coming)
      BY <3>1, <3>2 DEF Honest
    <3>4. Good(rest[Stop])
      BY <1>2, <2>2, <3>3
    <3> HIDE DEF Good
    <3> QED
      BY <1>2, <2>2, <3>4
  <2> QED
    BY <1>5, <2>1, <2>2
<1> HIDE DEF Fine
<1>6. \A j \in 1 .. last : Fine(j)
  <2>1. \A j \in 1 .. last : j \in 1 .. Stop - 1 \/ j = last \/ (j = Stop /\ last = Stop + 1)
    BY <1>1
  <2> QED
    BY <1>3, <1>4, <1>5, <2>1
<1>7. rest[last].pos > 0
  BY <1>2
<1> QED
  BY <1>1, <1>6, <1>7 DEF Honest, Fine

\* Sending starts a frame or goes on with one, and adds a culprit only with a SOF
\* inside a frame.
LEMMA TransmitCounts ==
  ASSUME LossInv, Transmit
  PROVE  /\ Honest(Line', Stop') /\ Takeable' \in Nat /\ Culpable' \in Nat /\ Started' \in Int
         /\ Started' + Takeable <= Started + Takeable'
         /\ embedded' \in {embedded, embedded + 1}
         /\ Culpable <= Culpable' /\ Culpable' + embedded <= Culpable + embedded'
         /\ \A e \in Int : e < Stop => Within(Starts(Line', Stop'), e) \subseteq Passed(e)
<1>1. /\ Typed /\ Honest(Line, Stop) /\ ParserInv /\ Advance /\ cur.id <= MaxFrames /\ buf' = buf
  BY DEF LossInv, ParserInv, Transmit, Sending, parserVars
<1>2. PICK v \in Sent(cur, at) :
        /\ port' = Append(port, [of |-> cur, pos |-> at, val |-> v])
        /\ embedded' = IF v = Sof /\ at # 1 THEN embedded + 1 ELSE embedded
  BY DEF Transmit
<1> DEFINE c == [of |-> cur, pos |-> at, val |-> v]
<1>3. c \in Cells /\ c.of = cur /\ c.pos = at /\ c.val = v /\ port' = Append(port, c)
  BY <1>1, <1>2, SentTyped
<1> HIDE DEF c
<1>4. /\ Stop \in Nat \ {0} /\ Stop' = Stop + 1 /\ Line'[Stop] = c /\ Line'[Stop + 1] = Coming'
      /\ \A j \in 1 .. Stop - 1 : Line'[j] = Line[j]
  BY <1>1, <1>3, LineGrown
<1>5. /\ Line[Stop] = Coming /\ Coming.of = cur /\ Coming.pos = at /\ at \in Nat /\ at >= 1
      /\ Joined(Coming, Coming')
      /\ Started' = IF cur.vision /\ at = 1 THEN Started + 1 ELSE Started
  BY <1>1, ComingMoves, LineIs
<1>6. Honest(Line', Stop + 1)
  BY <1>1, <1>3, <1>4, <1>5, HonestExtended
<1> DEFINE S == Starts(Line, Stop)
           S2 == Starts(Line', Stop + 1)
           C == Culprits(Line, Stop)
           C2 == Culprits(Line', Stop + 1)
<1>7. /\ S \subseteq S2 /\ S2 \subseteq S \cup {Stop}
      /\ cur.vision /\ at = 1 => Stop \in S2
      /\ C \subseteq C2 /\ C2 \subseteq C \cup {Stop}
      /\ Stop \in C2 /\ ~(at > 1 /\ v = Sof) => Stop \in C
  BY <1>1, <1>3, <1>4, <1>5, <1>6, LineSent
<1>8. /\ S \in SUBSET (1 .. Stop - 1) /\ IsFiniteSet(S) /\ IsFiniteSet(S2)
      /\ IsFiniteSet(C) /\ IsFiniteSet(C2)
  BY <1>1, <1>6, StartsApart, CulpritsFinite
<1>9. Stop \notin S
  BY <1>4, <1>8
<1>10. /\ Takeable = Cardinality(S) /\ Takeable' = Cardinality(S2)
       /\ Culpable = Cardinality(C) /\ Culpable' = Cardinality(C2)
  BY <1>4 DEF Takeable, Culpable
<1>11. \A e \in Int : e < Stop => Within(Starts(Line', Stop'), e) \subseteq Passed(e)
  <2>1. Starts(Line', Stop') = S2
    BY <1>4
  <2> HIDE DEF S2, S
  <2>2. ASSUME NEW e \in Int, e < Stop, NEW x \in Within(S2, e) PROVE x \in Within(S, e)
    <3>1. x \in S2 /\ x <= e /\ x # Stop
      BY <1>4, <2>2 DEF Within
    <3> QED
      BY <1>7, <3>1 DEF Within
  <2> QED
    BY <2>1, <2>2 DEF Passed, S
<1> HIDE DEF S, S2, C, C2
<1>12. /\ Cardinality(S) \in Nat /\ Cardinality(S2) \in Nat
       /\ Cardinality(C) \in Nat /\ Cardinality(C2) \in Nat
       /\ Cardinality(S) <= Cardinality(S2) /\ Cardinality(C) <= Cardinality(C2)
  BY <1>7, <1>8, FS_CardinalityType, FS_Subset
<1>13. cur.vision /\ at = 1 => Cardinality(S) + 1 <= Cardinality(S2)
  <2> SUFFICES ASSUME cur.vision, at = 1 PROVE Cardinality(S) + 1 <= Cardinality(S2)
    OBVIOUS
  <2>1. S \cup {Stop} \in SUBSET S2
    BY <1>7
  <2>2. Cardinality(S \cup {Stop}) = Cardinality(S) + 1
    BY <1>8, <1>9, FS_AddElement
  <2>3. Cardinality(S \cup {Stop}) <= Cardinality(S2)
    BY <1>8, <2>1, FS_Subset
  <2> QED
    BY <2>2, <2>3
<1>14. /\ Cardinality(C2) <= Cardinality(C) + 1
       /\ ~(at # 1 /\ v = Sof) => Cardinality(C2) <= Cardinality(C)
  <2>1. Cardinality(C \cup {Stop}) <= Cardinality(C) + 1 /\ IsFiniteSet(C \cup {Stop})
    <3>1. /\ IsFiniteSet(C \cup {Stop})
          /\ Cardinality(C \cup {Stop}) = IF Stop \in C THEN Cardinality(C) ELSE Cardinality(C) + 1
      BY <1>8, FS_AddElement
    <3> QED
      BY <1>12, <3>1
  <2>2. Cardinality(C2) <= Cardinality(C \cup {Stop})
    BY <1>7, <2>1, FS_Subset
  <2>3. Cardinality(C \cup {Stop}) \in Nat
    BY <2>1, FS_CardinalityType
  <2>4. ASSUME ~(at # 1 /\ v = Sof) PROVE Cardinality(C2) <= Cardinality(C)
    <3>1. ~(at > 1 /\ v = Sof)
      BY <1>5, <2>4
    <3>2. C2 \in SUBSET C
      BY <1>7, <3>1
    <3> QED
      BY <1>8, <3>2, FS_Subset
  <2> QED
    BY <1>12, <2>1, <2>2, <2>3, <2>4
<1>15. embedded \in Nat /\ Started \in Int
  BY <1>1, LossNumbers
<1>16. /\ Started' \in Int /\ Started' + Takeable <= Started + Takeable'
  <2>1. PICK s \in Int : s = Started'
    BY <1>5, <1>15
  <2> DEFINE a == Cardinality(S)
             b == Cardinality(S2)
  <2>2. /\ a \in Nat /\ b \in Nat /\ a <= b /\ (cur.vision /\ at = 1 => a + 1 <= b)
        /\ s = IF cur.vision /\ at = 1 THEN Started + 1 ELSE Started
    BY <1>5, <1>12, <1>13, <2>1
  <2> HIDE DEF a, b
  <2>3. s + a <= Started + b
    BY <1>15, <2>2
  <2> QED
    BY <1>10, <2>1, <2>3 DEF a, b
<1>17. /\ embedded' \in {embedded, embedded + 1}
       /\ Culpable' + embedded <= Culpable + embedded'
  <2>1. PICK f \in Nat : f = embedded'
    BY <1>2, <1>15
  <2> DEFINE a == Cardinality(C)
             b == Cardinality(C2)
  <2>2. /\ a \in Nat /\ b \in Nat /\ b <= a + 1 /\ (~(at # 1 /\ v = Sof) => b <= a)
        /\ f = IF v = Sof /\ at # 1 THEN embedded + 1 ELSE embedded
    BY <1>2, <1>12, <1>14, <2>1
  <2> HIDE DEF a, b
  <2>3. b + embedded <= a + f
    BY <1>15, <2>2
  <2> QED
    BY <1>10, <2>1, <2>2, <2>3 DEF a, b
<1> QED
  BY <1>4, <1>6, <1>10, <1>11, <1>12, <1>16, <1>17

LEMMA TransmitKeepsLoss ==
  ASSUME LossInv, Transmit
  PROVE  LossInv'
<1>1. /\ Typed /\ Honest(Line, Stop) /\ Fits /\ Accounted /\ Settled /\ ParserInv
      /\ buf' = buf /\ parsing' = parsing /\ visionSeq' = visionSeq /\ faults' = faults
  BY DEF LossInv, ParserInv, Transmit, parserVars
<1>2. /\ Honest(Line', Stop') /\ Takeable' \in Nat /\ Culpable' \in Nat /\ Started' \in Int
      /\ Started' + Takeable <= Started + Takeable'
      /\ embedded' \in {embedded, embedded + 1}
      /\ Culpable <= Culpable' /\ Culpable' + embedded <= Culpable + embedded'
      /\ \A e \in Int : e < Stop => Within(Starts(Line', Stop'), e) \subseteq Passed(e)
  BY TransmitCounts
<1>3. /\ LossPerStart \in Nat \ {0} /\ Takeable \in Nat /\ Culpable \in Nat
      /\ Started \in Int /\ faults \in Nat /\ embedded \in Nat /\ visionSeq \in Nat
      /\ Searched \in Int /\ Cardinality(Passed(Searched)) \in Nat
      /\ Len(buf) \in Nat /\ Len(buf) < Stop /\ Stop \in Nat
  BY <1>1, LossNumbers, LineIs
<1>4. LossPerStart' = LossPerStart
  BY DEF LossPerStart, FramesIn
<1>5. PICK w \in Nat : w = Takeable'
  BY <1>2
<1>6. PICK c \in Nat : c = Culpable'
  BY <1>2
<1>7. PICK s \in Int : s = Started'
  BY <1>2
<1>8. PICK e \in {0, 1} : embedded' = embedded + e
  BY <1>2, <1>3
<1>9. s + Takeable <= Started + w /\ Culpable <= c /\ c <= Culpable + e
  <2>1. PICK f \in Nat : f = embedded'
    BY <1>3, <1>8
  <2>2. f = embedded + e /\ c + embedded <= Culpable + f
    BY <1>2, <1>6, <1>8, <2>1
  <2>3. s + Takeable <= Started + w /\ Culpable <= c
    BY <1>2, <1>5, <1>6, <1>7
  <2> HIDE DEF Takeable, Culpable, Started
  <2> QED
    BY <1>3, <2>2, <2>3
<1>10. /\ Culpable <= faults + embedded
       /\ Started <= visionSeq + Takeable
            + IF faults = 0 THEN 0 ELSE faults + LossPerStart * (faults + embedded - Culpable)
  BY <1>1 DEF Accounted
<1>11. /\ c <= faults + (embedded + e)
       /\ s <= visionSeq + w
            + IF faults = 0 THEN 0 ELSE faults + LossPerStart * (faults + (embedded + e) - c)
       /\ Started + LossPerStart <= visionSeq + Takeable + faults + LossPerStart * (faults + embedded) + 1
            => s + LossPerStart <= visionSeq + w + faults + LossPerStart * (faults + (embedded + e)) + 1
  BY <1>3, <1>9, <1>10, SumSent
<1>12. Accounted'
  BY <1>1, <1>4, <1>5, <1>6, <1>7, <1>8, <1>11 DEF Accounted
<1>13. Spare => Spare'
  BY <1>1, <1>4, <1>5, <1>7, <1>8, <1>11 DEF Spare
<1>14. Fits'
  BY <1>1 DEF Fits
<1>15. Settled'
  <2>1. CASE Cardinality(Passed(Searched)) <= 1
    <3>1. Searched < Stop
      BY <1>3, Sizes DEF Searched
    <3>2. Passed(Searched)' \in SUBSET Passed(Searched)
      <4>1. Searched' = Searched
        BY <1>1 DEF Searched
      <4>2. Passed(Searched)' = Within(Starts(Line', Stop'), Searched)
        BY <4>1 DEF Passed
      <4> QED
        BY <1>2, <1>3, <3>1, <4>2
    <3>3. IsFiniteSet(Passed(Searched))
      <4>1. Passed(Searched) \in SUBSET Starts(Line, Stop)
        BY DEF Passed, Within
      <4> QED
        BY <1>1, <4>1, StartsApart
    <3> DEFINE S == Passed(Searched)'
    <3>4. Cardinality(S) <= Cardinality(Passed(Searched)) /\ Cardinality(S) \in Nat
      <4> HIDE DEF S
      <4>1. S \in SUBSET Passed(Searched)
        BY <3>2 DEF S
      <4> QED
        BY <3>3, <4>1, FS_Subset, FS_CardinalityType
    <3> HIDE DEF S
    <3>5. Cardinality(S) <= 1
      BY <1>3, <2>1, <3>4
    <3> QED
      BY <3>5 DEF Settled, S
  <2>2. CASE ~(Cardinality(Passed(Searched)) <= 1)
    <3>1. faults > 0 /\ (Culpable = 0 => Spare)
      BY <1>1, <2>2 DEF Settled
    <3>2. c = 0 => Culpable = 0
      BY <1>3, <1>9
    <3>3. Culpable' = 0 => Spare'
      BY <1>6, <1>13, <3>1, <3>2
    <3> QED
      BY <1>1, <3>1, <3>3 DEF Settled
  <2> QED
    BY <2>1, <2>2
<1>16. ParserInv'
  BY <1>1, TransmitKeeps
<1>17. Honest(Line, Stop)'
  BY <1>2
<1> QED
  BY <1>12, <1>14, <1>15, <1>16, <1>17 DEF LossInv

\* A fault ends the frame that is being sent, at most, and adds at most a culprit.
LEMMA FaultCounts ==
  ASSUME LossInv, Damage \/ Lose
  PROVE  /\ Honest(Line', Stop') /\ Takeable' \in Nat /\ Culpable' \in Nat /\ Started' \in Int
         /\ Culpable' <= Culpable + 1
         /\ \E o \in {0, 1} : Takeable <= Takeable' + o /\ Started' + o <= Started + 1
<1>1. /\ Typed /\ Honest(Line, Stop) /\ ParserInv /\ Advance /\ cur.id <= MaxFrames /\ buf' = buf
  BY DEF LossInv, ParserInv, Damage, Lose, Sending, parserVars
<1>2. PICK last \in {Stop, Stop + 1} :
        /\ Stop' = last /\ Line'[last] = Coming' /\ Stop \in Nat \ {0}
        /\ \A j \in 1 .. Stop - 1 : Line'[j] = Line[j]
        /\ last = Stop + 1 => Line'[Stop].pos = 0
  <2>1. CASE Lose
    <3>1. port' = port
      BY <2>1 DEF Lose
    <3>2. /\ Stop \in Nat \ {0} /\ Stop' = Stop /\ Line'[Stop] = Coming'
          /\ \A j \in 1 .. Stop - 1 : Line'[j] = Line[j]
      BY <1>1, <3>1, LineKept
    <3>3. Stop # Stop + 1
      BY <3>2
    <3> QED
      BY <3>2, <3>3
  <2>2. CASE Damage
    <3>1. PICK w \in Bytes : port' = Append(port, [of |-> NoFrame, pos |-> 0, val |-> w])
      BY <2>2 DEF Damage
    <3> DEFINE c == [of |-> NoFrame, pos |-> 0, val |-> w]
    <3>2. c \in Cells /\ c.pos = 0
      BY NoFrameTyped DEF Cells, FrameTypes
    <3> HIDE DEF c
    <3>3. port' = Append(port, c)
      BY <3>1 DEF c
    <3>4. /\ Stop \in Nat \ {0} /\ Stop' = Stop + 1 /\ Line'[Stop] = c
          /\ Line'[Stop + 1] = Coming'
          /\ \A j \in 1 .. Stop - 1 : Line'[j] = Line[j]
      BY <1>1, <3>2, <3>3, LineGrown
    <3> QED
      BY <3>2, <3>4
  <2> QED
    BY <2>1, <2>2
<1>3. /\ Line[Stop] = Coming /\ Coming.of = cur /\ Coming.pos = at /\ at \in Nat /\ at >= 1
      /\ Started' = IF cur.vision /\ at = 1 THEN Started + 1 ELSE Started
  BY <1>1, ComingMoves, LineIs
<1>4. Honest(Line', last)
  <2>1. last = Stop + 1 => Line'[Stop].pos \in Nat
    BY <1>2
  <2> QED
    BY <1>1, <1>2, <2>1, HonestExtended
<1> DEFINE S == Starts(Line, Stop)
           S2 == Starts(Line', last)
           C == Culprits(Line, Stop)
           C2 == Culprits(Line', last)
           O == Open(Line, Stop)
<1>5. S \ O \subseteq S2 /\ C2 \subseteq C \cup {Stop}
  BY <1>1, <1>2, LineFaulted
<1>6. /\ IsFiniteSet(S) /\ IsFiniteSet(S2) /\ IsFiniteSet(C) /\ IsFiniteSet(C2)
  BY <1>1, <1>4, StartsApart, CulpritsFinite
<1>7. /\ O # {} => at > 1
      /\ IsFiniteSet(O) /\ Cardinality(O) \in Nat /\ Cardinality(O) <= 1
  BY <1>1, <1>3, OpenIsOne
<1>8. O \subseteq S
  BY DEF Open
<1>9. /\ Takeable = Cardinality(S) /\ Takeable' = Cardinality(S2)
      /\ Culpable = Cardinality(C) /\ Culpable' = Cardinality(C2)
  BY <1>2 DEF Takeable, Culpable
<1> HIDE DEF S, S2, C, C2, O
<1>10. /\ Cardinality(S) \in Nat /\ Cardinality(S2) \in Nat
       /\ Cardinality(C) \in Nat /\ Cardinality(C2) \in Nat
  BY <1>6, FS_CardinalityType
<1>11. Cardinality(S) <= Cardinality(S2) + Cardinality(O)
  <2>1. IsFiniteSet(S \ O) /\ Cardinality(S \ O) = Cardinality(S) - Cardinality(S \cap O)
    BY <1>6, FS_Difference
  <2>2. S \cap O = O
    BY <1>8
  <2>3. Cardinality(S \ O) <= Cardinality(S2)
    BY <1>5, <1>6, FS_Subset
  <2> QED
    BY <1>7, <1>10, <2>1, <2>2, <2>3
<1>12. Cardinality(C2) <= Cardinality(C) + 1
  <2>1. /\ IsFiniteSet(C \cup {Stop})
        /\ Cardinality(C \cup {Stop}) = IF Stop \in C THEN Cardinality(C) ELSE Cardinality(C) + 1
    BY <1>6, FS_AddElement
  <2>2. Cardinality(C2) <= Cardinality(C \cup {Stop})
    BY <1>5, <2>1, FS_Subset
  <2> QED
    BY <1>10, <2>1, <2>2
<1>13. Started \in Int
  BY <1>1, LossNumbers
<1>14. Cardinality(O) \in {0, 1} /\ (at = 1 => Cardinality(O) = 0)
  <2>1. O = {} => Cardinality(O) = 0
    BY FS_EmptySet
  <2>2. at = 1 => O = {}
    BY <1>7
  <2> QED
    BY <1>7, <2>1, <2>2
<1>15. PICK s \in Int : s = Started'
  BY <1>3, <1>13
<1>16. s + Cardinality(O) <= Started + 1
  <2>1. s = IF cur.vision /\ at = 1 THEN Started + 1 ELSE Started
    BY <1>3, <1>15
  <2> QED
    BY <1>13, <1>14, <2>1
<1>17. \E o \in {0, 1} : Takeable <= Takeable' + o /\ Started' + o <= Started + 1
  <2>1. Takeable <= Takeable' + Cardinality(O)
    BY <1>9, <1>11
  <2>2. Started' + Cardinality(O) <= Started + 1
    BY <1>15, <1>16
  <2> QED
    BY <1>14, <2>1, <2>2
<1>18. Culpable' <= Culpable + 1
  BY <1>9, <1>12
<1> QED
  BY <1>2, <1>4, <1>9, <1>10, <1>15, <1>17, <1>18

LEMMA FaultKeepsLoss ==
  ASSUME LossInv, Damage \/ Lose
  PROVE  LossInv'
<1>1. /\ Typed /\ Honest(Line, Stop) /\ Fits /\ Accounted /\ ParserInv
      /\ buf' = buf /\ visionSeq' = visionSeq /\ faults' = faults + 1 /\ embedded' = embedded
  BY DEF LossInv, ParserInv, Damage, Lose, parserVars
<1>2. /\ Honest(Line', Stop') /\ Takeable' \in Nat /\ Culpable' \in Nat /\ Started' \in Int
      /\ Culpable' <= Culpable + 1
      /\ \E o \in {0, 1} : Takeable <= Takeable' + o /\ Started' + o <= Started + 1
  BY FaultCounts
<1>3. /\ LossPerStart \in Nat \ {0} /\ Takeable \in Nat /\ Culpable \in Nat
      /\ Started \in Int /\ faults \in Nat /\ embedded \in Nat /\ visionSeq \in Nat
  BY <1>1, LossNumbers
<1>4. LossPerStart' = LossPerStart
  BY DEF LossPerStart, FramesIn
<1>5. PICK w \in Nat : w = Takeable'
  BY <1>2
<1>6. PICK c \in Nat : c = Culpable'
  BY <1>2
<1>7. PICK s \in Int : s = Started'
  BY <1>2
<1>8. PICK o \in {0, 1} : Takeable <= w + o /\ s + o <= Started + 1
  BY <1>2, <1>5, <1>7
<1>9. c <= Culpable + 1 /\ o \in Nat
  BY <1>2, <1>6
<1>10. /\ Culpable <= faults + embedded
       /\ Started <= visionSeq + Takeable
            + IF faults = 0 THEN 0 ELSE faults + LossPerStart * (faults + embedded - Culpable)
  BY <1>1 DEF Accounted
<1>11. /\ c <= (faults + 1) + embedded
       /\ s <= visionSeq + w + ((faults + 1) + LossPerStart * ((faults + 1) + embedded - c))
       /\ s + LossPerStart <= visionSeq + w + (faults + 1) + LossPerStart * ((faults + 1) + embedded) + 1
  BY <1>3, <1>8, <1>9, <1>10, SumFaulted
<1>12. faults + 1 # 0 /\ faults + 1 > 0
  BY <1>3
<1>13. Accounted'
  BY <1>1, <1>4, <1>5, <1>6, <1>7, <1>11, <1>12 DEF Accounted
<1>14. Spare'
  BY <1>1, <1>4, <1>5, <1>7, <1>11 DEF Spare
<1>15. Settled' /\ Fits'
  BY <1>1, <1>12, <1>14 DEF Settled, Fits
<1>16. ParserInv'
  BY <1>1, FaultKeeps
<1>17. Honest(Line, Stop)'
  BY <1>2
<1> QED
  BY <1>13, <1>15, <1>16, <1>17 DEF LossInv

LEMMA LossStarts ==
  ASSUME Init
  PROVE  LossInv
<1>1. ParserInv /\ Typed
  BY ParserStarts DEF ParserInv
<1>2. /\ cur \in FramesAfter(NoFrame) /\ at = 1 /\ port = <<>> /\ buf = <<>> /\ parsing = FALSE
      /\ visionSeq = 0 /\ faults = 0 /\ embedded = 0
  BY DEF Init
<1>3. Len(buf) = 0 /\ Len(port) = 0
  BY <1>2
<1>4. Stop = 1 /\ Line[1] = Coming /\ Coming.of = cur /\ Coming.pos = 1
  <2>1. Stop = 0 + 0 + 1 /\ Line[Stop] = Coming
    BY <1>1, <1>3, LineIs
  <2> QED
    BY <1>2, <2>1 DEF Coming, Place
<1>5. /\ cur.len \in VisionLens \cup OtherLens /\ (cur.vision => cur.len \in VisionLens)
      /\ \/ cur.vision = TRUE /\ cur.ord = NoFrame.ord + 1
         \/ cur.vision = FALSE /\ cur.ord = NoFrame.ord
  BY <1>2 DEF FramesAfter
<1>6. 1 <= FrameLen(cur)
  <2>1. cur.len \in Nat
    BY <1>5, Sizes
  <2> QED
    BY <2>1, FrameLenNat, Sizes
<1>7. Honest(Line, Stop)
  <2>1. \A j \in 1 .. Stop : j = 1 /\ ~(j < Stop)
    BY <1>4
  <2> QED
    BY <1>4, <1>5, <1>6, <2>1 DEF Honest
<1>8. Starts(Line, Stop) = {}
  <2>1. 1 .. Stop - 1 = {}
    BY <1>4
  <2> QED
    BY <2>1 DEF Starts
<1>9. Culprits(Line, Stop) = {}
  <2>1. \A j \in 1 .. Stop : ~(j < Stop) /\ ~(j > 1)
    BY <1>4
  <2> QED
    BY <2>1 DEF Culprits, Broken, Torn
<1>10. Takeable = 0 /\ Culpable = 0
  BY <1>8, <1>9, FS_EmptySet DEF Takeable, Culpable
<1>11. Started = 0
  <2>1. NoFrame.ord = 0
    BY NoFrameTyped
  <2> QED
    BY <1>2, <1>5, <2>1 DEF Started
<1>12. Accounted
  <2>1. 0 <= 0 + 0 /\ 0 <= 0 + 0 + IF 0 = 0 THEN 0 ELSE 0 + LossPerStart * (0 + 0 - 0)
    OBVIOUS
  <2> QED
    BY <1>2, <1>10, <1>11, <2>1 DEF Accounted
<1>13. Settled
  <2>1. Passed(Searched) = {}
    BY <1>8 DEF Passed, Within
  <2> QED
    BY <2>1, FS_EmptySet DEF Settled
<1>14. Fits
  BY <1>3, Sizes DEF Fits
<1> QED
  BY <1>1, <1>7, <1>12, <1>13, <1>14 DEF LossInv

LEMMA LossUnchanged ==
  ASSUME LossInv, UNCHANGED vars
  PROVE  LossInv'
<1>1. /\ cur' = cur /\ at' = at /\ faults' = faults /\ embedded' = embedded /\ port' = port
      /\ buf' = buf /\ parsing' = parsing /\ visionSeq' = visionSeq
  BY DEF vars, lineVars, parserVars
<1>2. Hand' = Hand /\ Coming' = Coming
  BY <1>1 DEF Hand, Coming, Place
<1>3. Stop' = Stop
  BY <1>2 DEF Stop
<1>4. Line' = Line
  BY <1>2, <1>3 DEF Line
<1>5. /\ Takeable' = Takeable /\ Culpable' = Culpable /\ Started' = Started
      /\ LossPerStart' = LossPerStart /\ Searched' = Searched
  BY <1>1, <1>3, <1>4 DEF Takeable, Culpable, Started, LossPerStart, FramesIn, Searched
<1>6. Passed(Searched)' = Passed(Searched)
  BY <1>3, <1>4, <1>5 DEF Passed
<1>7. Accounted' /\ Settled' /\ Fits'
  BY <1>1, <1>5, <1>6 DEF LossInv, Accounted, Settled, Spare, Fits
<1>8. Honest(Line, Stop)'
  BY <1>3, <1>4 DEF LossInv
<1>9. ParserInv'
  BY ParserUnchanged DEF LossInv
<1> QED
  BY <1>7, <1>8, <1>9 DEF LossInv
-----------------------------------------------------------------------------
(* The bound.                                                              *)

\* So many frames end within the bytes from a + 1 to b.
LEMMA EndedCount ==
  ASSUME NEW T \in Nat \ {0}, NEW a \in Int, NEW b \in Int, NEW m \in Nat, b - a <= m,
         NEW S \in SUBSET (a + 1 .. b + 1 - T), Apart(S, T)
  PROVE  Cardinality(S) \in Nat /\ Cardinality(S) <= m \div T
<1>1. m \div T \in Nat
  BY Quotients
<1>2. CASE b + 1 - T - a >= 1
  <2> DEFINE n == b + 1 - T - a
  <2>1. n \in Nat /\ n >= 1 /\ a + n = b + 1 - T /\ n - 1 \in Nat /\ (n - 1) + T = b - a /\ b - a \in Nat
    BY <1>2
  <2> HIDE DEF n
  <2>2. S \in SUBSET (a + 1 .. a + n)
    BY <2>1
  <2>3. Cardinality(S) \in Nat /\ Cardinality(S) <= ((n - 1) \div T) + 1
    BY <2>1, <2>2, ApartCount
  <2>4. ((n - 1) + T) \div T = ((n - 1) \div T) + 1
    BY <2>1, Quotients
  <2>5. (b - a) \div T <= m \div T
    BY <2>1, Quotients
  <2> QED
    BY <2>1, <2>3, <2>4, <2>5
<1>3. CASE ~(b + 1 - T - a >= 1)
  <2>1. a + 1 .. b + 1 - T = {}
    BY <1>3
  <2>2. S = {}
    BY <2>1
  <2> QED
    BY <1>1, <2>2, FS_EmptySet
<1> QED
  BY <1>2, <1>3

\* The VISION frames that are there to the last byte.
Ended == Starts(Line, Stop) \ Open(Line, Stop)

LEMMA EndedFrames ==
  ASSUME Typed, Honest(Line, Stop)
  PROVE  /\ Stop \in Nat \ {0} /\ Ended \in SUBSET (1 .. Stop - Least) /\ Apart(Ended, Least)
         /\ IsFiniteSet(Ended) /\ Cardinality(Ended) \in Nat /\ SentVision \in Int
         /\ SentVision + Takeable <= Started + Cardinality(Ended)
<1> DEFINE S == Starts(Line, Stop)
           O == Open(Line, Stop)
<1>1. /\ S \in SUBSET (1 .. Stop - 1) /\ Stop \in Nat \ {0} /\ Apart(S, Least)
      /\ IsFiniteSet(S) /\ Cardinality(S) \in Nat /\ IsFiniteSet(S \ O)
      /\ Cardinality(S \ O) \in Nat
  BY StartsApart, LineIs
<1>2. ASSUME NEW x \in S \ O PROVE x \in 1 .. Stop - Least
  <2>1. /\ x \in 1 .. Stop - 1 /\ x \in 1 .. Stop /\ Line[x].pos = 1 /\ Line[x].of.vision
        /\ ~(Stop - x < FrameLen(Line[x].of))
    BY <1>1, <1>2 DEF Starts, Open
  <2>2. FrameLen(Line[x].of) \in Nat /\ FrameLen(Line[x].of) >= Least
    BY <2>1, HonestCell
  <2>3. PICK l \in Nat : l = FrameLen(Line[x].of)
    BY <2>2
  <2>4. ~(Stop - x < l) /\ l >= Least
    BY <2>1, <2>2, <2>3
  <2> QED
    BY <1>1, <2>1, <2>4, LeastLength
<1>3. Apart(S \ O, Least)
  BY <1>1 DEF Apart
<1>4. /\ O # {} => at > 1 /\ cur.vision
      /\ IsFiniteSet(O) /\ Cardinality(O) \in Nat /\ Cardinality(O) <= 1
  <2>1. Line[Stop].of = cur /\ Line[Stop].pos = at
    BY LineIs DEF Coming, Place
  <2> QED
    BY <2>1, OpenIsOne
<1>5. O \subseteq S
  BY DEF Open
<1>6. cur.ord \in Nat /\ cur.vision \in BOOLEAN /\ Started \in Int
  <2>1. cur.ord \in 0 .. MaxFrames + 1 /\ cur.vision \in BOOLEAN
    BY DEF Typed, FrameTypes
  <2> QED
    BY <2>1, LossNumbers, Sizes
<1>7. SentVision \in Int /\ SentVision <= Started /\ (O # {} => SentVision + 1 <= Started)
  BY <1>4, <1>6 DEF SentVision, Started
<1>8. Takeable = Cardinality(S) /\ Ended = S \ O
  BY DEF Takeable, Ended
<1> HIDE DEF S, O
<1>9. Cardinality(S \ O) = Cardinality(S) - Cardinality(O)
  <2>1. S \cap O = O
    BY <1>5
  <2> QED
    BY <1>1, <2>1, FS_Difference
<1>10. SentVision + Cardinality(O) <= Started
  <2>1. O = {} => Cardinality(O) = 0
    BY FS_EmptySet
  <2> QED
    BY <1>4, <1>6, <1>7, <2>1
<1>11. SentVision + Cardinality(S) <= Started + Cardinality(S \ O)
  BY <1>1, <1>4, <1>6, <1>7, <1>9, <1>10
<1> QED
  BY <1>1, <1>2, <1>3, <1>7, <1>8, <1>11

\* Bytes that were not searched yet: no more than two reads of them.
LEMMA EndedSmall ==
  ASSUME Typed, Honest(Line, Stop), Cardinality(Passed(Searched)) <= 1
  PROVE  Cardinality(Ended) <= FramesIn(2 * PortCap)
<1>1. /\ Stop \in Nat \ {0} /\ Ended \in SUBSET (1 .. Stop - Least) /\ Apart(Ended, Least)
      /\ IsFiniteSet(Ended) /\ Cardinality(Ended) \in Nat
  BY EndedFrames
<1>2. /\ Stop = Len(buf) + Len(port) + 1 /\ Len(buf) \in Nat /\ Len(port) \in Nat
      /\ Len(port) <= PortCap /\ PortCap \in Nat /\ Least \in Nat \ {0}
      /\ Searched \in Int /\ Cardinality(Passed(Searched)) \in Nat /\ Len(buf) - Searched <= PortCap
  <2>1. Len(buf) \in Nat
    BY LineIs
  <2>2. Len(buf) - Searched <= PortCap
    BY <2>1, Sizes DEF Searched
  <2>3. Len(port) <= PortCap
    BY DEF Typed, TypeOK
  <2> QED
    BY <2>2, <2>3, LineIs, LossNumbers, LeastLength, Sizes
<1> DEFINE A == Ended \cap Passed(Searched)
           B == {x \in Ended : x > Searched}
<1>3. Ended = A \cup B
  <2>1. \A x \in Ended : x <= Searched => x \in Passed(Searched)
    BY DEF Ended, Passed, Within
  <2>2. \A x \in Ended : x \in Int
    BY <1>1
  <2> QED
    BY <1>2, <2>1, <2>2
<1>4. A \in SUBSET Passed(Searched) /\ B \in SUBSET Ended
  OBVIOUS
<1>5. IsFiniteSet(Passed(Searched))
  <2>1. Passed(Searched) \in SUBSET Starts(Line, Stop)
    BY DEF Passed, Within
  <2> QED
    BY <2>1, StartsApart
<1>6. B \in SUBSET (Searched + 1 .. (Stop - 1) + 1 - Least) /\ Apart(B, Least)
  <2>1. ASSUME NEW x \in B PROVE x \in Searched + 1 .. (Stop - 1) + 1 - Least
    <3>1. x \in 1 .. Stop - Least /\ x > Searched
      BY <1>1
    <3> QED
      BY <1>1, <1>2, <3>1
  <2>2. Apart(B, Least)
    BY <1>1 DEF Apart
  <2> QED
    BY <2>1, <2>2
<1> HIDE DEF A, B
<1>7. Cardinality(B) \in Nat /\ Cardinality(B) <= (2 * PortCap) \div Least
  <2>1. (Stop - 1) - Searched <= 2 * PortCap /\ Stop - 1 \in Int /\ 2 * PortCap \in Nat
    BY <1>2
  <2> HIDE DEF Stop, Searched, Least
  <2> QED
    BY <1>2, <1>6, <2>1, EndedCount
<1>8. IsFiniteSet(A) /\ IsFiniteSet(B) /\ Cardinality(A) \in Nat /\ Cardinality(A) <= 1
  <2>1. IsFiniteSet(A) /\ IsFiniteSet(B) /\ Cardinality(A) <= Cardinality(Passed(Searched))
    BY <1>1, <1>4, <1>5, FS_Subset
  <2>2. Cardinality(A) \in Nat
    BY <2>1, FS_CardinalityType
  <2> QED
    BY <1>2, <2>1, <2>2
<1>9. Cardinality(Ended) <= Cardinality(A) + Cardinality(B)
  <2>1. /\ Cardinality(A \cup B) = Cardinality(A) + Cardinality(B) - Cardinality(A \cap B)
        /\ IsFiniteSet(A \cap B)
    BY <1>8, FS_Union, FS_Intersection
  <2>2. Cardinality(A \cap B) \in Nat
    BY <2>1, FS_CardinalityType
  <2> QED
    BY <1>3, <1>7, <1>8, <2>1, <2>2
<1>10. FramesIn(2 * PortCap) = ((2 * PortCap) \div Least) + 1 /\ (2 * PortCap) \div Least \in Nat
  <2>1. 2 * PortCap \in Nat
    BY <1>2
  <2> QED
    BY <1>2, <2>1, Quotients DEF FramesIn, Least
<1> HIDE DEF FramesIn
<1>11. PICK q \in Nat : q = (2 * PortCap) \div Least
  BY <1>10
<1> QED
  BY <1>1, <1>7, <1>8, <1>9, <1>10, <1>11

\* In any case no more than a full buffer and two reads.
LEMMA EndedMost ==
  ASSUME Typed, Honest(Line, Stop), Fits
  PROVE  Cardinality(Ended) + 1 <= FramesIn(2 * PortCap) + LossPerStart
<1>1. /\ Stop \in Nat \ {0} /\ Ended \in SUBSET (1 .. Stop - Least) /\ Apart(Ended, Least)
      /\ Cardinality(Ended) \in Nat
  BY EndedFrames
<1>2. /\ Stop - 1 <= (MaxBuf + PortCap) + PortCap
      /\ Least \in Nat \ {0} /\ MaxBuf \in Nat /\ PortCap \in Nat
  <2>1. Len(port) <= PortCap
    BY DEF Typed, TypeOK
  <2>2. Stop = Len(buf) + Len(port) + 1 /\ Len(buf) \in Nat /\ Len(port) \in Nat
    BY LineIs
  <2> QED
    BY <2>1, <2>2, LeastLength, Sizes DEF Fits
<1> DEFINE m == MaxBuf + PortCap
<1>3. m \in Nat /\ m + PortCap \in Nat /\ 2 * PortCap \in Nat /\ PortCap <= 2 * PortCap
  BY <1>2
<1> HIDE DEF m
<1>4. Cardinality(Ended) <= (m + PortCap) \div Least
  <2> DEFINE b == Stop - 1
  <2>1. b \in Int /\ b - 0 <= m + PortCap /\ 0 \in Int /\ 0 + 1 = 1 /\ b + 1 - Least = Stop - Least
    BY <1>1, <1>2 DEF m
  <2> HIDE DEF b
  <2>2. Ended \in SUBSET (0 + 1 .. b + 1 - Least)
    BY <1>1, <2>1
  <2> QED
    BY <1>1, <1>2, <1>3, <2>1, <2>2, EndedCount
<1>5. /\ (m + PortCap) \div Least \in Nat /\ m \div Least \in Nat
      /\ PortCap \div Least \in Nat /\ (2 * PortCap) \div Least \in Nat
      /\ (m + PortCap) \div Least <= (m \div Least) + (PortCap \div Least) + 1
      /\ PortCap \div Least <= (2 * PortCap) \div Least
  BY <1>2, <1>3, Quotients
<1>6. /\ FramesIn(2 * PortCap) = ((2 * PortCap) \div Least) + 1
      /\ LossPerStart = (m \div Least) + 1
  BY DEF FramesIn, LossPerStart, Least, m
<1>7. PICK x \in Nat : x = (m + PortCap) \div Least
  BY <1>5
<1>8. PICK y \in Nat : y = m \div Least
  BY <1>5
<1>9. PICK z \in Nat : z = PortCap \div Least
  BY <1>5
<1>10. PICK w \in Nat : w = (2 * PortCap) \div Least
  BY <1>5
<1>11. /\ FramesIn(2 * PortCap) = w + 1 /\ LossPerStart = y + 1 /\ x <= y + z + 1 /\ z <= w
       /\ Cardinality(Ended) <= x
  BY <1>4, <1>5, <1>6, <1>7, <1>8, <1>9, <1>10
<1> HIDE DEF FramesIn, LossPerStart, Least
<1>12. PICK n \in Nat : n = Cardinality(Ended)
  BY <1>1
<1>13. n + 1 <= (w + 1) + (y + 1)
  BY <1>11, <1>12
<1> QED
  BY <1>11, <1>12, <1>13

LEMMA SumBounded ==
  ASSUME NEW D \in Nat \ {0}, NEW F \in Nat, NEW E \in Nat, NEW S \in Int,
         NEW V \in Nat, NEW W \in Nat, NEW C \in Nat, NEW n \in Nat, NEW q \in Int, NEW Z \in Int,
         Z + W <= S + n, C <= F + E,
         S <= V + W + IF F = 0 THEN 0 ELSE F + D * (F + E - C),
         \/ n <= q
         \/ /\ F > 0 /\ n + 1 <= q + D
            /\ C = 0 => S + D <= V + W + F + D * (F + E) + 1
  PROVE  Z - V <= q + IF F = 0 THEN 0 ELSE F + D * (F + E)
<1> DEFINE a == F + E - C
           b == F + E
<1>1. a \in Nat /\ b \in Nat /\ a <= b /\ (C # 0 => a + 1 <= b)
  OBVIOUS
<1> HIDE DEF a, b
<1>2. /\ D * a \in Nat /\ D * b \in Nat /\ D * a <= D * b
      /\ a + 1 \in Nat /\ D * (a + 1) = D * a + D /\ (a + 1 <= b => D * (a + 1) <= D * b)
  BY <1>1, Products
<1> DEFINE x == D * a
           y == D * b
<1>3. x \in Nat /\ y \in Nat /\ x <= y /\ (C # 0 => x + D <= y)
  BY <1>1, <1>2
<1>4. /\ S <= V + W + IF F = 0 THEN 0 ELSE F + x
      /\ \/ n <= q
         \/ /\ F > 0 /\ n + 1 <= q + D
            /\ C = 0 => S + D <= V + W + F + y + 1
  BY DEF x, y, a, b
<1> HIDE DEF x, y
<1>5. Z - V <= q + IF F = 0 THEN 0 ELSE F + y
  BY <1>3, <1>4
<1> QED
  BY <1>5 DEF y, b

LEMMA LossIsBounded ==
  ASSUME LossInv
  PROVE  LossBounded
<1>1. Typed /\ Honest(Line, Stop) /\ Fits /\ Accounted /\ Settled
  BY DEF LossInv, ParserInv
<1>2. /\ LossPerStart \in Nat \ {0} /\ Takeable \in Nat /\ Culpable \in Nat
      /\ Started \in Int /\ faults \in Nat /\ embedded \in Nat /\ visionSeq \in Nat
  BY <1>1, LossNumbers
<1>3. /\ Cardinality(Ended) \in Nat /\ SentVision \in Int
      /\ SentVision + Takeable <= Started + Cardinality(Ended)
  BY <1>1, EndedFrames
<1>4. FramesIn(2 * PortCap) \in Int
  <2>1. 2 * PortCap \in Nat /\ Least \in Nat \ {0}
    BY Sizes, LeastLength
  <2>2. (2 * PortCap) \div Least \in Nat
    BY <2>1, Quotients
  <2> QED
    BY <2>2 DEF FramesIn, Least
<1>5. \/ Cardinality(Ended) <= FramesIn(2 * PortCap)
      \/ /\ faults > 0 /\ Cardinality(Ended) + 1 <= FramesIn(2 * PortCap) + LossPerStart
         /\ Culpable = 0 => Started + LossPerStart
              <= visionSeq + Takeable + faults + LossPerStart * (faults + embedded) + 1
  <2>1. CASE Cardinality(Passed(Searched)) <= 1
    BY <1>1, <2>1, EndedSmall
  <2>2. CASE faults > 0 /\ (Culpable = 0 => Spare)
    <3>1. Cardinality(Ended) + 1 <= FramesIn(2 * PortCap) + LossPerStart
      BY <1>1, EndedMost
    <3> QED
      BY <2>2, <3>1 DEF Spare
  <2> QED
    BY <1>1, <2>1, <2>2 DEF Settled
<1>6. /\ Culpable <= faults + embedded
      /\ Started <= visionSeq + Takeable
           + IF faults = 0 THEN 0 ELSE faults + LossPerStart * (faults + embedded - Culpable)
  BY <1>1 DEF Accounted
<1>7. SentVision - visionSeq <=
        FramesIn(2 * PortCap)
          + IF faults = 0 THEN 0 ELSE faults + LossPerStart * (faults + embedded)
  <2> HIDE DEF LossPerStart, Takeable, Culpable, Started, Ended, SentVision, FramesIn
  <2> QED
    BY <1>2, <1>3, <1>4, <1>5, <1>6, SumBounded
<1> QED
  BY <1>7 DEF LossBounded

\* Every VISION frame that was sent was taken, can still be taken, or is charged to
\* a byte that was damaged or lost or to a SOF inside a frame.
THEOREM ParserLossInvariant == Spec => []LossInv
<1>1. Init => LossInv
  BY LossStarts
<1>2. LossInv /\ [Next]_vars => LossInv'
  <2> SUFFICES ASSUME LossInv, [Next]_vars PROVE LossInv'
    OBVIOUS
  <2>1. CASE Transmit
    BY <2>1, TransmitKeepsLoss
  <2>2. CASE Damage \/ Lose
    BY <2>2, FaultKeepsLoss
  <2>3. CASE Feed
    BY <2>3, FeedKeepsLoss
  <2>4. CASE StopParsing
    BY <2>4, StopParsingKeepsLoss
  <2>5. CASE Reject
    BY <2>5, RejectKeepsLoss
  <2>6. CASE Accept
    BY <2>6, AcceptKeepsLoss
  <2>7. CASE UNCHANGED vars
    BY <2>7, LossUnchanged
  <2> QED
    BY <2>1, <2>2, <2>3, <2>4, <2>5, <2>6, <2>7 DEF Next
<1> QED
  BY <1>1, <1>2, PTL DEF Spec

\* The receiver finds its way back after a bad byte at a bounded cost, for frames,
\* buffers and reads of any size and any number of faults.
THEOREM ParserLossBounded == Spec => []LossBounded
<1>1. LossInv => LossBounded
  BY LossIsBounded
<1> QED
  BY <1>1, ParserLossInvariant, PTL
=============================================================================
