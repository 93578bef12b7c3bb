------------------------- MODULE VisionRelayProofs --------------------------
(***************************************************************************)
(* Proofs about VisionRelay, for every depth and every number of frames.   *)
(*                                                                         *)
(* NoRegression needs the queue to be in order between what was delivered  *)
(* and what the serial thread holds.                                       *)
(***************************************************************************)
EXTENDS VisionRelay, SequenceTheorems, TLAPS

\* The queue holds frames in the order they were sent, none older than the
\* last one delivered and none newer than the newest.
Ordered ==
  /\ delivered <= newest
  /\ \A i \in 1 .. Len(topic) : delivered <= topic[i] /\ topic[i] <= newest
  /\ \A i, j \in 1 .. Len(topic) : i <= j => topic[i] <= topic[j]

IInv == TypeOK /\ Ordered

\* The messages a full queue loses to a new one.
Lost(q) == IF Len(q) < Depth THEN 0 ELSE 1

\* What Keep returns: a queue within its depth, its elements those of the old
\* one, moved up by one when the oldest was lost, and the new one at the end.
LEMMA KeepShape ==
  ASSUME NEW q \in Seq(1 .. MaxSent), Len(q) <= Depth, NEW m \in 1 .. MaxSent
  PROVE  /\ Keep(q, m) \in Seq(1 .. MaxSent)
         /\ Len(Keep(q, m)) <= Depth
         /\ Lost(q) \in 0 .. 1 /\ Lost(q) <= Len(q)
         /\ Len(Keep(q, m)) = Len(q) + 1 - Lost(q)
         /\ Keep(q, m)[Len(q) + 1 - Lost(q)] = m
         /\ \A i \in 1 .. Len(q) - Lost(q) : Keep(q, m)[i] = q[i + Lost(q)]
<1>. USE RelayAssumption
<1>1. CASE Len(q) < Depth
  <2>1. Keep(q, m) = Append(q, m) /\ Lost(q) = 0
    BY <1>1 DEF Keep, Lost
  <2>2. /\ Append(q, m) \in Seq(1 .. MaxSent) /\ Len(Append(q, m)) = Len(q) + 1
        /\ Append(q, m)[Len(q) + 1] = m
        /\ \A i \in 1 .. Len(q) : Append(q, m)[i] = q[i]
    BY AppendProperties
  <2>3. Len(q) \in Nat
    BY LenProperties
  <2>. QED BY <1>1, <2>1, <2>2, <2>3
<1>2. CASE ~(Len(q) < Depth)
  <2>1. Len(q) \in Nat /\ Len(q) >= 1 /\ q # <<>> /\ Len(q) = Depth
    BY <1>2, LenProperties
  <2>2. /\ Tail(q) \in Seq(1 .. MaxSent) /\ Len(Tail(q)) = Len(q) - 1
        /\ \A i \in 1 .. Len(q) - 1 : Tail(q)[i] = q[i + 1]
    BY <2>1, HeadTailProperties
  <2>3. Keep(q, m) = Append(Tail(q), m) /\ Lost(q) = 1
    BY <1>2 DEF Keep, Lost
  <2>4. /\ Keep(q, m) \in Seq(1 .. MaxSent) /\ Len(Keep(q, m)) = Len(q)
        /\ Keep(q, m)[Len(q)] = m
        /\ \A i \in 1 .. Len(q) - 1 : Keep(q, m)[i] = q[i + 1]
    BY <2>1, <2>2, <2>3, AppendProperties
  <2>. QED BY <2>1, <2>3, <2>4
<1>. QED BY <1>1, <1>2

LEMMA InitInv == Init => IInv
<1> SUFFICES ASSUME Init PROVE IInv
  OBVIOUS
<1>1. Len(topic) = 0 /\ topic \in Seq(1 .. MaxSent)
  BY EmptySeq DEF Init
<1>0. /\ newest = 0 /\ visionSeq = 0 /\ delivered = 0 /\ lastSeq = 0
       /\ polling \in BOOLEAN
  BY DEF Init, SourceInit
<1>2. TypeOK
  <2>1. /\ newest \in 0 .. MaxSent /\ delivered \in 0 .. MaxSent
        /\ visionSeq \in Nat /\ lastSeq \in Nat
    BY <1>0, SourceAssumption
  <2>2. Len(topic) <= Depth
    BY <1>1, RelayAssumption
  <2>. QED BY <1>0, <1>1, <2>1, <2>2, Zenon DEF TypeOK
<1>3. 1 .. Len(topic) = {}
  BY <1>1
<1>4. delivered <= newest
  BY <1>0
<1>. QED BY <1>2, <1>3, <1>4 DEF IInv, Ordered

LEMMA NextInv == IInv /\ [Next]_vars => IInv'
<1> SUFFICES ASSUME IInv, [Next]_vars PROVE IInv'
  OBVIOUS
<1> USE SourceAssumption, RelayAssumption
<1>1. CASE Receive
  BY <1>1 DEF Receive, Take, relayVars, IInv, TypeOK, Ordered
<1>2. CASE PollSeq
  BY <1>2 DEF PollSeq, IInv, TypeOK, Ordered
<1>3. CASE PollFrame
  <2>1. CASE newest = 0
    BY <1>3, <2>1 DEF PollFrame, IInv, TypeOK, Ordered
  <2>2. CASE newest # 0
    <3>1. newest \in 1 .. MaxSent /\ topic \in Seq(1 .. MaxSent) /\ Len(topic) \in Nat
      BY <2>2, LenProperties DEF IInv, TypeOK
    <3>2. topic' = Keep(topic, newest)
      BY <1>3, <2>2 DEF PollFrame
    <3>. DEFINE d == Lost(topic)
    <3>3. /\ d \in 0 .. 1 /\ d <= Len(topic)
          /\ Len(topic') = Len(topic) + 1 - d
          /\ topic'[Len(topic) + 1 - d] = newest
          /\ \A i \in 1 .. Len(topic) - d : topic'[i] = topic[i + d]
      <4>1. Len(topic) <= Depth
        BY DEF IInv, TypeOK
      <4>. QED BY <3>1, <3>2, <4>1, KeepShape
    <3>. HIDE DEF d
    <3>4. TypeOK'
      BY <1>3, <3>1, <3>2, KeepShape DEF PollFrame, IInv, TypeOK
    <3>5. /\ \A i \in 1 .. Len(topic) : topic[i] \in Nat
          /\ delivered <= newest /\ newest \in Nat /\ delivered \in Nat
      <4>1. \A i \in 1 .. Len(topic) : topic[i] \in 1 .. MaxSent
        BY <3>1, ElementOfSeq
      <4>. QED BY <4>1 DEF IInv, TypeOK, Ordered
    <3>6. \A i \in 1 .. Len(topic') : delivered <= topic'[i] /\ topic'[i] <= newest
      <4> TAKE i \in 1 .. Len(topic')
      <4>1. CASE i = Len(topic')
        BY <3>1, <3>3, <3>5, <4>1
      <4>2. CASE i # Len(topic')
        <5>1. i \in 1 .. Len(topic) - d /\ i + d \in 1 .. Len(topic)
          BY <3>1, <3>3, <4>2
        <5>2. topic'[i] = topic[i + d]
          BY <3>3, <5>1
        <5>. QED BY <5>1, <5>2 DEF IInv, Ordered
      <4>. QED BY <4>1, <4>2
    <3>7. \A i, j \in 1 .. Len(topic') : i <= j => topic'[i] <= topic'[j]
      <4> SUFFICES ASSUME NEW i \in 1 .. Len(topic'), NEW j \in 1 .. Len(topic'), i <= j
                   PROVE topic'[i] <= topic'[j]
        OBVIOUS
      <4>1. CASE j = Len(topic')
        BY <3>1, <3>3, <3>6, <4>1
      <4>2. CASE j # Len(topic')
        <5>1. /\ i \in 1 .. Len(topic) - d /\ j \in 1 .. Len(topic) - d
              /\ i + d \in 1 .. Len(topic) /\ j + d \in 1 .. Len(topic) /\ i + d <= j + d
          BY <3>1, <3>3, <4>2
        <5>2. topic'[i] = topic[i + d] /\ topic'[j] = topic[j + d]
          BY <3>3, <5>1
        <5>. QED BY <5>1, <5>2 DEF IInv, Ordered
      <4>. QED BY <4>1, <4>2
    <3>. QED BY <1>3, <3>4, <3>5, <3>6, <3>7 DEF PollFrame, IInv, Ordered
  <2>. QED BY <2>1, <2>2
<1>4. CASE Deliver
  <2>1. /\ topic' \in Seq(1 .. MaxSent) /\ Len(topic') = Len(topic) - 1
        /\ Len(topic) \in Nat /\ Len(topic) >= 1
        /\ delivered' = topic[1] /\ topic[1] \in 1 .. MaxSent
        /\ \A i \in 1 .. Len(topic) - 1 : topic'[i] = topic[i + 1]
    BY <1>4, HeadTailProperties, LenProperties, EmptySeq, ElementOfSeq
       DEF Deliver, IInv, TypeOK
  <2>2. TypeOK'
    BY <1>4, <2>1 DEF Deliver, IInv, TypeOK
  <2>. QED BY <1>4, <2>1, <2>2 DEF Deliver, IInv, TypeOK, Ordered
<1>5. CASE UNCHANGED vars
  BY <1>5 DEF vars, IInv, TypeOK, Ordered
<1>. QED BY <1>1, <1>2, <1>3, <1>4, <1>5 DEF Next

THEOREM RelayInvariant == Spec => []IInv
<1>. QED BY InitInv, NextInv, PTL DEF Spec

\* Every variable keeps its type, and the topic never holds more than its
\* depth.
THEOREM RelayTypeCorrect == Spec => []TypeOK
<1>1. IInv => TypeOK
  BY DEF IInv
<1>. QED BY <1>1, RelayInvariant, PTL

\* AutoAimNode never sees an older frame after a newer one, however polls,
\* deliveries and the serial thread interleave.
THEOREM RelayNoRegression == Spec => NoRegression
<1>1. IInv /\ [Next]_vars => [delivered' >= delivered]_vars
  <2> SUFFICES ASSUME IInv, [Next]_vars PROVE [delivered' >= delivered]_vars
    OBVIOUS
  <2>1. CASE Deliver
    BY <2>1, HeadTailProperties, LenProperties, EmptySeq, ElementOfSeq
       DEF Deliver, IInv, TypeOK, Ordered
  <2>2. CASE Receive \/ PollSeq \/ PollFrame \/ UNCHANGED vars
    BY <2>2 DEF Receive, relayVars, PollSeq, PollFrame, vars, IInv, TypeOK
  <2>. QED BY <2>1, <2>2 DEF Next
<1>. QED BY <1>1, RelayInvariant, PTL DEF Spec, NoRegression
=============================================================================
