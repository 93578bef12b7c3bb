---------------------------- MODULE VisionRelay -----------------------------
(***************************************************************************)
(* VisionPub::poll between the serial thread and AutoAimNode.              *)
(*                                                                         *)
(* The serial thread takes frames at any time.  poll reads the counter and *)
(* the frame under two separate locks, so a frame may be taken in between. *)
(* VisionPub and AutoAimNode share one executor thread: nothing is         *)
(* delivered while poll runs.                                              *)
(***************************************************************************)
EXTENDS VisionSource, Sequences

CONSTANT Depth  \* the history depth of /Vision_data (10)

ASSUME RelayAssumption == Depth \in Nat \ {0}

VARIABLES
  polling,   \* poll is between its two locks
  lastSeq,   \* last_seq_
  topic,     \* published and not delivered yet
  delivered  \* the frame on_vision saw last; 0 before the first

relayVars == <<polling, lastSeq, topic, delivered>>
vars == <<newest, visionSeq, polling, lastSeq, topic, delivered>>

Init ==
  /\ SourceInit
  /\ polling = FALSE /\ lastSeq = 0
  /\ topic = <<>> /\ delivered = 0

\* The serial thread.
Receive == Take /\ UNCHANGED relayVars

\* The counter has moved since the last poll.
PollSeq ==
  /\ ~polling
  /\ visionSeq # lastSeq
  /\ lastSeq' = visionSeq
  /\ polling' = TRUE
  /\ UNCHANGED <<newest, visionSeq, topic, delivered>>

\* Mutated: a full queue turns the new message away.
KeepOldest(q, m) == IF Len(q) < Depth THEN Append(q, m) ELSE q

\* Mutated: the queue has no depth.
KeepEvery(q, m) == Append(q, m)

\* A full queue loses its oldest message.
Keep(q, m) == Append(IF Len(q) < Depth THEN q ELSE Tail(q), m)

PollFrame ==
  /\ polling
  /\ polling' = FALSE
  /\ IF newest = 0 THEN UNCHANGED topic ELSE topic' = Keep(topic, newest)
  /\ UNCHANGED <<newest, visionSeq, lastSeq, delivered>>

\* Mutated: the newest message is handled first.
DeliverNewest ==
  /\ ~polling
  /\ topic # <<>>
  /\ delivered' = topic[Len(topic)]
  /\ topic' = SubSeq(topic, 1, Len(topic) - 1)
  /\ UNCHANGED <<newest, visionSeq, polling, lastSeq>>

\* AutoAimNode::on_vision.
Deliver ==
  /\ ~polling
  /\ topic # <<>>
  /\ delivered' = Head(topic)
  /\ topic' = Tail(topic)
  /\ UNCHANGED <<newest, visionSeq, polling, lastSeq>>

Next == Receive \/ PollSeq \/ PollFrame \/ Deliver

Spec == Init /\ [][Next]_vars

\* The timer polls every 2 ms and the executor gets to every ready callback;
\* the serial thread promises nothing.
FairSpec == Spec /\ WF_vars(PollSeq) /\ WF_vars(PollFrame) /\ WF_vars(Deliver)
-----------------------------------------------------------------------------
(* Properties.                                                             *)

\* Every variable has its type; the topic never holds more than its depth.
TypeOK ==
  /\ newest \in 0 .. MaxSent /\ visionSeq \in Nat
  /\ polling \in BOOLEAN /\ lastSeq \in Nat
  /\ topic \in Seq(1 .. MaxSent) /\ Len(topic) <= Depth
  /\ delivered \in 0 .. MaxSent

\* AutoAimNode never sees the gimbal go back in time, although the frame poll
\* publishes may be newer than the counter it polled.
NoRegression == [][delivered' >= delivered]_vars

\* Whatever the serial thread took last, AutoAimNode hears of it or of a newer
\* frame: reading the counter before the frame can repeat one, never lose the
\* last.
UpToDate == \A f \in 1 .. MaxSent : newest = f ~> delivered >= f

\* The class comment: a frame is published at most once.
AtMostOnce ==
  /\ \A i, j \in DOMAIN topic : topic[i] = topic[j] => i = j
  /\ delivered \notin {topic[i] : i \in DOMAIN topic}
=============================================================================
