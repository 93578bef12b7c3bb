-------------------------- MODULE LegacyChainProofs --------------------------
(***************************************************************************)
(* Proofs about the previous generation: what the watchdog of              *)
(* ControlWatchdog writes, and the invariants of LegacyChain, the node,    *)
(* the queue and the watchdog together, for any observations, limits,      *)
(* timeouts, queue depth and transit time.                                 *)
(***************************************************************************)
EXTENDS LegacyChain, TargetTracksProofs

-----------------------------------------------------------------------------
(* The watchdog alone.                                                     *)

(* What the history variable last knows of the state: the pose to hold, and *)
(* that a refusal is remembered.                                            *)
LastIsHeld ==
  /\ last.pose = IF haveValid THEN held.pose ELSE 0
  /\ last.fit => haveValid /\ ~forceStale
  /\ haveValid /\ ~forceStale => last.fit

WatchInv == WatchTypeOK /\ LastIsHeld

\* A constrained pitch is within the limits, whatever was asked for.
LEMMA ConstrainedInLimits ==
  ASSUME NEW pose \in Int
  PROVE  Constrained(pose) \in Low .. High
BY WatchAssumption DEF Constrained

\* Nothing accepted, refused, written or waited for breaks the types or
\* separates last from what is held.
LEMMA WatchStep == WatchInv /\ [WatchNext]_watch => WatchInv'
<1> SUFFICES ASSUME WatchInv, [WatchNext]_watch PROVE WatchInv'
  OBVIOUS
<1> USE DEF WatchInv
<1>1. ASSUME NEW m \in Messages, Accept(m) PROVE WatchInv'
  <2>1. CASE profile /\ m.fit
    <3> DEFINE p == Constrained(m.pose)
    <3>1. p \in Low .. High
      BY ConstrainedInLimits, WatchAssumption DEF Messages
    <3>2. /\ held' = [pose |-> p, lock |-> m.lock] /\ heldAge' = 0
          /\ haveValid' = TRUE /\ forceStale' = FALSE
          /\ last' = [pose |-> p, age |-> m.age, fit |-> TRUE]
          /\ UNCHANGED <<profile, wire>>
      BY <1>1, <2>1 DEF Accept
    <3>3. m.lock \in BOOLEAN /\ m.age \in 0 .. MaxAge
      BY DEF Messages
    <3> HIDE DEF p
    <3>4. held' \in Commands /\ heldAge' \in 0 .. SafeTimeout
      BY <3>1, <3>2, <3>3, WatchAssumption DEF Commands
    <3>5. last' \in [pose : Low .. High, age : 0 .. MaxAge, fit : BOOLEAN]
      BY <3>1, <3>2, <3>3
    <3>6. WatchTypeOK'
      BY <3>2, <3>4, <3>5 DEF WatchTypeOK
    <3>7. LastIsHeld'
      BY <3>2 DEF LastIsHeld
    <3> QED
      BY <3>6, <3>7
  <2>2. CASE ~(profile /\ m.fit)
    <3>1. Refuse /\ UNCHANGED <<profile, wire>>
      BY <1>1, <2>2 DEF Accept
    <3>2. /\ last'.pose = last.pose /\ last'.fit = FALSE
          /\ last' \in [pose : Low .. High, age : 0 .. MaxAge, fit : BOOLEAN]
      BY <3>1 DEF Refuse, WatchTypeOK
    <3>3. held' \in Commands
      BY <3>1 DEF Refuse, Unlocked, WatchTypeOK, Commands
    <3>4. WatchTypeOK'
      BY <3>1, <3>2, <3>3 DEF Refuse, WatchTypeOK
    <3>5. held'.pose = held.pose /\ haveValid' = haveValid /\ forceStale' = TRUE
      BY <3>1 DEF Refuse, Unlocked
    <3>6. LastIsHeld'
      BY <3>2, <3>5 DEF LastIsHeld
    <3> QED
      BY <3>4, <3>6
  <2> QED
    BY <2>1, <2>2
<1>2. ASSUME Tick PROVE WatchInv'
  <2>1. wire' \in Commands
    <3>1. 0 \in Low .. High /\ held \in Commands
      BY WatchAssumption DEF WatchTypeOK
    <3> QED
      BY <1>2, <3>1 DEF Tick, Unlocked, Commands
  <2>2. UNCHANGED <<profile, held, heldAge, haveValid, forceStale, last>>
    BY <1>2 DEF Tick
  <2> QED
    BY <2>1, <2>2 DEF WatchTypeOK, LastIsHeld
<1>3. ASSUME WatchElapse PROVE WatchInv'
  BY <1>3, WatchAssumption DEF WatchElapse, WatchTypeOK, LastIsHeld
<1>4. ASSUME UNCHANGED watch PROVE WatchInv'
  BY <1>4 DEF watch, WatchTypeOK, LastIsHeld
<1> QED
  BY <1>1, <1>2, <1>3, <1>4 DEF WatchNext

LEMMA WatchInitially == WatchInit => WatchInv
<1> SUFFICES ASSUME WatchInit PROVE WatchInv
  OBVIOUS
<1>1. 0 \in Low .. High /\ 0 \in 0 .. MaxAge /\ SafeTimeout \in 0 .. SafeTimeout
  BY WatchAssumption
<1>2. Unlocked(0) \in Commands
  BY <1>1 DEF Unlocked, Commands
<1>3. WatchTypeOK
  BY <1>1, <1>2 DEF WatchInit, WatchTypeOK
<1>4. LastIsHeld
  BY DEF WatchInit, LastIsHeld
<1> QED
  BY <1>3, <1>4 DEF WatchInv

\* The invariant of the watchdog holds whatever is sent to it, and whenever.
THEOREM WatchInvariant == WatchSpec => []WatchInv
BY WatchInitially, WatchStep, PTL DEF WatchSpec

\* Robot_ctrl_data always leads to a command within the limits of the vehicle.
THEOREM WatchTypeCorrect == WatchSpec => []WatchTypeOK
<1>1. WatchInv => WatchTypeOK
  BY DEF WatchInv
<1> QED
  BY <1>1, WatchInvariant, PTL

\* Refused or silent input: what is written is unlocked, at the last accepted
\* pose, for every timeout and however the callbacks follow one another.
THEOREM WatchHoldsAndUnlocks == WatchSpec => HoldsAndUnlocks
<1>1. ASSUME WatchInv
      PROVE  [Tick /\ (~last.fit \/ heldAge >= SafeTimeout)
                => wire' = Unlocked(last.pose)]_watch
  <2> SUFFICES ASSUME Tick, ~last.fit \/ heldAge >= SafeTimeout
               PROVE  wire' = Unlocked(last.pose)
    OBVIOUS
  <2>1. CASE ~last.fit
    <3>1. ~Fresh
      BY <2>1, <1>1 DEF WatchInv, LastIsHeld, Fresh
    <3> QED
      BY <3>1, <1>1 DEF Tick, WatchInv, LastIsHeld
  <2>2. CASE heldAge >= SafeTimeout
    <3>1. ~Fresh
      BY <2>2, <1>1, WatchAssumption DEF WatchInv, WatchTypeOK, Fresh
    <3> QED
      BY <3>1, <1>1 DEF Tick, WatchInv, LastIsHeld
  <2> QED
    BY <2>1, <2>2
<1> QED
  BY <1>1, WatchInvariant, PTL DEF WatchSpec, HoldsAndUnlocks
-----------------------------------------------------------------------------
(* The chain.                                                              *)

Entry == [msg : Messages, wait : 0 .. Transit]

(* A lock in the queue is as old as the image was when it was published,   *)
(* and as it has waited since.                                             *)
InTransit(e) == e.msg.age <= IF e.msg.lock THEN (NodeTimeout - 1) + e.wait ELSE 0

(* What moves nothing, when it is accepted by a watchdog that holds nothing. *)
Silent(e) == e.msg.pose = 0 /\ e.msg.lock = FALSE

NodeInv ==
  /\ TracksInv
  /\ param \in Configs /\ up \in BOOLEAN /\ info \in BOOLEAN
  /\ latest \in {SafeCommand, [pose |-> param.mock, lock |-> TRUE]}
  /\ imageAge \in 0 .. NodeTimeout

QueueTypeOK == queue \in Seq(Entry) /\ Len(queue) <= Depth

QueueInv == QueueTypeOK /\ \A i \in DOMAIN queue : InTransit(queue[i])

HeldIsRecent == held.lock => last.age <= (NodeTimeout - 1) + Transit

(* Nobody else publishes what would move the board. *)
Harmless == param.offline /\ ~param.bypass

Inert ==
  Harmless => /\ held = SafeCommand /\ wire = SafeCommand
              /\ \A i \in DOMAIN queue : Silent(queue[i])

ChainInv == NodeInv /\ WatchInv /\ QueueInv /\ HeldIsRecent /\ Inert

\* The bounds of the ages, in one place.
LEMMA Ages ==
  /\ NodeTimeout \in Nat /\ NodeTimeout >= 1 /\ Transit \in Nat
  /\ MaxAge \in Nat /\ MaxAge = NodeTimeout + Transit
  /\ Depth \in Nat /\ Depth >= 1 /\ SafeTimeout \in Nat /\ SafeTimeout >= 1
BY NodeAssumption, ChainAssumption, WatchAssumption

\* One callback of AutoAimNode, its end or its start.
LEMMA NodeStepKeeps == NodeInv /\ NodeStep => NodeInv' /\ UNCHANGED param
<1> SUFFICES ASSUME NodeInv, NodeStep PROVE NodeInv' /\ UNCHANGED param
  OBVIOUS
<1>0. 0 \in 0 .. NodeTimeout /\ NodeTimeout \in 0 .. NodeTimeout
  BY Ages
<1>1. CASE OnCameraInfo
  <2>1. TracksInv'
    BY <1>1, TracksUnchanged DEF NodeInv, OnCameraInfo
  <2> QED
    BY <1>1, <2>1 DEF NodeInv, OnCameraInfo
<1>2. CASE FailClosed
  <2>1. TracksInv'
    BY <1>2, TracksUnchanged DEF NodeInv, FailClosed
  <2> QED
    BY <1>0, <1>2, <2>1 DEF NodeInv, FailClosed, Processed
<1>3. CASE MockImage
  <2>1. TracksInv'
    BY <1>3, TracksUnchanged DEF NodeInv, MockImage
  <2> QED
    BY <1>0, <1>3, <2>1 DEF NodeInv, MockImage, Processed
<1>4. CASE OfflineImage
  <2>1. TracksInv
    BY DEF NodeInv
  <2>2. TracksInv'
    <3>1. CASE BadClock
      BY <2>1, <3>1, BadClockStep
    <3>2. ASSUME NEW obs \in Frames, NEW dt \in FrameTimes, Frame(obs, dt) PROVE TracksInv'
      <4>1. dt \in Nat
        BY NodeAssumption
      <4> QED
        BY <2>1, <3>2, <4>1, FrameStep
    <3> QED
      BY <1>4, <3>1, <3>2 DEF OfflineImage
  <2>3. Processed(Aimed)
    BY <1>4 DEF OfflineImage
  <2>4. Aimed \in {SafeCommand, [pose |-> param.mock, lock |-> TRUE]}
    BY DEF Aimed
  <2> QED
    BY <1>0, <2>2, <2>3, <2>4 DEF NodeInv, Processed
<1>5. CASE Die
  <2>1. TracksInv'
    <3>1. TracksInit'
      BY <1>5 DEF Die, TracksInit
    <3> QED
      BY <3>1, TracksForgotten
  <2> QED
    BY <1>0, <1>5, <2>1 DEF NodeInv, Die
<1>6. CASE Restart
  <2>1. TracksInv'
    BY <1>6, TracksUnchanged DEF NodeInv, Restart
  <2> QED
    BY <1>6, <2>1 DEF NodeInv, Restart
<1> QED
  BY <1>1, <1>2, <1>3, <1>4, <1>5, <1>6 DEF NodeStep

LEMMA NodeUnchanged == NodeInv /\ UNCHANGED node => NodeInv'
BY TracksUnchanged DEF NodeInv, node

LEMMA WatchUnchanged == WatchInv /\ UNCHANGED watch => WatchInv'
BY WatchStep

\* What the subscription holds after a publication: the new message, and what
\* it held before, without the first when there was no room.
LEMMA SendKeeps ==
  ASSUME QueueTypeOK, NEW m \in Messages, Send(m)
  PROVE  /\ QueueTypeOK'
         /\ \A i \in DOMAIN queue' :
              \/ queue'[i] = [msg |-> m, wait |-> 0]
              \/ \E j \in DOMAIN queue : queue'[i] = queue[j]
<1> DEFINE e == [msg |-> m, wait |-> 0]
           q == Append(queue, e)
           n == Len(queue)
<1>1. e \in Entry
  BY Ages DEF Entry
<1>2. queue \in Seq(Entry) /\ n \in Nat /\ n <= Depth /\ DOMAIN queue = 1 .. n
  BY DEF QueueTypeOK
<1>3. queue' = IF Len(q) > Depth THEN Tail(q) ELSE q
  BY DEF Send
<1> HIDE DEF e
<1>4. /\ q \in Seq(Entry) /\ Len(q) = n + 1 /\ DOMAIN q = 1 .. n + 1
      /\ q[n + 1] = e /\ \A j \in 1 .. n : q[j] = queue[j]
  BY <1>1, <1>2
<1> HIDE DEF q, n
<1>5. CASE Len(q) > Depth
  <2>1. queue' = Tail(q)
    BY <1>3, <1>5
  <2>2. q # <<>>
    BY <1>4, <1>2
  <2>3. /\ Tail(q) \in Seq(Entry) /\ Len(Tail(q)) = n /\ DOMAIN Tail(q) = 1 .. n
        /\ \A i \in 1 .. n : Tail(q)[i] = q[i + 1]
    BY <1>2, <1>4, <2>2
  <2>4. ASSUME NEW i \in 1 .. n PROVE Tail(q)[i] = e \/ \E j \in 1 .. n : Tail(q)[i] = queue[j]
    <3>1. Tail(q)[i] = q[i + 1]
      BY <2>3
    <3>2. CASE i = n
      BY <1>4, <3>1, <3>2
    <3>3. CASE i # n
      <4>1. i + 1 \in 1 .. n
        BY <1>2, <3>3
      <4> QED
        BY <1>4, <3>1, <4>1
    <3> QED
      BY <3>2, <3>3
  <2> QED
    BY <1>2, <2>1, <2>3, <2>4 DEF QueueTypeOK, e
<1>6. CASE ~(Len(q) > Depth)
  <2>1. queue' = q
    BY <1>3, <1>6
  <2>2. Len(q) <= Depth
    BY <1>2, <1>4, <1>6, Ages
  <2>3. ASSUME NEW i \in 1 .. n + 1 PROVE q[i] = e \/ \E j \in 1 .. n : q[i] = queue[j]
    <3>1. i = n + 1 \/ i \in 1 .. n
      BY <1>2
    <3> QED
      BY <1>4, <3>1
  <2> QED
    BY <1>2, <1>4, <2>1, <2>2, <2>3 DEF QueueTypeOK, e
<1> QED
  BY <1>5, <1>6

\* Whoever publishes: the queue stays typed, the locks in it as old as their
\* images, and it stays silent when the new message is.
LEMMA SendStep ==
  ASSUME ChainInv, NEW m \in Messages, Send(m), UNCHANGED <<node, watch>>,
         InTransit([msg |-> m, wait |-> 0]),
         Harmless => Silent([msg |-> m, wait |-> 0])
  PROVE  ChainInv'
<1>1. /\ QueueTypeOK'
      /\ \A i \in DOMAIN queue' :
           \/ queue'[i] = [msg |-> m, wait |-> 0]
           \/ \E j \in DOMAIN queue : queue'[i] = queue[j]
  BY SendKeeps DEF ChainInv, QueueInv
<1>2. NodeInv' /\ WatchInv'
  BY NodeUnchanged, WatchUnchanged DEF ChainInv
<1>3. UNCHANGED <<param, held, wire, last>>
  BY DEF node, watch
<1>4. ASSUME NEW i \in DOMAIN queue' PROVE InTransit(queue'[i])
  BY <1>1 DEF ChainInv, QueueInv
<1>5. QueueInv'
  BY <1>1, <1>4 DEF QueueInv, InTransit
<1>6. HeldIsRecent'
  BY <1>3 DEF ChainInv, HeldIsRecent
<1>7. ASSUME Harmless
      PROVE  /\ held' = SafeCommand /\ wire' = SafeCommand
             /\ \A i \in DOMAIN queue' : Silent(queue'[i])
  <2>1. held = SafeCommand /\ wire = SafeCommand /\ \A j \in DOMAIN queue : Silent(queue[j])
    BY <1>7 DEF ChainInv, Inert
  <2>2. Silent([msg |-> m, wait |-> 0])
    BY <1>7
  <2> QED
    BY <1>1, <1>3, <2>1, <2>2
<1>8. Inert'
  BY <1>3, <1>7 DEF Inert, Harmless, Silent, SafeCommand
<1> QED
  BY <1>2, <1>5, <1>6, <1>8 DEF ChainInv

\* What the node publishes: a lock only of an image that is not too old, and
\* nothing at all of the offline backend.
LEMMA PublishedIs ==
  ASSUME NodeInv, NEW c, c = Adapted(Command)
  PROVE  /\ c.pose \in Poses /\ c.lock \in BOOLEAN
         /\ c.lock => imageAge < NodeTimeout
         /\ param.offline => c.pose = 0 /\ c.lock = FALSE
<1>1. /\ param \in Configs
      /\ latest \in {SafeCommand, [pose |-> param.mock, lock |-> TRUE]}
  BY DEF NodeInv
<1>2. /\ 0 \in Poses /\ Constrained(param.mock) \in Poses /\ Constrained(0) = 0
      /\ param.mock \in Int
  BY <1>1, ChainAssumption, NodeAssumption, WatchAssumption DEF Constrained
<1>3. PICK p : p = param.mock
  OBVIOUS
<1>4. PICK no \in BOOLEAN, yes \in BOOLEAN : no = FALSE /\ yes = TRUE
  OBVIOUS
<1>5. SafeCommand = [pose |-> 0, lock |-> no]
  BY <1>4 DEF SafeCommand
<1>6. /\ Command.pose \in {0, p} /\ Command.lock \in BOOLEAN
      /\ Command = [pose |-> Command.pose, lock |-> Command.lock]
      /\ Command.lock => imageAge < NodeTimeout
      /\ param.offline => Command = SafeCommand
  <2>1. latest = SafeCommand \/ latest = [pose |-> p, lock |-> yes]
    BY <1>1, <1>3, <1>4
  <2>2. CASE param.offline
    BY <1>4, <1>5, <2>2 DEF Command, Publishable, TestOnly
  <2>3. CASE ~param.offline /\ FreshImage
    <3>1. Command = latest
      BY <2>3 DEF Command
    <3>2. imageAge < NodeTimeout
      BY <2>3 DEF FreshImage
    <3>3. Command = [pose |-> 0, lock |-> no] \/ Command = [pose |-> p, lock |-> yes]
      BY <1>5, <2>1, <3>1
    <3>4. /\ Command.pose \in {0, p} /\ Command.lock \in BOOLEAN
          /\ Command = [pose |-> Command.pose, lock |-> Command.lock]
      BY <3>3
    <3> QED
      BY <2>3, <3>2, <3>4
  <2>4. CASE ~param.offline /\ ~FreshImage
    <3>1. HoldCommand = [latest EXCEPT !.lock = no]
      BY <1>4 DEF HoldCommand
    <3>2. HoldCommand = [pose |-> 0, lock |-> no] \/ HoldCommand = [pose |-> p, lock |-> no]
      BY <1>5, <2>1, <3>1
    <3>3. Command = HoldCommand
      BY <2>4 DEF Command
    <3>4. /\ Command.pose \in {0, p} /\ Command.lock = no
          /\ Command = [pose |-> Command.pose, lock |-> Command.lock]
      BY <3>2, <3>3
    <3> QED
      BY <1>4, <2>4, <3>4
  <2> QED
    BY <2>2, <2>3, <2>4
<1> QED
  BY <1>2, <1>3, <1>4, <1>5, <1>6 DEF Adapted

\* A tick of the node's timer.
LEMMA PublishStep == ChainInv /\ Publish => ChainInv'
<1> SUFFICES ASSUME ChainInv, Publish PROVE ChainInv'
  OBVIOUS
<1>1. PICK c : c = Adapted(Command)
  OBVIOUS
<1>2. PICK age : age = IF c.lock THEN imageAge ELSE 0
  OBVIOUS
<1>3. Send([pose |-> c.pose, lock |-> c.lock, fit |-> TRUE, age |-> age])
      /\ UNCHANGED <<node, watch>>
  BY <1>1, <1>2 DEF Publish
<1>4. /\ c.pose \in Poses /\ c.lock \in BOOLEAN
      /\ c.lock => imageAge < NodeTimeout
      /\ param.offline => c.pose = 0 /\ c.lock = FALSE
  BY <1>1, PublishedIs DEF ChainInv
<1>5. imageAge \in 0 .. NodeTimeout
  BY DEF ChainInv, NodeInv
<1>6. age \in 0 .. MaxAge /\ (c.lock => age <= NodeTimeout - 1) /\ (~c.lock => age = 0)
  BY <1>2, <1>4, <1>5, Ages
<1>7. PICK p, l : p = c.pose /\ l = c.lock
  OBVIOUS
<1> DEFINE m == [pose |-> p, lock |-> l, fit |-> TRUE, age |-> age]
<1>8. m \in Messages
  BY <1>4, <1>6, <1>7 DEF Messages
<1>9. InTransit([msg |-> m, wait |-> 0])
  <2>1. age <= IF l THEN (NodeTimeout - 1) + 0 ELSE 0
    BY <1>6, <1>7, <1>4, Ages
  <2> QED
    BY <2>1 DEF InTransit
<1>10. Harmless => Silent([msg |-> m, wait |-> 0])
  BY <1>4, <1>7 DEF Harmless, Silent
<1>11. Send(m) /\ UNCHANGED <<node, watch>>
  BY <1>3, <1>7
<1> HIDE DEF m
<1> QED
  BY <1>8, <1>9, <1>10, <1>11, SendStep

\* Somebody else publishes.
LEMMA BypassStep == ChainInv /\ Bypass => ChainInv'
<1> SUFFICES ASSUME ChainInv, Bypass PROVE ChainInv'
  OBVIOUS
<1>1. /\ param.bypass /\ UNCHANGED <<node, watch>>
      /\ \E pose \in Poses, lock, fit \in BOOLEAN :
           Send([pose |-> pose, lock |-> lock, fit |-> fit, age |-> 0])
  BY DEF Bypass
<1>2. PICK pose \in Poses, lock \in BOOLEAN, fit \in BOOLEAN :
        Send([pose |-> pose, lock |-> lock, fit |-> fit, age |-> 0])
  BY <1>1
<1> DEFINE m == [pose |-> pose, lock |-> lock, fit |-> fit, age |-> 0]
<1>3. m \in Messages
  BY Ages DEF Messages
<1>4. InTransit([msg |-> m, wait |-> 0])
  BY Ages DEF InTransit
<1>5. Harmless => Silent([msg |-> m, wait |-> 0])
  BY <1>1 DEF Harmless
<1>6. Send(m)
  BY <1>2
<1> HIDE DEF m
<1> QED
  BY <1>1, <1>3, <1>4, <1>5, <1>6, SendStep

\* robotCtrlReceive takes the first message, which is one the queue promises.
LEMMA TakeStep == ChainInv /\ Take => ChainInv' /\ Accept(Head(queue).msg)
<1> SUFFICES ASSUME ChainInv, Take PROVE ChainInv' /\ Accept(Head(queue).msg)
  OBVIOUS
<1> DEFINE n == Len(queue)
<1>1. PICK e : e = queue[1]
  OBVIOUS
<1>2. /\ queue \in Seq(Entry) /\ n \in Nat /\ n <= Depth /\ DOMAIN queue = 1 .. n
      /\ queue # <<>> /\ \A i \in DOMAIN queue : InTransit(queue[i])
  BY DEF ChainInv, QueueInv, QueueTypeOK, Take
<1>3. /\ n >= 1 /\ e \in Entry /\ Head(queue) = e /\ InTransit(e)
      /\ Harmless => Silent(e)
  <2>1. n >= 1 /\ 1 \in DOMAIN queue
    BY <1>2
  <2> QED
    BY <1>1, <1>2, <2>1 DEF ChainInv, Inert
<1>4. Accept(e.msg) /\ queue' = Tail(queue) /\ UNCHANGED node
  BY <1>3 DEF Take
<1>5. /\ Tail(queue) \in Seq(Entry) /\ Len(Tail(queue)) = n - 1
      /\ DOMAIN Tail(queue) = 1 .. n - 1
      /\ \A i \in 1 .. n - 1 : Tail(queue)[i] = queue[i + 1] /\ i + 1 \in 1 .. n
  BY <1>2
<1> HIDE DEF n
<1>6. \A i \in DOMAIN queue' : \E j \in DOMAIN queue : queue'[i] = queue[j]
  BY <1>2, <1>4, <1>5
<1>7. QueueInv'
  <2>1. QueueTypeOK'
    BY <1>2, <1>3, <1>4, <1>5, Ages DEF QueueTypeOK
  <2>2. \A i \in DOMAIN queue' : InTransit(queue'[i])
    BY <1>2, <1>6
  <2> QED
    BY <2>1, <2>2 DEF QueueInv, InTransit
<1>8. PICK m : m = e.msg
  OBVIOUS
<1>9. m \in Messages /\ e.wait \in 0 .. Transit
  BY <1>3, <1>8 DEF Entry
<1>10. Accept(m)
  BY <1>4, <1>8
<1>11. WatchInv'
  BY <1>9, <1>10, WatchStep DEF ChainInv, WatchNext
<1>12. NodeInv'
  BY <1>4, NodeUnchanged DEF ChainInv
<1>13. m.lock \in BOOLEAN /\ m.age \in 0 .. MaxAge /\ m.pose \in Int
  BY <1>9, WatchAssumption DEF Messages
<1>14. m.lock => m.age <= (NodeTimeout - 1) + Transit
  BY <1>3, <1>8, <1>9, <1>13, Ages DEF InTransit
<1>15. PICK no \in BOOLEAN : no = FALSE
  OBVIOUS
<1>16. HeldIsRecent'
  <2>1. CASE profile /\ m.fit
    <3>1. held'.lock = m.lock /\ last'.age = m.age
      BY <1>10, <2>1 DEF Accept
    <3> QED
      BY <1>14, <3>1 DEF HeldIsRecent
  <2>2. CASE ~(profile /\ m.fit)
    <3>1. held' = [pose |-> held.pose, lock |-> no]
      BY <1>10, <1>15, <2>2 DEF Accept, Refuse, Unlocked
    <3> QED
      BY <1>15, <3>1 DEF HeldIsRecent
  <2> QED
    BY <2>1, <2>2
<1>17. ASSUME Harmless
       PROVE  /\ held' = SafeCommand /\ wire' = SafeCommand
              /\ \A i \in DOMAIN queue' : Silent(queue'[i])
  <2>1. held = SafeCommand /\ wire = SafeCommand /\ \A j \in DOMAIN queue : Silent(queue[j])
    BY <1>17 DEF ChainInv, Inert
  <2>2. m.pose = 0 /\ m.lock = FALSE
    BY <1>3, <1>8, <1>17 DEF Silent
  <2>3. held' = SafeCommand
    <3>1. CASE profile /\ m.fit
      <4>1. held' = [pose |-> Constrained(m.pose), lock |-> m.lock]
        BY <1>10, <3>1 DEF Accept
      <4>2. Constrained(m.pose) = 0
        BY <2>2, WatchAssumption DEF Constrained
      <4> QED
        BY <2>2, <4>1, <4>2 DEF SafeCommand
    <3>2. CASE ~(profile /\ m.fit)
      BY <1>10, <2>1, <3>2 DEF Accept, Refuse, Unlocked, SafeCommand
    <3> QED
      BY <3>1, <3>2
  <2>4. wire' = wire
    BY <1>10 DEF Accept
  <2> QED
    BY <1>6, <2>1, <2>3, <2>4
<1>18. Inert'
  <2>1. UNCHANGED param
    BY <1>4 DEF node
  <2> QED
    BY <1>17, <2>1 DEF Inert, Harmless, Silent, SafeCommand
<1> QED
  BY <1>4, <1>3, <1>7, <1>11, <1>12, <1>16, <1>18 DEF ChainInv

\* A tick of the timer that writes to the board.
LEMMA SendControlStep == ChainInv /\ SendControl => ChainInv'
<1> SUFFICES ASSUME ChainInv, SendControl PROVE ChainInv'
  OBVIOUS
<1>1. Tick /\ UNCHANGED <<node, queue>>
  BY DEF SendControl
<1>2. UNCHANGED <<profile, held, heldAge, haveValid, forceStale, last, param>>
  BY <1>1 DEF Tick, node
<1>3. NodeInv' /\ WatchInv'
  BY <1>1, NodeUnchanged, WatchStep DEF ChainInv, WatchNext
<1>4. QueueInv'
  BY <1>1 DEF ChainInv, QueueInv, QueueTypeOK, InTransit
<1>5. HeldIsRecent'
  BY <1>2 DEF ChainInv, HeldIsRecent
<1>6. Inert'
  <2>1. ASSUME Harmless PROVE wire' = SafeCommand
    <3>1. held = SafeCommand
      BY <2>1 DEF ChainInv, Inert
    <3> QED
      BY <1>1, <3>1 DEF Tick, Unlocked, SafeCommand
  <2> QED
    BY <1>1, <1>2, <2>1 DEF ChainInv, Inert, Harmless, Silent, SafeCommand
<1> QED
  BY <1>3, <1>4, <1>5, <1>6 DEF ChainInv

\* Time passes for the images, for what waits and for what is held.
LEMMA ElapseStep == ChainInv /\ Elapse => ChainInv'
<1> SUFFICES ASSUME ChainInv, Elapse PROVE ChainInv'
  OBVIOUS
<1> DEFINE n == Len(queue)
           Older(e) == [e EXCEPT !.wait = @ + 1, !.msg.age = IF e.msg.lock THEN @ + 1 ELSE @]
<1>1. /\ \A i \in DOMAIN queue : queue[i].wait < Transit
      /\ imageAge' = Capped(imageAge + 1, NodeTimeout)
      /\ queue' = [i \in DOMAIN queue |-> Older(queue[i])]
      /\ WatchElapse
      /\ UNCHANGED <<tracks, stranded, param, up, info, latest>>
  BY DEF Elapse
<1>2. /\ queue \in Seq(Entry) /\ n \in Nat /\ n <= Depth /\ DOMAIN queue = 1 .. n
      /\ \A i \in DOMAIN queue : queue[i] \in Entry /\ InTransit(queue[i])
  BY DEF ChainInv, QueueInv, QueueTypeOK
<1>3. ASSUME NEW e \in Entry, InTransit(e), e.wait < Transit
      PROVE  Older(e) \in Entry /\ InTransit(Older(e)) /\ (Silent(e) => Silent(Older(e)))
  <2>1. PICK m, w : m = e.msg /\ w = e.wait /\ e = [msg |-> m, wait |-> w]
    BY DEF Entry
  <2>2. m \in Messages /\ w \in 0 .. Transit
    BY <2>1 DEF Entry
  <2>3. PICK p \in Poses, l \in BOOLEAN, f \in BOOLEAN, a \in 0 .. MaxAge :
          m = [pose |-> p, lock |-> l, fit |-> f, age |-> a]
    BY <2>2 DEF Messages
  <2>4. PICK b : b = IF l THEN a + 1 ELSE a
    OBVIOUS
  <2>5. a <= IF l THEN (NodeTimeout - 1) + w ELSE 0
    BY <1>3, <2>1, <2>3 DEF InTransit
  <2>6. w + 1 \in 0 .. Transit
    BY <1>3, <2>1, <2>2, Ages
  <2>7. b \in 0 .. MaxAge /\ b <= IF l THEN (NodeTimeout - 1) + (w + 1) ELSE 0
    <3>1. w \in Nat /\ a \in Nat /\ w + 1 <= Transit
      BY <2>2, <2>3, <2>6, Ages
    <3>2. CASE l
      BY <2>4, <2>5, <3>1, <3>2, Ages
    <3>3. CASE ~l
      BY <2>4, <2>5, <3>1, <3>3, Ages
    <3> QED
      BY <3>2, <3>3
  <2>8. PICK k : k = [pose |-> p, lock |-> l, fit |-> f, age |-> b]
    OBVIOUS
  <2>9. k \in Messages /\ k.lock = l /\ k.age = b /\ k.pose = p
    BY <2>7, <2>8 DEF Messages
  <2>10. Older(e) = [msg |-> k, wait |-> w + 1]
    <3>1. m.age = a /\ m.lock = l /\ [m EXCEPT !.age = b] = k
      BY <2>3, <2>8
    <3>2. (IF e.msg.lock THEN e.msg.age + 1 ELSE e.msg.age) = b
      BY <2>1, <2>4, <3>1
    <3>3. Older(e) = [[e EXCEPT !.wait = e.wait + 1]
                        EXCEPT !.msg = [e.msg EXCEPT !.age = IF e.msg.lock THEN e.msg.age + 1
                                                             ELSE e.msg.age]]
      BY <2>1
    <3> HIDE DEF Older
    <3>4. Older(e) = [[e EXCEPT !.wait = w + 1] EXCEPT !.msg = k]
      BY <2>1, <3>1, <3>2, <3>3
    <3>5. [e EXCEPT !.wait = w + 1] = [msg |-> m, wait |-> w + 1]
      BY <2>1
    <3> QED
      BY <3>4, <3>5
  <2> HIDE DEF Older
  <2>11. Older(e) \in Entry
    BY <2>6, <2>9, <2>10 DEF Entry
  <2>12. InTransit(Older(e))
    BY <2>7, <2>9, <2>10 DEF InTransit
  <2>13. Silent(e) => Silent(Older(e))
    BY <2>1, <2>3, <2>9, <2>10 DEF Silent
  <2> QED
    BY <2>11, <2>12, <2>13
<1> HIDE DEF Older
<1>4. /\ DOMAIN queue' = 1 .. n
      /\ \A i \in 1 .. n : queue'[i] = Older(queue[i])
  BY <1>1, <1>2
<1>5. \A i \in 1 .. n :
        /\ queue'[i] \in Entry /\ InTransit(queue'[i])
        /\ Silent(queue[i]) => Silent(queue'[i])
  BY <1>1, <1>2, <1>3, <1>4
<1>6. QueueInv'
  <2>1. queue' = [i \in 1 .. n |-> Older(queue[i])]
    BY <1>1, <1>2
  <2>2. queue' \in [1 .. n -> Entry]
    BY <1>4, <1>5, <2>1
  <2> HIDE DEF n
  <2>3. queue' \in Seq(Entry) /\ Len(queue') = n
    BY <1>2, <2>2, FunctionIsSequence
  <2>4. \A i \in DOMAIN queue' : InTransit(queue'[i])
    BY <1>4, <1>5
  <2> QED
    BY <1>2, <2>3, <2>4 DEF QueueInv, QueueTypeOK, InTransit
<1>7. NodeInv'
  <2>1. TracksInv'
    BY <1>1, TracksUnchanged DEF ChainInv, NodeInv
  <2>2. imageAge' \in 0 .. NodeTimeout
    BY <1>1, Ages DEF ChainInv, NodeInv, Capped
  <2> QED
    BY <1>1, <2>1, <2>2 DEF ChainInv, NodeInv
<1>8. WatchInv'
  BY <1>1, WatchStep DEF ChainInv, WatchNext
<1>9. UNCHANGED <<held, wire, last>>
  BY <1>1 DEF WatchElapse
<1>10. HeldIsRecent'
  BY <1>9 DEF ChainInv, HeldIsRecent
<1>11. Inert'
  <2>1. ASSUME Harmless PROVE \A i \in DOMAIN queue' : Silent(queue'[i])
    <3>1. \A i \in 1 .. n : Silent(queue[i])
      BY <1>2, <2>1 DEF ChainInv, Inert
    <3> QED
      BY <1>4, <1>5, <3>1
  <2> QED
    BY <1>1, <1>9, <2>1 DEF ChainInv, Inert, Harmless, Silent, SafeCommand
<1> QED
  BY <1>6, <1>7, <1>8, <1>10, <1>11 DEF ChainInv

\* A stuttering step.
LEMMA ChainUnchanged == ChainInv /\ UNCHANGED vars => ChainInv'
<1> SUFFICES ASSUME ChainInv, UNCHANGED vars PROVE ChainInv'
  OBVIOUS
<1>1. UNCHANGED node /\ UNCHANGED watch /\ UNCHANGED queue
  BY DEF vars
<1>2. NodeInv' /\ WatchInv'
  BY <1>1, NodeUnchanged, WatchUnchanged DEF ChainInv
<1>3. UNCHANGED <<param, held, wire, last>>
  BY <1>1 DEF node, watch
<1>4. QueueInv' /\ HeldIsRecent' /\ Inert'
  BY <1>1, <1>3
     DEF ChainInv, QueueInv, QueueTypeOK, InTransit, HeldIsRecent, Inert, Harmless, Silent,
         SafeCommand
<1> QED
  BY <1>2, <1>4 DEF ChainInv

\* No step of the node, the queue, the watchdog or the clock breaks it.
LEMMA ChainStep == ChainInv /\ [Next]_vars => ChainInv'
<1>1. ASSUME ChainInv, NodeStep PROVE ChainInv'
  <2>1. NodeInv' /\ UNCHANGED param /\ UNCHANGED <<watch, queue>>
    BY <1>1, NodeStepKeeps DEF ChainInv, NodeStep
  <2>2. WatchInv'
    BY <1>1, <2>1, WatchUnchanged DEF ChainInv
  <2>3. UNCHANGED <<held, wire, last>>
    BY <2>1 DEF watch
  <2>4. QueueInv' /\ HeldIsRecent' /\ Inert'
    BY <1>1, <2>1, <2>3
       DEF ChainInv, QueueInv, QueueTypeOK, InTransit, HeldIsRecent, Inert, Harmless, Silent,
           SafeCommand
  <2> QED
    BY <2>1, <2>2, <2>4 DEF ChainInv
<1> QED
  BY <1>1, PublishStep, BypassStep, TakeStep, SendControlStep, ElapseStep, ChainUnchanged
     DEF Next

\* The launch.
LEMMA ChainInitially == Init => ChainInv
<1> SUFFICES ASSUME Init PROVE ChainInv
  OBVIOUS
<1>1. /\ NodeInit /\ WatchInit /\ queue = <<>>
  BY DEF Init
<1>2. NodeInv
  <2>1. TracksInv
    BY <1>1, TracksInitially DEF NodeInit
  <2>2. NodeTimeout \in 0 .. NodeTimeout
    BY Ages
  <2> QED
    BY <1>1, <2>1, <2>2 DEF NodeInit, NodeInv
<1>3. WatchInv
  BY <1>1, WatchInitially
<1>4. queue \in Seq(Entry) /\ Len(queue) = 0 /\ DOMAIN queue = {}
  BY <1>1
<1>5. QueueInv
  BY <1>4, Ages DEF QueueInv, QueueTypeOK
<1>6. HeldIsRecent
  BY <1>1 DEF WatchInit, Unlocked, HeldIsRecent
<1>7. Inert
  BY <1>1, <1>4 DEF WatchInit, Unlocked, SafeCommand, Inert
<1> QED
  BY <1>2, <1>3, <1>5, <1>6, <1>7 DEF ChainInv

\* The inductive invariant of the previous generation: what the tracks, the
\* messages under way and the watchdog know of one another.
THEOREM ChainInvariant == Spec => []ChainInv
BY ChainInitially, ChainStep, PTL DEF Spec

\* Every variable of the chain has its type, in every reachable state: the
\* queue never holds more than its depth, nor a message older than the bounds.
THEOREM ChainTypeCorrect == Spec => []TypeOK
<1>1. ChainInv => TypeOK
  <2> SUFFICES ASSUME ChainInv PROVE TypeOK
    OBVIOUS
  <2>1. NodeTypeOK
    BY TracksInvMeans DEF ChainInv, NodeInv, NodeTypeOK, TracksInv
  <2>2. WatchTypeOK
    BY DEF ChainInv, WatchInv
  <2> QED
    BY <2>1, <2>2 DEF ChainInv, QueueInv, QueueTypeOK, Entry, TypeOK
<1> QED
  BY <1>1, ChainInvariant, PTL

\* OfflineTracker locks a track only after min_detect_count frames in a row
\* that found it, for every association, loss and reacquisition.
THEOREM TrackerConfirms == Spec => []LockIsConfirmed
<1>1. ChainInv => LockIsConfirmed
  BY TracksInvMeans DEF ChainInv, NodeInv
<1> QED
  BY <1>1, ChainInvariant, PTL

\* The augmenting paths of OfflineTracker::update match as many tracks as can
\* be matched at all, in every frame and for any number of tracks.
THEOREM TrackerMatchesMost == Spec => []MatchesAreMaximum
<1>1. ChainInv => MatchesAreMaximum
  BY TracksInvMeans DEF ChainInv, NodeInv
<1> QED
  BY <1>1, ChainInvariant, PTL

\* TargetSelector leaves a target that is still there only for one that has
\* won switch_debounce_frames times in a row.
THEOREM SelectorDebounces == Spec => []SwitchIsDebounced
<1>1. ChainInv => SwitchIsDebounced
  BY TracksInvMeans DEF ChainInv, NodeInv
<1> QED
  BY <1>1, ChainInvariant, PTL

\* The offline backend moves nothing, whatever its tracker locks, unless
\* somebody else publishes.
THEOREM OfflineMovesNothing == Spec => []OfflineIsInert
<1>1. ChainInv => OfflineIsInert
  BY DEF ChainInv, Inert, Harmless, OfflineIsInert
<1> QED
  BY <1>1, ChainInvariant, PTL

\* A lock that reaches the board is of an image no older than the timeout of
\* the node, the transit and the timeout of the watchdog together.
THEOREM WrittenLockIsRecent == Spec => LockIsRecent
<1>1. ASSUME ChainInv
      PROVE  [SendControl /\ wire'.lock
                => last.age + heldAge <= (NodeTimeout - 1) + Transit + (SafeTimeout - 1)]_vars
  <2> SUFFICES ASSUME SendControl, wire'.lock
               PROVE  last.age + heldAge <= (NodeTimeout - 1) + Transit + (SafeTimeout - 1)
    OBVIOUS
  <2>1. PICK no \in BOOLEAN : no = FALSE
    OBVIOUS
  <2>2. wire' = IF Fresh THEN held ELSE [pose |-> IF haveValid THEN held.pose ELSE 0, lock |-> no]
    BY <2>1 DEF SendControl, Tick, Unlocked
  <2>3. Fresh
    BY <2>1, <2>2
  <2>4. held.lock /\ heldAge < SafeTimeout
    BY <2>2, <2>3 DEF Fresh
  <2>5. last.age <= (NodeTimeout - 1) + Transit
    BY <1>1, <2>4 DEF ChainInv, HeldIsRecent
  <2>6. last.age \in 0 .. MaxAge /\ heldAge \in 0 .. SafeTimeout
    BY <1>1 DEF ChainInv, WatchInv, WatchTypeOK
  <2> QED
    BY <2>4, <2>5, <2>6, Ages
<1> QED
  BY <1>1, ChainInvariant, PTL DEF Spec, LockIsRecent

\* The chain implements the watchdog on its own: what the queue delivers are
\* messages the watchdog knows, and nothing else of the chain touches it.
THEOREM ChainImplementsWatch == Spec => WatchSpec
<1>1. Init => WatchInit
  BY DEF Init
<1>2. ChainInv /\ [Next]_vars => [WatchNext]_watch
  <2> SUFFICES ASSUME ChainInv, [Next]_vars PROVE WatchNext \/ UNCHANGED watch
    OBVIOUS
  <2>1. CASE Take
    <3>1. queue \in Seq(Entry) /\ queue # <<>>
      BY <2>1 DEF ChainInv, QueueInv, QueueTypeOK, Take
    <3>2. Head(queue) \in Entry
      BY <3>1
    <3>3. Head(queue).msg \in Messages
      BY <3>2 DEF Entry
    <3> QED
      BY <2>1, <3>3, TakeStep DEF WatchNext
  <2>2. CASE NodeStep \/ Publish \/ Bypass \/ UNCHANGED vars
    BY <2>2 DEF NodeStep, Publish, Bypass, vars
  <2>3. CASE SendControl \/ Elapse
    BY <2>3 DEF SendControl, Elapse, WatchNext
  <2> QED
    BY <2>1, <2>2, <2>3 DEF Next
<1> QED
  BY <1>1, <1>2, ChainInvariant, PTL DEF Spec, WatchSpec

\* In the chain as well as alone: once the input was refused or is silent, the
\* board is unlocked and holds the pose that was last accepted.
THEOREM ChainHoldsAndUnlocks == Spec => HoldsAndUnlocks
BY ChainImplementsWatch, WatchHoldsAndUnlocks
=============================================================================
