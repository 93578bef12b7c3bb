-------------------------- MODULE VisionChainProofs --------------------------
(***************************************************************************)
(* Proofs about the chain from the camera to the target.                   *)
(*                                                                         *)
(* The tracker in the chain takes the steps of ArmorTrack, so what         *)
(* ArmorTrackProofs shows of it holds here.  The rest needs the order of   *)
(* the images: the queue is sorted by age and everything in it is younger  *)
(* than the image searched last, so no time between two images is          *)
(* negative, and what the mode controller has counted lies between the     *)
(* image that brought the mode and the last one.                           *)
(***************************************************************************)
EXTENDS VisionChain, ArmorTrackProofs

Images == [age : 0 .. FrameAge, blank : BOOLEAN]

\* The images wait in the order of their stamps, all after the last searched.
InOrder ==
  /\ \A i \in DOMAIN frames : frames[i].age <= since
  /\ \A i, j \in DOMAIN frames : i < j => frames[j].age <= frames[i].age

\* The time counted against the mode has passed since it was entered; ages
\* that are capped are beyond transfer_time anyway.
TimeIsSpent ==
  /\ since <= entered
  /\ entered < AgeCap => overflow \in -(entered - since) .. entered - since

\* A target of which nothing was seen has no mode and no time.
FreshTarget == ~cur.inited => mode = Single /\ overflow = 0 /\ ~cur.jumped

ChainInv ==
  /\ TrackInv /\ FsmTypeOK /\ CameraTypeOK /\ (capturing => fails <= MaxFails)
  /\ frames \in Seq(Images) /\ Len(frames) <= FrameDepth
  /\ since \in 0 .. AgeCap /\ entered \in 0 .. AgeCap
  /\ InOrder /\ TimeIsSpent /\ FreshTarget /\ ModeNeedsJump
-----------------------------------------------------------------------------
(* The tracker in the chain.                                               *)

\* A buffer that was found in an image of this age; and one that is as a miss
\* leaves buffer s.
Shown(p, late) == p.inited = TRUE /\ p.age = late
AsMissed(p, s) ==
  /\ p.inited = s.inited /\ p.jumped = s.jumped /\ p.age = s.age
  /\ p.state \in {"LOST", "TEMP_LOST"} /\ (Held(p) => Held(s))

\* What becomes of a buffer either shows the target in this image, or is the
\* buffer as a miss leaves it.
LEMMA ProcessedShows ==
  ASSUME NEW s, NEW c, TypedSlot(s), NEW late \in 0 .. FrameAge, NEW found \in BOOLEAN,
         NEW p \in Processed(s, c, late, found)
  PROVE  Shown(p, late) \/ AsMissed(p, s)
<1>1. CASE ~found
  <2>1. p = AfterMiss(s, late)
    BY <1>1 DEF Processed
  <2>2. p.inited = s.inited /\ p.jumped = s.jumped
    BY <2>1 DEF AfterMiss, TypedSlot, Slots
  <2> QED
    BY <2>1, <2>2, MissTyped DEF AsMissed
<1>2. CASE found
  <2>1. PICK u : /\ TypedSlot(u) /\ u.inited = TRUE /\ u.age = late /\ u.state # "LOST"
                 /\ p = AfterFound(u)
    <3>1. CASE s.state = "LOST"
      <4>1. PICK n \in Eligible(c) : p = AfterFound(Started(n, late))
        BY <1>2, <3>1 DEF Processed
      <4>2. n \in Numbers
        BY <4>1, TrackAssumption DEF Eligible
      <4>3. Started(n, late).inited = TRUE /\ Started(n, late).age = late
        BY DEF Started, NoTarget
      <4> QED
        BY <4>1, <4>2, <4>3, StartedTyped
    <3>2. CASE s.state # "LOST"
      <4>1. PICK jumped \in BOOLEAN : p = AfterFound(Updated(s, jumped, late))
        BY <1>2, <3>2 DEF Processed
      <4>2. Updated(s, jumped, late).inited = TRUE /\ Updated(s, jumped, late).age = late
        BY <3>2 DEF Updated, TypedSlot, Slots
      <4> QED
        BY <3>2, <4>1, <4>2, UpdatedTyped
    <3> QED
      BY <3>1, <3>2
  <2>2. p.inited = u.inited /\ p.age = u.age
    BY <2>1 DEF AfterFound, CountUp, TypedSlot, Slots
  <2> QED
    BY <2>1, <2>2 DEF Shown
<1> QED
  BY <1>1, <1>2

\* So does the current target after an image, whichever buffer it comes from.
LEMMA CurrentShows ==
  ASSUME TrackInv, NEW late \in 0 .. FrameAge, NEW found \in BOOLEAN,
         NEW foundPre \in BOOLEAN, Track(late, found, foundPre)
  PROVE  Shown(cur', late) \/ AsMissed(cur', cur)
<1>1. TypedSlot(cur) /\ TypedSlot(pre)
  BY DEF TrackInv
<1>2. CASE Alone(late, found)
  <2>1. PICK c \in Processed(cur, cur, late, found) : cur' = c
    BY <1>2 DEF Alone
  <2>2. Shown(c, late) \/ AsMissed(c, cur)
    BY <1>1, ProcessedShows
  <2> QED
    BY <2>1, <2>2
<1>3. CASE InDoubt(late, found, foundPre)
  <2>1. PICK c \in Processed(cur, cur, late, found) :
          \E p \in Processed(pre, c, late, foundPre) :
            cur' = c \/ (cur' = p /\ p.state = "TRACKING")
    BY <1>3 DEF InDoubt
  <2>2. PICK p \in Processed(pre, c, late, foundPre) :
          cur' = c \/ (cur' = p /\ p.state = "TRACKING")
    BY <2>1
  <2>3. CASE cur' = c
    <3>1. Shown(c, late) \/ AsMissed(c, cur)
      BY <1>1, ProcessedShows
    <3> QED
      BY <2>3, <3>1
  <2>4. CASE cur' = p /\ p.state = "TRACKING"
    <3>1. Shown(p, late)
      BY <1>1, <2>4, ProcessedShows DEF AsMissed
    <3> QED
      BY <2>4, <3>1
  <2> QED
    BY <2>2, <2>3, <2>4
<1> QED
  BY <1>2, <1>3 DEF Track

\* An image that is searched: its age, and the tracker's step.
LEMMA SearchTracks ==
  ASSUME ChainInv, NEW found \in BOOLEAN, NEW foundPre \in BOOLEAN,
         OnImage(found, foundPre)
  PROVE  /\ Head(frames) \in Images /\ Tail(frames) \in Seq(Images)
         /\ Track(Head(frames).age, found, foundPre)
<1>1. frames \in Seq(Images) /\ frames # <<>>
  BY DEF ChainInv, OnImage
<1> QED
  BY <1>1 DEF OnImage

\* A step of the chain is one of the tracker, or none.
LEMMA TrackerStep ==
  ASSUME ChainInv, [Next]_vars
  PROVE  [TrackNext]_slots
<1>1. CASE Capture
  BY <1>1 DEF Capture
<1>2. CASE CaptureFails
  BY <1>2 DEF CaptureFails
<1>3. CASE Lose
  BY <1>3 DEF Lose
<1>4. ASSUME NEW found \in BOOLEAN, NEW foundPre \in BOOLEAN, OnImage(found, foundPre)
      PROVE  TrackNext
  <2>1. Head(frames).age \in 0 .. FrameAge
    BY <1>4, SearchTracks DEF Images
  <2> QED
    BY <1>4, <2>1, SearchTracks DEF TrackNext
<1>5. CASE Elapse
  BY <1>5 DEF Elapse, TrackNext
<1>6. CASE UNCHANGED vars
  BY <1>6 DEF vars, slots
<1> QED
  BY <1>1, <1>2, <1>3, <1>4, <1>5, <1>6 DEF Next, Search
-----------------------------------------------------------------------------
(* The mode controller in the chain.                                       *)

\* No time between two images is negative.
LEMMA DtSpent ==
  ASSUME ChainInv, frames # <<>>
  PROVE  /\ Head(frames).age \in 0 .. FrameAge
         /\ Dt(Head(frames).age) \in 0 .. since - Head(frames).age
<1>1. frames \in Seq(Images) /\ 1 \in DOMAIN frames /\ Head(frames) = frames[1]
  BY DEF ChainInv
<1>2. frames[1] \in Images
  BY <1>1
<1>3. frames[1].age \in 0 .. FrameAge /\ frames[1].age <= since
  BY <1>1, <1>2 DEF Images, ChainInv, InOrder
<1> QED
  BY <1>1, <1>3, AgeCapNat, TrackAssumption DEF Dt, ChainInv

\* A mode changes by one, after more than transfer_time; else the time that
\* was counted grows by no more than has passed.
LEMMA UpdateStep ==
  ASSUME FsmTypeOK, NEW rate \in Rates, NEW jumped \in BOOLEAN, NEW dt \in Nat,
         FsmUpdate(rate, jumped, dt)
  PROVE  /\ FsmTypeOK'
         /\ \/ ~jumped /\ mode' = Single /\ overflow' = 0
            \/ /\ jumped /\ overflow' = 0 /\ mode' - mode \in {-1, 1}
               /\ \/ overflow + dt > TransferTime
                  \/ -overflow + dt > TransferTime
            \/ /\ jumped /\ mode' = mode
               /\ overflow' \in {overflow + dt, overflow - dt, 0}
<1> DEFINE time == Counted(rate, dt)
<1>0. /\ mode \in 0 .. 3 /\ overflow \in -TransferTime .. TransferTime
      /\ TransferTime \in Nat
  BY FsmAssumption DEF FsmTypeOK, Modes, Single, Center
<1>1. /\ time \in Int
      /\ time > TransferTime => mode # Center /\ time = overflow + dt
      /\ time < -TransferTime => mode # Single /\ time = overflow - dt
      /\ time \in {overflow + dt, overflow - dt, 0}
  BY <1>0 DEF Counted, Above, Below
<1> HIDE DEF time
<1>2. CASE ~jumped
  BY <1>0, <1>2 DEF FsmUpdate, Reset, FsmTypeOK, Modes, Single, Center
<1>3. CASE jumped /\ time > TransferTime
  <2>1. mode' = mode + 1 /\ overflow' = 0
    <3>1. ~(time < -TransferTime)
      BY <1>0, <1>1, <1>3
    <3> QED
      BY <1>0, <1>3, <3>1 DEF FsmUpdate, Transfer, time
  <2> QED
    BY <1>0, <1>1, <1>3, <2>1 DEF FsmTypeOK, Modes, Single, Center
<1>4. CASE jumped /\ time < -TransferTime
  <2>1. mode' = mode - 1 /\ overflow' = 0
    <3>1. ~(time > TransferTime)
      BY <1>0, <1>1, <1>4
    <3> QED
      BY <1>0, <1>4, <3>1 DEF FsmUpdate, Transfer, time
  <2> QED
    BY <1>0, <1>1, <1>4, <2>1 DEF FsmTypeOK, Modes, Single, Center
<1>5. CASE jumped /\ ~(time > TransferTime) /\ ~(time < -TransferTime)
  <2>1. mode' = mode /\ overflow' = time
    BY <1>5 DEF FsmUpdate, time
  <2>2. overflow' \in -TransferTime .. TransferTime
    BY <1>0, <1>1, <1>5, <2>1
  <2> QED
    BY <1>0, <1>1, <1>5, <2>1, <2>2 DEF FsmTypeOK, Modes, Single, Center
<1> QED
  BY <1>2, <1>3, <1>4, <1>5
-----------------------------------------------------------------------------
(* The images in the queue.                                                *)

\* A published image is the youngest.
LEMMA PublishStep ==
  ASSUME ChainInv, NEW image \in Images, image.age = 0, Publish(image), since' = since
  PROVE  frames' \in Seq(Images) /\ Len(frames') <= FrameDepth /\ InOrder'
<1> DEFINE k == IF Len(frames) < FrameDepth THEN 0 ELSE 1
           n == Len(frames) + 1 - k
<1>1. /\ frames \in Seq(Images) /\ Len(frames) \in Nat /\ Len(frames) <= FrameDepth
      /\ FrameDepth \in Nat \ {0} /\ since \in Nat /\ InOrder
  BY ChainAssumption, AgeCapNat DEF ChainInv
<1>2. /\ frames' \in Seq(Images) /\ Len(frames') = n
      /\ \A i \in 1 .. n : frames'[i] = IF i = n THEN image ELSE frames[i + k]
  <2>1. CASE Len(frames) < FrameDepth
    <3>1. frames' = Append(frames, image)
      BY <2>1 DEF Publish
    <3> QED
      BY <1>1, <2>1, <3>1
  <2>2. CASE ~(Len(frames) < FrameDepth)
    <3>1. frames' = Append(Tail(frames), image) /\ frames # <<>>
      BY <1>1, <2>2 DEF Publish
    <3>2. /\ Tail(frames) \in Seq(Images) /\ Len(Tail(frames)) = Len(frames) - 1
          /\ \A i \in 1 .. Len(frames) - 1 : Tail(frames)[i] = frames[i + 1]
      BY <1>1, <3>1
    <3> DEFINE t == Tail(frames)
    <3>3. n = Len(frames) /\ k = 1
      BY <1>1, <2>2
    <3> HIDE DEF t, n, k
    <3>4. /\ Append(t, image) \in Seq(Images) /\ Len(Append(t, image)) = Len(t) + 1
          /\ \A i \in 1 .. Len(t) : Append(t, image)[i] = t[i]
          /\ Append(t, image)[Len(t) + 1] = image
      BY <1>1, <3>2 DEF t
    <3>5. frames' = Append(t, image)
      BY <3>1 DEF t
    <3>6. Len(t) = n - 1 /\ \A i \in 1 .. n - 1 : t[i] = frames[i + k]
      BY <3>2, <3>3 DEF t
    <3>7. n \in Nat
      BY <1>1, <3>3
    <3> QED
      BY <3>4, <3>5, <3>6, <3>7
  <2> QED
    BY <2>1, <2>2
<1>3. n \in Nat /\ n <= FrameDepth /\ k \in {0, 1}
  BY <1>1
<1>4. \A i \in 1 .. n : i = n \/ i + k \in 1 .. Len(frames)
  BY <1>1, <1>3
<1>5. \A i \in 1 .. Len(frames) : frames[i].age \in Nat
  <2>1. \A i \in 1 .. Len(frames) : frames[i] \in Images
    BY <1>1
  <2> QED
    BY <2>1, TrackAssumption DEF Images
<1> HIDE DEF n, k
<1>6. \A i \in 1 .. n : frames'[i].age <= since
  BY <1>1, <1>2, <1>4 DEF InOrder
<1>7. ASSUME NEW i \in 1 .. n, NEW j \in 1 .. n, i < j
      PROVE  frames'[j].age <= frames'[i].age
  <2>1. i # n /\ i + k \in 1 .. Len(frames) /\ frames'[i] = frames[i + k]
    BY <1>2, <1>3, <1>4, <1>7
  <2>2. CASE j = n
    BY <1>2, <1>5, <2>1, <2>2
  <2>3. CASE j # n
    <3>1. j + k \in 1 .. Len(frames) /\ frames'[j] = frames[j + k] /\ i + k < j + k
      BY <1>2, <1>3, <1>4, <1>7, <2>3
    <3> QED
      BY <1>1, <2>1, <3>1 DEF InOrder
  <2> QED
    BY <2>2, <2>3
<1>8. DOMAIN frames' = 1 .. n
  BY <1>2
<1> QED
  BY <1>2, <1>3, <1>6, <1>7, <1>8 DEF InOrder

\* When the first image is gone, searched or lost, the others are still in
\* order, and younger than it.
LEMMA TailStep ==
  ASSUME ChainInv, frames # <<>>, frames' = Tail(frames),
         since' = since \/ since' = Head(frames).age
  PROVE  /\ frames' \in Seq(Images) /\ Len(frames') <= FrameDepth /\ InOrder'
         /\ Head(frames) \in Images
<1>1. /\ frames \in Seq(Images) /\ Len(frames) \in Nat \ {0} /\ Len(frames) <= FrameDepth
      /\ FrameDepth \in Nat \ {0} /\ InOrder
  BY ChainAssumption DEF ChainInv
<1>2. /\ frames' \in Seq(Images) /\ Len(frames') = Len(frames) - 1
      /\ \A i \in 1 .. Len(frames) - 1 : frames'[i] = frames[i + 1]
      /\ Head(frames) = frames[1] /\ Head(frames) \in Images
  BY <1>1
<1>3. DOMAIN frames' = 1 .. Len(frames) - 1 /\ DOMAIN frames = 1 .. Len(frames)
  BY <1>1, <1>2
<1>4. \A i \in DOMAIN frames' : frames'[i].age <= since'
  BY <1>1, <1>2, <1>3 DEF InOrder
<1>5. \A i, j \in DOMAIN frames' : i < j => frames'[j].age <= frames'[i].age
  BY <1>1, <1>2, <1>3 DEF InOrder
<1> QED
  BY <1>1, <1>2, <1>4, <1>5 DEF InOrder

\* The images grow older together.
LEMMA AgeStep ==
  ASSUME ChainInv, Elapse
  PROVE  frames' \in Seq(Images) /\ Len(frames') <= FrameDepth /\ InOrder'
<1>1. /\ frames \in Seq(Images) /\ Len(frames) \in Nat /\ Len(frames) <= FrameDepth
      /\ DOMAIN frames = 1 .. Len(frames) /\ InOrder /\ since \in 0 .. AgeCap
  BY DEF ChainInv
<1>2. \A i \in 1 .. Len(frames) : frames[i].age < FrameAge /\ frames[i] \in Images
  BY <1>1 DEF Elapse
<1>3. frames' = [i \in 1 .. Len(frames) |-> [frames[i] EXCEPT !.age = @ + 1]]
  BY <1>1 DEF Elapse
<1>4. \A i \in 1 .. Len(frames) :
        frames'[i] \in Images /\ frames'[i].age = frames[i].age + 1 /\ frames[i].age \in Nat
  BY <1>2, <1>3, TrackAssumption DEF Images
<1>5. frames' \in Seq(Images) /\ Len(frames') = Len(frames) /\ DOMAIN frames' = 1 .. Len(frames)
  <2> DEFINE n == Len(frames)
             e(i) == [frames[i] EXCEPT !.age = @ + 1]
  <2>1. \A i \in 1 .. n : e(i) \in Images
    BY <1>3, <1>4
  <2> HIDE DEF e
  <2>2. [i \in 1 .. n |-> e(i)] \in Seq(Images) /\ Len([i \in 1 .. n |-> e(i)]) = n
    BY <1>1, <2>1
  <2> QED
    BY <1>3, <2>2 DEF e
<1>6. \A i \in 1 .. Len(frames) : frames'[i].age <= since'
  <2>1. \A i \in 1 .. Len(frames) : frames[i].age <= since
    BY <1>1 DEF InOrder
  <2>2. since' = (IF since < AgeCap THEN since + 1 ELSE since)
    BY DEF Elapse, Older
  <2>3. FrameAge <= AgeCap /\ FrameAge \in Nat /\ AgeCap \in Nat
    BY AgeCapNat, TrackAssumption
  <2> QED
    BY <1>1, <1>2, <1>4, <2>1, <2>2, <2>3
<1>7. \A i, j \in 1 .. Len(frames) : i < j => frames'[j].age <= frames'[i].age
  <2>1. \A i, j \in 1 .. Len(frames) : i < j => frames[j].age <= frames[i].age
    BY <1>1 DEF InOrder
  <2> SUFFICES ASSUME NEW i \in 1 .. Len(frames), NEW j \in 1 .. Len(frames), i < j
               PROVE  frames'[j].age <= frames'[i].age
    OBVIOUS
  <2>2. frames[j].age <= frames[i].age
    BY <2>1
  <2>3. /\ frames'[i].age = frames[i].age + 1 /\ frames[i].age \in Nat
        /\ frames'[j].age = frames[j].age + 1 /\ frames[j].age \in Nat
    BY <1>4
  <2> QED
    BY <2>2, <2>3
<1> QED
  BY <1>1, <1>5, <1>6, <1>7 DEF InOrder
-----------------------------------------------------------------------------
(* The chain.                                                              *)

\* The mode changes as ModeIsEarned says, and what it is counted by stays
\* within the time that has passed.
LEMMA SearchMode ==
  ASSUME ChainInv, NEW found \in BOOLEAN, NEW foundPre \in BOOLEAN,
         OnImage(found, foundPre), TrackInv'
  PROVE  /\ FsmTypeOK' /\ since' \in 0 .. AgeCap /\ entered' \in 0 .. AgeCap
         /\ TimeIsSpent' /\ FreshTarget' /\ ModeNeedsJump'
         /\ mode' # mode /\ cur'.jumped =>
              /\ mode' - mode \in {-1, 1}
              /\ entered - since' > TransferTime
<1> DEFINE late == Head(frames).age
           dt == Dt(late)
<1>1. late \in 0 .. FrameAge /\ dt \in 0 .. since - late
  BY DtSpent DEF OnImage
<1>2. /\ since' = late
      /\ entered' = (IF mode' # mode \/ ~cur'.jumped THEN late ELSE entered)
      /\ IF cur'.inited THEN \E rate \in Rates : FsmUpdate(rate, cur'.jumped, dt)
         ELSE UNCHANGED fsm
  BY DEF OnImage
<1>3. Shown(cur', late) \/ AsMissed(cur', cur)
  BY <1>1, SearchTracks, CurrentShows DEF ChainInv
<1> HIDE DEF late, dt
<1>4. /\ late \in Nat /\ late <= FrameAge /\ dt \in Nat /\ dt <= since - late
      /\ since \in Nat /\ since <= entered /\ entered \in Nat /\ entered <= AgeCap
      /\ AgeCap \in Nat /\ FrameAge \in Nat /\ TransferTime \in Nat
      /\ TransferTime + FrameAge < AgeCap
      /\ mode \in Int /\ overflow \in Int
      /\ -TransferTime <= overflow /\ overflow <= TransferTime
      /\ entered < AgeCap => -(entered - since) <= overflow /\ overflow <= entered - since
  BY <1>1, AgeCapNat, TrackAssumption, FsmAssumption, ChainAssumption
  DEF ChainInv, TimeIsSpent, FsmTypeOK, Modes, Single, Center
<1>5. cur'.jumped \in BOOLEAN /\ cur'.inited \in BOOLEAN /\ cur.inited \in BOOLEAN
  BY DEF ChainInv, TrackInv, TypedSlot, Slots
<1>6. CASE ~cur'.inited
  <2>1. /\ ~cur.inited /\ ~cur'.jumped /\ mode = Single /\ overflow = 0
        /\ mode' = mode /\ overflow' = overflow
    BY <1>2, <1>3, <1>5, <1>6 DEF Shown, AsMissed, ChainInv, FreshTarget, fsm
  <2>2. since' = late /\ entered' = late
    BY <1>2, <2>1
  <2>3. TimeIsSpent'
    BY <1>4, <2>1, <2>2 DEF TimeIsSpent
  <2> QED
    BY <1>4, <2>1, <2>2, <2>3 DEF ChainInv, FsmTypeOK, FreshTarget, ModeNeedsJump
<1>7. CASE cur'.inited
  <2>1. PICK rate \in Rates : FsmUpdate(rate, cur'.jumped, dt)
    BY <1>2, <1>7
  <2>2. /\ FsmTypeOK'
        /\ \/ ~cur'.jumped /\ mode' = Single /\ overflow' = 0
           \/ /\ cur'.jumped /\ overflow' = 0 /\ mode' - mode \in {-1, 1}
              /\ overflow + dt > TransferTime \/ -overflow + dt > TransferTime
           \/ /\ cur'.jumped /\ mode' = mode
              /\ overflow' \in {overflow + dt, overflow - dt, 0}
    <3> DEFINE jumped == cur'.jumped
    <3>1. FsmTypeOK /\ jumped \in BOOLEAN /\ dt \in Nat /\ FsmUpdate(rate, jumped, dt)
      BY <1>4, <1>5, <2>1 DEF ChainInv
    <3> HIDE DEF jumped
    <3>2. /\ FsmTypeOK'
          /\ \/ ~jumped /\ mode' = Single /\ overflow' = 0
             \/ /\ jumped /\ overflow' = 0 /\ mode' - mode \in {-1, 1}
                /\ overflow + dt > TransferTime \/ -overflow + dt > TransferTime
             \/ /\ jumped /\ mode' = mode
                /\ overflow' \in {overflow + dt, overflow - dt, 0}
      BY <3>1, UpdateStep
    <3> QED
      BY <3>2 DEF jumped
  <2>3. mode' \in Int
    BY <2>2 DEF FsmTypeOK, Modes, Single, Center
  <2>4. CASE ~cur'.jumped
    <3>1. since' = late /\ entered' = late /\ mode' = Single /\ overflow' = 0
      BY <1>2, <2>2, <2>4
    <3>2. TimeIsSpent'
      BY <1>4, <3>1 DEF TimeIsSpent
    <3> QED
      BY <1>4, <1>7, <2>2, <2>4, <3>1, <3>2 DEF FreshTarget, ModeNeedsJump
  <2>5. CASE cur'.jumped /\ mode' # mode
    <3>1. /\ since' = late /\ entered' = late /\ overflow' = 0
          /\ mode' - mode \in {-1, 1}
          /\ overflow + dt > TransferTime \/ -overflow + dt > TransferTime
      BY <1>2, <2>2, <2>5
    <3>2. TimeIsSpent'
      BY <1>4, <3>1 DEF TimeIsSpent
    <3>3. entered - late > TransferTime
      BY <1>4, <3>1
    <3> QED
      BY <1>4, <1>7, <2>2, <2>5, <3>1, <3>2, <3>3 DEF FreshTarget, ModeNeedsJump
  <2>6. CASE cur'.jumped /\ mode' = mode
    <3>1. /\ since' = late /\ entered' = entered
          /\ overflow' \in {overflow + dt, overflow - dt, 0}
      <4>1. mode' - mode \notin {-1, 1}
        BY <1>4, <2>6
      <4> QED
        BY <1>2, <2>2, <2>6, <4>1
    <3>2. TimeIsSpent'
      BY <1>4, <3>1 DEF TimeIsSpent
    <3> QED
      BY <1>4, <1>7, <2>2, <2>6, <3>1, <3>2 DEF FreshTarget, ModeNeedsJump
  <2> QED
    BY <2>4, <2>5, <2>6
<1> QED
  BY <1>5, <1>6, <1>7

\* Every step keeps the invariant.
LEMMA ChainStep ==
  ASSUME ChainInv, [Next]_vars
  PROVE  ChainInv'
<1>1. TrackInv'
  BY TrackerStep, TrackStep DEF ChainInv
<1>2. CASE Capture
  <2>1. /\ CameraTypeOK' /\ (capturing' => fails' <= MaxFails)
        /\ Image \in Images /\ Image.age = 0
    BY <1>2, CameraAssumption, TrackAssumption
    DEF Capture, Grab, ChainInv, CameraTypeOK, Image, Images
  <2>2. /\ UNCHANGED <<cur, pre, mode, overflow, since, entered>> /\ Publish(Image)
    BY <1>2 DEF Capture, slots, fsm
  <2>3. frames' \in Seq(Images) /\ Len(frames') <= FrameDepth /\ InOrder'
    BY <2>1, <2>2, PublishStep
  <2> QED
    BY <1>1, <2>1, <2>2, <2>3 DEF ChainInv, FsmTypeOK, TimeIsSpent, FreshTarget, ModeNeedsJump
<1>3. CASE CaptureFails
  <2>1. CameraTypeOK' /\ (capturing' => fails' <= MaxFails)
    <3>1. /\ fails \in Nat /\ fails <= MaxFails /\ MaxFails \in Nat
          /\ fails' = fails + 1 /\ sized' = sized /\ sized \in BOOLEAN
      BY <1>3, CameraAssumption DEF CaptureFails, GrabFails, ChainInv, CameraTypeOK
    <3>2. capturing' \in BOOLEAN /\ (capturing' => fails' <= MaxFails)
      <4>1. capturing' = (fails' <= MaxFails)
        BY <1>3 DEF CaptureFails, GrabFails
      <4>2. CASE fails' <= MaxFails
        BY <4>1, <4>2, Zenon
      <4>3. CASE ~(fails' <= MaxFails)
        <5>1. (fails' <= MaxFails) = FALSE
          BY <4>3, SMT
        <5>2. capturing' = FALSE
          BY <4>1, <5>1, Zenon
        <5> QED
          BY <5>2
      <4> QED
        BY <4>2, <4>3
    <3>3. fails' \in 0 .. MaxFails + 1
      BY <3>1
    <3> QED
      BY <3>1, <3>2, <3>3 DEF CameraTypeOK
  <2>2. UNCHANGED <<cur, pre, mode, overflow, frames, since, entered>>
    BY <1>3 DEF CaptureFails, slots, fsm
  <2> QED
    BY <1>1, <2>1, <2>2
    DEF ChainInv, FsmTypeOK, InOrder, TimeIsSpent, FreshTarget, ModeNeedsJump
<1>4. CASE Lose
  <2>1. /\ frames # <<>> /\ frames' = Tail(frames)
        /\ UNCHANGED <<cur, pre, mode, overflow, capturing, fails, sized, since, entered>>
    BY <1>4 DEF Lose, slots, fsm, camera
  <2>2. frames' \in Seq(Images) /\ Len(frames') <= FrameDepth /\ InOrder'
    BY <2>1, TailStep
  <2> QED
    BY <1>1, <2>1, <2>2
    DEF ChainInv, FsmTypeOK, CameraTypeOK, TimeIsSpent, FreshTarget, ModeNeedsJump
<1>5. ASSUME NEW found \in BOOLEAN, NEW foundPre \in BOOLEAN, OnImage(found, foundPre)
      PROVE  ChainInv'
  <2>1. /\ frames # <<>> /\ frames' = Tail(frames) /\ since' = Head(frames).age
        /\ UNCHANGED <<capturing, fails, sized>>
    BY <1>5 DEF OnImage, camera
  <2>2. frames' \in Seq(Images) /\ Len(frames') <= FrameDepth /\ InOrder'
    BY <2>1, TailStep
  <2>3. /\ FsmTypeOK' /\ since' \in 0 .. AgeCap /\ entered' \in 0 .. AgeCap
        /\ TimeIsSpent' /\ FreshTarget' /\ ModeNeedsJump'
    BY <1>1, <1>5, SearchMode
  <2>4. CameraTypeOK' /\ (capturing' => fails' <= MaxFails)
    BY <2>1 DEF ChainInv, CameraTypeOK
  <2> QED
    BY <1>1, <2>2, <2>3, <2>4 DEF ChainInv
<1>6. CASE Elapse
  <2>1. /\ UNCHANGED <<mode, overflow, capturing, fails, sized>> /\ TrackElapse
        /\ since' = Older(since) /\ entered' = Older(entered)
    BY <1>6 DEF Elapse, fsm, camera
  <2>2. frames' \in Seq(Images) /\ Len(frames') <= FrameDepth /\ InOrder'
    BY <1>6, AgeStep
  <2>3. since \in 0 .. AgeCap /\ entered \in 0 .. AgeCap /\ AgeCap \in Nat /\ TimeIsSpent
    BY AgeCapNat DEF ChainInv
  <2>4. since' \in 0 .. AgeCap /\ entered' \in 0 .. AgeCap
    BY <2>1, <2>3 DEF Older
  <2>5. TimeIsSpent'
    BY <2>1, <2>3 DEF Older, TimeIsSpent
  <2>6. cur'.inited = cur.inited /\ cur'.jumped = cur.jumped
    BY <2>1 DEF TrackElapse, ChainInv, TrackInv, TypedSlot, Slots
  <2> QED
    BY <1>1, <2>1, <2>2, <2>4, <2>5, <2>6
    DEF ChainInv, FsmTypeOK, CameraTypeOK, FreshTarget, ModeNeedsJump
<1>7. CASE UNCHANGED vars
  BY <1>1, <1>7 DEF vars, ChainInv, FsmTypeOK, CameraTypeOK, InOrder, TimeIsSpent,
                    FreshTarget, ModeNeedsJump
<1> QED
  BY <1>2, <1>3, <1>4, <1>5, <1>6, <1>7 DEF Next, Search

THEOREM ChainInvariant == Spec => []ChainInv
<1>1. Init => ChainInv
  <2> SUFFICES ASSUME Init PROVE ChainInv
    OBVIOUS
  <2>1. TrackInv
    BY NoTargetTyped DEF Init, TrackInit, TrackInv, OutpostGuarded, Held
  <2>2. FsmTypeOK /\ CameraTypeOK /\ (capturing => fails <= MaxFails)
    <3>1. mode = 0 /\ overflow = 0 /\ TransferTime \in Nat
      BY FsmAssumption DEF Init, FsmInit, Single
    <3>2. capturing = TRUE /\ fails = 0 /\ sized = FALSE /\ MaxFails \in Nat
      BY CameraAssumption DEF Init, CameraInit
    <3>3. FsmTypeOK
      BY <3>1 DEF FsmTypeOK, Modes, Single, Center
    <3>4. fails \in 0 .. MaxFails + 1 /\ fails <= MaxFails
      BY <3>2
    <3>5. CameraTypeOK
      BY <3>2, <3>4, Zenon DEF CameraTypeOK
    <3> QED
      BY <3>3, <3>4, <3>5
  <2>3. frames = <<>> /\ since = AgeCap /\ entered = AgeCap /\ AgeCap \in Nat
    BY AgeCapNat DEF Init
  <2>4. frames \in Seq(Images) /\ Len(frames) <= FrameDepth /\ InOrder
    BY <2>3, ChainAssumption DEF InOrder
  <2>5. FreshTarget /\ ModeNeedsJump
    BY DEF Init, TrackInit, FsmInit, NoTarget, FreshTarget, ModeNeedsJump
  <2> QED
    BY <2>1, <2>2, <2>3, <2>4, <2>5 DEF ChainInv, TimeIsSpent
<1> QED
  BY <1>1, ChainStep, PTL DEF Spec

\* Every variable of the chain keeps its type, and so do both buffers.
THEOREM ChainTypeCorrect == Spec => []TypeOK
<1>1. ChainInv => TrackTypeOK
  BY DEF ChainInv, TrackInv, TrackTypeOK, TypedSlot
<1>2. ChainInv => \A i \in DOMAIN frames : frames[i] \in [age : 0 .. FrameAge, blank : BOOLEAN]
  <2> SUFFICES ASSUME frames \in Seq(Images), NEW i \in DOMAIN frames
               PROVE  frames[i] \in Images
    BY DEF ChainInv, Images
  <2> QED
    OBVIOUS
<1>3. ChainInv => TypeOK
  BY <1>1, <1>2 DEF ChainInv, TypeOK
<1> QED
  BY <1>3, ChainInvariant, PTL

\* Only a target seen to turn is aimed at as a whole.
THEOREM ChainModeNeedsJump == Spec => []ModeNeedsJump
<1>1. ChainInv => ModeNeedsJump
  BY DEF ChainInv
<1> QED
  BY <1>1, ChainInvariant, PTL

\* A mode changes by one step, after more than transfer_time in the one before.
THEOREM ChainModeIsEarned == Spec => ModeIsEarned
<1> DEFINE Earns == mode' # mode /\ cur'.jumped =>
                      /\ mode' - mode \in {-1, 1}
                      /\ entered - since' > TransferTime
<1>1. ChainInv /\ [Next]_vars => [Earns]_vars
  <2> SUFFICES ASSUME ChainInv, Next, mode' # mode PROVE Earns
    BY DEF vars
  <2>1. PICK found \in BOOLEAN, foundPre \in BOOLEAN : OnImage(found, foundPre)
    BY DEF Next, Search, Capture, CaptureFails, Lose, Elapse, fsm
  <2>2. TrackInv'
    BY ChainStep DEF ChainInv
  <2> QED
    BY <2>1, <2>2, SearchMode
<1> QED
  BY <1>1, ChainInvariant, PTL DEF Spec, ModeIsEarned

\* In the chain the tracker is ArmorTrack's.
THEOREM ChainTracks == Spec => TrackSpec
<1>1. Init => TrackInit
  BY DEF Init
<1>2. ChainInv /\ [Next]_vars => [TrackNext]_slots
  BY TrackerStep
<1> QED
  BY <1>1, <1>2, ChainInvariant, PTL DEF Spec, TrackSpec

\* So every lock in the chain is earned.
THEOREM ChainLockIsEarned == Spec => []LockIsEarned
BY ChainTracks, TrackLockIsEarned, PTL

\* So an outpost seen lately keeps the lock.
THEOREM ChainOutpostKept == Spec => OutpostKept
BY ChainTracks, TrackOutpostKept, PTL
-----------------------------------------------------------------------------
(* What the solver assumes of the tracker.                                 *)

\* Of an age the solver tells apart what is below the lost time.
SeenAge(age) == IF age < LostTime THEN age ELSE LostTime
SeenTarget == [inited |-> cur.inited, tracking |-> Held(cur), age |-> SeenAge(cur.age)]

\* Two targets that differ in nothing but tracking.
LEMMA TrackingSet ==
  ASSUME NEW r, NEW s, NEW i, NEW a, NEW f, NEW g,
         r = [inited |-> i, tracking |-> f, age |-> a],
         s = [inited |-> i, tracking |-> g, age |-> a]
  PROVE  s = [r EXCEPT !.tracking = g]
OBVIOUS

\* A searched image starts or updates the solver's track, leaves it, or ends it.
LEMMA SearchRefines ==
  ASSUME ChainInv, NEW found \in BOOLEAN, NEW foundPre \in BOOLEAN,
         OnImage(found, foundPre), TrackInv'
  PROVE  \/ \E tracking \in BOOLEAN, late \in 0 .. FrameAge :
              SeenTarget' = [inited |-> TRUE, tracking |-> tracking, age |-> SeenAge(late)]
         \/ SeenTarget.inited /\ SeenTarget' = [SeenTarget EXCEPT !.tracking = FALSE]
         \/ UNCHANGED SeenTarget
<1> DEFINE late == Head(frames).age
<1>1. late \in 0 .. FrameAge
  BY DtSpent DEF OnImage
<1>2. Shown(cur', late) \/ AsMissed(cur', cur)
  BY <1>1, SearchTracks, CurrentShows DEF ChainInv
<1>3. Held(cur) \in BOOLEAN /\ Held(cur') \in BOOLEAN
  BY DEF Held
<1> HIDE DEF late
<1>4. CASE Shown(cur', late)
  <2>1. SeenTarget' = [inited |-> TRUE, tracking |-> Held(cur'), age |-> SeenAge(late)]
    BY <1>4 DEF Shown, SeenTarget
  <2> QED
    BY <1>1, <1>3, <2>1
<1>5. CASE AsMissed(cur', cur) /\ (Held(cur') <=> Held(cur))
  BY <1>3, <1>5 DEF AsMissed, SeenTarget
<1>6. CASE AsMissed(cur', cur) /\ ~(Held(cur') <=> Held(cur))
  <2>1. Held(cur) = TRUE /\ Held(cur') = FALSE
    BY <1>3, <1>6 DEF AsMissed
  <2>2. cur.inited = TRUE
    BY <2>1 DEF ChainInv, TrackInv, TypedSlot, Slots, Held
  <2>3. /\ SeenTarget = [inited |-> TRUE, tracking |-> TRUE, age |-> SeenAge(cur.age)]
        /\ SeenTarget' = [inited |-> TRUE, tracking |-> FALSE, age |-> SeenAge(cur.age)]
    BY <1>6, <2>1, <2>2 DEF AsMissed, SeenTarget
  <2>4. SeenTarget.inited
    BY <2>3
  <2>5. SeenTarget' = [SeenTarget EXCEPT !.tracking = FALSE]
    <3>1. PICK no : no = FALSE
      OBVIOUS
    <3>2. PICK yes : yes = TRUE
      OBVIOUS
    <3>3. /\ SeenTarget = [inited |-> yes, tracking |-> yes, age |-> SeenAge(cur.age)]
          /\ SeenTarget' = [inited |-> yes, tracking |-> no, age |-> SeenAge(cur.age)]
      BY <2>3, <3>1, <3>2
    <3>4. SeenTarget' = [SeenTarget EXCEPT !.tracking = no]
      BY <3>3, TrackingSet
    <3> QED
      BY <3>1, <3>4
  <2> QED
    BY <2>4, <2>5
<1> QED
  BY <1>2, <1>4, <1>5, <1>6

\* The lapse of time only ages it.
LEMMA ElapseRefines ==
  ASSUME ChainInv, Elapse
  PROVE  SeenTarget' = [SeenTarget EXCEPT !.age = IF @ < LostTime THEN @ + 1 ELSE LostTime]
<1>1. /\ cur \in Slots /\ cur.age \in 0 .. AgeCap
      /\ cur' = [cur EXCEPT !.age = Older(@)]
  BY DEF ChainInv, TrackInv, TypedSlot, Slots, Elapse, TrackElapse
<1>2. /\ cur'.inited = cur.inited /\ cur'.state = cur.state /\ cur'.age = Older(cur.age)
  BY <1>1 DEF Slots
<1>3. Held(cur') = Held(cur)
  BY <1>2 DEF Held
<1>4. AgeCap \in Nat /\ LostTime \in Nat /\ LostTime < AgeCap
  BY TrackAssumption DEF AgeCap
<1>5. SeenAge(cur'.age) = IF SeenAge(cur.age) < LostTime THEN SeenAge(cur.age) + 1 ELSE LostTime
  BY <1>1, <1>2, <1>4 DEF SeenAge, Older
<1> QED
  BY <1>2, <1>3, <1>5 DEF SeenTarget

\* The chain keeps the promise on which AimControl is built.
THEOREM ChainImplementsTrackSource == Spec => ImplementsTrackSource
<1>0. SeenTarget = [inited |-> cur.inited, tracking |-> Held(cur),
                    age |-> IF cur.age < LostTime THEN cur.age ELSE LostTime]
  BY DEF SeenTarget, SeenAge
<1>1. Init => SeenTarget = Source!NoTrack
  <2> SUFFICES ASSUME Init PROVE SeenTarget = Source!NoTrack
    OBVIOUS
  <2>1. cur = NoTarget /\ LostTime < AgeCap /\ LostTime \in Nat /\ AgeCap \in Nat
    BY TrackAssumption DEF Init, TrackInit, AgeCap
  <2>2. /\ cur.inited = FALSE /\ Held(cur) = FALSE /\ SeenAge(cur.age) = LostTime
    BY <2>1 DEF NoTarget, Held, SeenAge
  <2> QED
    BY <2>2 DEF SeenTarget, Source!NoTrack
<1>2. ChainInv /\ ChainInv' /\ [Next]_vars =>
        Source!Track \/ Source!TrackAges \/ UNCHANGED SeenTarget
  <2> SUFFICES ASSUME ChainInv, ChainInv', [Next]_vars
               PROVE  Source!Track \/ Source!TrackAges \/ UNCHANGED SeenTarget
    OBVIOUS
  <2>1. ASSUME NEW found \in BOOLEAN, NEW foundPre \in BOOLEAN, OnImage(found, foundPre)
        PROVE  Source!Track
    <3>1. TrackInv'
      BY DEF ChainInv
    <3> QED
      BY <1>0, <2>1, <3>1, SearchRefines DEF Source!Track, Source!Capped, SeenAge, SeenTarget
  <2>2. CASE Elapse
    BY <1>0, <2>2, ElapseRefines DEF Source!TrackAges, Source!Aged, SeenAge, SeenTarget
  <2>3. CASE Capture \/ CaptureFails \/ Lose \/ UNCHANGED vars
    BY <2>3 DEF Capture, CaptureFails, Lose, vars, slots, SeenTarget
  <2> QED
    BY <2>1, <2>2, <2>3 DEF Next, Search
<1> QED
  BY <1>1, <1>2, ChainInvariant, PTL
  DEF Spec, ImplementsTrackSource, Source!SourceSpec, SeenTarget, SeenAge
=============================================================================
