---------------------------- MODULE VisionChain -----------------------------
(***************************************************************************)
(* From the camera to the target: HikCamera publishes image_raw,           *)
(* AutoAimNode::on_image (aim_mode "awakening") searches each image, gives *)
(* the plates to the tracker and what it returns to the mode controller.   *)
(*                                                                         *)
(* What AutoAimNode keeps as target_ is the current buffer as the last     *)
(* image left it, once that was initialised; and that is all AimControl    *)
(* assumes of it (TrackSource).                                            *)
(***************************************************************************)
EXTENDS ArmorTrack, AutoAimFsm, HikCamera, Sequences

CONSTANT FrameDepth  \* how many images the topic keeps (5)

\* Ages are told apart beyond transfer_time.
ASSUME ChainAssumption ==
  FrameDepth \in Nat \ {0} /\ TransferTime + FrameAge < AgeCap

VARIABLES
  frames,   \* image_raw: the images not yet taken, with their age
  since,    \* the age of the last image that was searched
  entered   \* the age of the image that brought the mode, or kept it reset

vars == <<cur, pre, mode, overflow, capturing, fails, sized, frames, since, entered>>

Init ==
  /\ TrackInit /\ FsmInit /\ CameraInit
  /\ frames = <<>> /\ since = AgeCap /\ entered = AgeCap

\* Mutated: nothing is dropped.
PublishUnbounded(image) == frames' = Append(frames, image)

\* Sensor data QoS: the oldest image is dropped.
Publish(image) ==
  frames' = IF Len(frames) < FrameDepth THEN Append(frames, image)
            ELSE Append(Tail(frames), image)

Capture ==
  /\ Grab
  /\ Publish(Image)
  /\ UNCHANGED <<slots, fsm, since, entered>>

CaptureFails ==
  /\ GrabFails
  /\ UNCHANGED <<slots, fsm, frames, since, entered>>

\* An image is lost on the way (best effort), or on_image returns early: an
\* encoding it does not know, an exception of the detector.
Lose ==
  /\ frames # <<>>
  /\ frames' = Tail(frames)
  /\ UNCHANGED <<slots, fsm, camera, since, entered>>

\* Mutated: time is counted from the start, not from the last update.
DtSinceStart(late) == AgeCap - late

\* get_dt: the stamp of a target that is lost stays, so no time has passed.
Dt(late) == IF cur.state = "LOST" THEN 0 ELSE since - late

\* on_image.  In a blank image there is nothing to find.
OnImage(found, foundPre) ==
  /\ frames # <<>>
  /\ LET image == Head(frames)
         late == image.age
     IN /\ image.blank => ~found /\ ~foundPre
        /\ Track(late, found, foundPre)
        /\ IF cur'.inited
           THEN \E rate \in Rates : FsmUpdate(rate, cur'.jumped, Dt(late))
           ELSE UNCHANGED fsm
        /\ since' = late
        /\ entered' = IF mode' # mode \/ ~cur'.jumped THEN late ELSE entered
  /\ frames' = Tail(frames)
  /\ UNCHANGED camera

Search == \E found, foundPre \in BOOLEAN : OnImage(found, foundPre)

\* Time passes; no image waits longer than FrameAge.
Elapse ==
  /\ \A i \in DOMAIN frames : frames[i].age < FrameAge
  /\ TrackElapse
  /\ frames' = [i \in DOMAIN frames |-> [frames[i] EXCEPT !.age = @ + 1]]
  /\ since' = Older(since) /\ entered' = Older(entered)
  /\ UNCHANGED <<fsm, camera>>

Next == Capture \/ CaptureFails \/ Lose \/ Search \/ Elapse

Spec == Init /\ [][Next]_vars

\* The camera delivers while it runs, and not every image is lost.
FairSpec == Spec /\ WF_vars(Capture) /\ SF_vars(Search)
-----------------------------------------------------------------------------
(* Properties.                                                             *)

\* Every variable has its type, the buffers theirs.
TypeOK ==
  /\ TrackTypeOK /\ FsmTypeOK /\ CameraTypeOK
  /\ Len(frames) <= FrameDepth
  /\ \A i \in DOMAIN frames : frames[i] \in [age : 0 .. FrameAge, blank : BOOLEAN]
  /\ since \in 0 .. AgeCap /\ entered \in 0 .. AgeCap

\* A mode is earned: it changes by one step, and only after the target has
\* been in the mode it leaves, by the stamps of the images, for longer than
\* transfer_time; a target of which one plate was seen has none to leave.
ModeIsEarned ==
  [][mode' # mode /\ cur'.jumped =>
       /\ mode' - mode \in {-1, 1}
       /\ entered - since' > TransferTime]_vars

\* Only a target seen to turn is aimed at as a whole, whichever buffer it
\* comes from.
ModeNeedsJump == mode # Single => cur.jumped

\* A robot that stays in view is in the end locked and stays so, whatever the
\* two buffers, the topic and the camera went through before.
Acquires ==
  /\ []capturing
  /\ <>[][Search /\ ~Head(frames).blank => OnImage(TRUE, TRUE)]_vars
  => <>[]Held(cur)

\* What the solver reads.
Source == INSTANCE TrackSource
  WITH LostAge <- LostTime,
       target <- [inited |-> cur.inited,
                  tracking |-> Held(cur),
                  age |-> IF cur.age < LostTime THEN cur.age ELSE LostTime]

\* The tracker keeps its promise to the solver: a track only comes to life in
\* an image that shows it, and nothing but the lapse of time ages it.
ImplementsTrackSource == Source!SourceSpec
=============================================================================
