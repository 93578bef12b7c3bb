----------------------------- MODULE HikCamera ------------------------------
(***************************************************************************)
(* HikCameraNode's capture thread.  The SDK (MvCameraControl) is external: *)
(* whether a frame can be had is a choice, and a conversion into a buffer  *)
(* that is too small fails; its status is not looked at.                   *)
(***************************************************************************)
EXTENDS Naturals

CONSTANT MaxFails  \* failures in a row that are borne (5)

ASSUME CameraAssumption == MaxFails \in Nat

VARIABLES
  capturing,  \* rclcpp::ok(), the condition of the thread's loop
  fails,      \* fail_conut_
  sized       \* image_msg_.data has the size of a frame

camera == <<capturing, fails, sized>>

CameraInit == capturing = TRUE /\ fails = 0 /\ sized = FALSE

\* The image that Grab publishes: the conversion came before the resize.
Image == [age |-> 0, blank |-> ~sized]

\* Mutated: the message is not resized.
GrabUnsized ==
  /\ capturing
  /\ fails' = 0
  /\ UNCHANGED <<capturing, sized>>

\* GetImageBuffer succeeds: convert, resize, publish.
Grab ==
  /\ capturing
  /\ fails' = 0 /\ sized' = TRUE
  /\ UNCHANGED capturing

\* It fails: grabbing is restarted, and too many failures shut ROS down.
GrabFails ==
  /\ capturing
  /\ fails' = fails + 1
  /\ capturing' = (fails' <= MaxFails)
  /\ UNCHANGED sized

CameraTypeOK ==
  /\ capturing \in BOOLEAN /\ sized \in BOOLEAN
  /\ fails \in 0 .. MaxFails + 1
=============================================================================
