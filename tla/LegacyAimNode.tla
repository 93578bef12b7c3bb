---------------------------- MODULE LegacyAimNode ----------------------------
(***************************************************************************)
(* AutoAimNode of the previous generation (src/old) and its Backend.       *)
(*                                                                         *)
(* The node runs one callback at a time.  Its mock backend sees a target   *)
(* at a fixed pose in every image; its offline backend runs the tracker    *)
(* and the selector of TargetTracks and, when absolute_zero is configured, *)
(* aims at what they lock.  Detector and PnP are left out: what they find  *)
(* is chosen.  So are the fields that only go to the log.                  *)
(***************************************************************************)
EXTENDS TargetTracks

CONSTANTS
  Configs,      \* what a run is launched with: offline (or mock) backend,
                \* absolute zero configured, vehicle profile of the node and
                \* of RobotCtrlSub, pose of the target, another publisher
  NodeTimeout,  \* input_timeout_ms of AutoAimNode
  FrameTimes    \* the times between two image stamps

ASSUME NodeAssumption ==
  /\ Configs \subseteq 
       [offline : BOOLEAN, absolute : BOOLEAN, profile : BOOLEAN, subProfile : BOOLEAN,
        mock : Int, bypass : BOOLEAN]
  /\ NodeTimeout \in Nat \ {0} /\ FrameTimes \subseteq Nat \ {0}

VARIABLES
  param,     \* the configuration the node was launched with
  up,        \* the node runs
  info,      \* the last camera info is valid and of the images' dimensions
  latest,    \* latest_command_
  imageAge   \* time since last_image_time_; NodeTimeout when too long or never

node == <<tracks, stranded, param, up, info, latest, imageAge>>

\* AutoAimPipeline::safe_command.
SafeCommand == [pose |-> 0, lock |-> FALSE]

NodeInit ==
  /\ TracksInit /\ param \in Configs /\ up = TRUE /\ info = FALSE
  /\ latest = SafeCommand /\ imageAge = NodeTimeout

\* on_camera_info: an invalid one withdraws the one before.
OnCameraInfo ==
  /\ up /\ info' \in BOOLEAN
  /\ UNCHANGED <<tracks, stranded, param, up, latest, imageAge>>

\* on_image, its end: the image is fresh from now on, not from its stamp.
Processed(command) ==
  /\ latest' = command /\ imageAge' = 0 /\ UNCHANGED <<param, up, info>>

\* Backend::process with a stamp that is not positive, or after an exception
\* of the detector: the tracker is left alone.
FailClosed ==
  /\ up /\ info /\ Processed(SafeCommand) /\ UNCHANGED <<tracks, stranded>>

\* Backend::process of the mock backend.
MockImage ==
  /\ up /\ info /\ ~param.offline
  /\ Processed([pose |-> param.mock, lock |-> TRUE])
  /\ UNCHANGED <<tracks, stranded>>

\* SafeOfflineAimer::aim, AimerOutput::safe_command.
Aimed ==
  IF param.absolute /\ TargetLock' THEN [pose |-> param.mock, lock |-> TRUE] ELSE SafeCommand

\* Backend::process of the offline backend.
OfflineImage ==
  /\ up /\ info /\ param.offline
  /\ BadClock \/ \E obs \in Frames, dt \in FrameTimes : Frame(obs, dt)
  /\ Processed(Aimed)
-----------------------------------------------------------------------------
FreshImage == imageAge < NodeTimeout

\* Mutated: only a configured zero point makes the aimer's command a test.
TestOnlyUnconfigured == ~param.absolute

\* The aimer's test_only, which the node's constructor always sets.
TestOnly == TRUE

\* command_publishable.
Publishable == FreshImage /\ latest.lock /\ ~TestOnly

\* Mutated: the held command keeps its lock.
HoldLocked == latest

\* safe_hold_command.
HoldCommand == [latest EXCEPT !.lock = FALSE]

\* publish_control, up to the adapter: the command of this tick.
Command ==
  IF param.offline /\ ~Publishable THEN SafeCommand
  ELSE IF FreshImage THEN latest ELSE HoldCommand

\* The node's process ends; a new one knows nothing.
Die ==
  /\ up /\ up' = FALSE
  /\ tracks' = <<>> /\ stranded' = 0 /\ info' = FALSE
  /\ latest' = SafeCommand /\ imageAge' = NodeTimeout
  /\ UNCHANGED param

Restart == ~up /\ up' = TRUE /\ UNCHANGED <<tracks, stranded, param, info, latest, imageAge>>

NodeTypeOK ==
  /\ TracksTypeOK /\ stranded \in Nat
  /\ param \in Configs /\ up \in BOOLEAN /\ info \in BOOLEAN
  /\ latest \in {SafeCommand, [pose |-> param.mock, lock |-> TRUE]}
  /\ imageAge \in 0 .. NodeTimeout
=============================================================================
