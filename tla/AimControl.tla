----------------------------- MODULE AimControl -----------------------------
(***************************************************************************)
(* rm_auto_aim::AutoAimNode: the node that turns camera frames and gimbal  *)
(* feedback into the command stream "Robot_ctrl_data".                     *)
(*                                                                         *)
(* Its callbacks run one at a time (all_nodes.launch.py loads it into a    *)
(* single-threaded component_container), in any order, so each callback is *)
(* one action.  Detection, tracking and ballistics (third/awakening) are   *)
(* external to it: what they return is an input, the tracker's as           *)
(* TrackSource describes it.                                               *)
(***************************************************************************)
EXTENDS CommandShaping, TrackSource

CONSTANTS
  Params,      \* the parameter records "ros2 param set" can bring about
  Feedback,    \* gimbal poses the uplink can report
  Errors,      \* camera errors (dx_deg, dy_deg) of a detected plate, by axis
  AimPoses,    \* poses very_aim can return
  Overshoot,   \* bound of Gain * error + Bias, and of very_aim beyond a half turn
  Gain,        \* direct_gain, direct_pitch_gain, by axis
  Bias,        \* direct_yaw_bias, direct_pitch_bias, by axis
  ZeroOffset,  \* 0 for yaw, pitch_zero_offset_deg for pitch
  IntMax,      \* bound of the integrators (8.0 in the code)
  KiDiv,       \* direct_ki is 1 / KiDiv
  StaleAge,    \* age from which an observation is stale (0.30 s)
  PlateHalf,   \* half the plate in pixels times R2D * direct_fire_scale, by axis
  Focal,       \* focal length in pixels
  WinMin, WinMax   \* bounds of the fire window (0.2 and 20 degrees)

ParamRecords == [enable : BOOLEAN, allowFire : BOOLEAN,
                 requireMode33 : BOOLEAN, direct : BOOLEAN]
Poses == [Axes -> Int]
ZeroPose == [a \in Axes |-> 0]

ASSUME AimAssumption ==
  /\ Params \subseteq ParamRecords /\ Params # {}
  /\ Feedback \subseteq Poses /\ Errors \subseteq Poses /\ AimPoses \subseteq Poses
  /\ Errors # {}
  /\ Gain \in Poses /\ Bias \in Poses /\ ZeroOffset \in Poses
  /\ IntMax \in Nat /\ KiDiv \in Nat \ {0}
  /\ StaleAge \in Nat \ {0}
  /\ PlateHalf \in [Axes -> Nat \ {0}] /\ Focal \in Nat \ {0}
  /\ WinMin \in Nat /\ WinMax \in Nat /\ WinMin <= WinMax

\* The integral term at its bound.
IntTerm == Quot(IntMax, KiDiv)

\* Where the camera and the ballistics point lies at most Overshoot beyond a
\* half turn, and the integral term is less than one.
ASSUME OvershootAssumption ==
  /\ Overshoot \in Nat
  /\ \A p \in Feedback \cup {ZeroPose}, e \in Errors :
       Abs(p["yaw"] + Gain["yaw"] * e["yaw"] + Bias["yaw"]) <= HalfTurn + Overshoot
  /\ \A p \in AimPoses : Abs(p["yaw"]) <= HalfTurn + Overshoot
  /\ IntTerm <= HalfTurn

Locked == 49
Unlocked == 50

VARIABLES
  param,       \* the node's parameters, read again by every callback
  camReady,    \* cam_ready_
  vision,      \* latest_vision_: whether mode is 33, and the gimbal pose
  direct,      \* direct_: the last plate seen, and its age
  prevF,       \* prev_fy_, prev_fp_: the smoothing filter
  integral,    \* int_y_, int_p_
  lastCmd,     \* last_cmd_
  lastDirect,  \* last_direct_ (its fire command is never replayed)
  engaged,     \* engaged_
  lastSent,    \* last_sent_yaw_, last_sent_pitch_
  out          \* the last message published on Robot_ctrl_data

inputs == <<param, camReady, vision, direct, target>>
solver == <<prevF, integral, lastCmd, lastDirect, engaged, lastSent, out>>
vars == <<inputs, solver>>

Init ==
  /\ param \in Params
  /\ camReady = FALSE
  /\ vision = [mode33 |-> FALSE, pose |-> ZeroPose]
  /\ direct = [valid |-> FALSE, err |-> ZeroPose, age |-> StaleAge]
  /\ target = NoTrack
  /\ prevF = NaN
  /\ integral = ZeroPose
  /\ lastCmd = [appear |-> FALSE, pose |-> ZeroPose, fire |-> FALSE]
  /\ lastDirect = [lock |-> 0, pose |-> ZeroPose]
  /\ engaged = FALSE
  /\ lastSent = NaN
  \* nothing is published yet; the board then acts on RobotCtrlData's defaults
  /\ out = [lock |-> Unlocked, pose |-> ZeroPose, fire |-> 0]
-----------------------------------------------------------------------------
(* The inputs.                                                             *)

SetParam(p) ==
  /\ param' = p
  /\ UNCHANGED <<camReady, vision, direct, target, solver>>

OnCameraInfo ==
  /\ camReady' = TRUE
  /\ UNCHANGED <<param, vision, direct, target, solver>>

OnVision(mode33, pose) ==
  /\ vision' = [mode33 |-> mode33, pose |-> pose]
  /\ UNCHANGED <<param, camReady, direct, target, solver>>

\* The frame shows no enemy plate: the observation is withdrawn, its error
\* and time stay.
LosePlate == direct' = [direct EXCEPT !.valid = FALSE]
SeePlate(err) == direct' = [valid |-> TRUE, err |-> err, age |-> 0]

\* A frame that was decoded and searched.  Frames refused before that
\* (encoding, detector exception) change nothing.
OnImage(observe) ==
  /\ camReady
  /\ observe
  /\ IF param.direct THEN UNCHANGED target ELSE Track
  /\ UNCHANGED <<param, camReady, vision, solver>>

\* Time passes; both ages stop where they no longer matter.
Elapse ==
  /\ direct.age < StaleAge \/ target.age < LostAge
  /\ direct' = [direct EXCEPT !.age = IF @ < StaleAge THEN @ + 1 ELSE @]
  /\ TrackAges
  /\ UNCHANGED <<param, camReady, vision, solver>>
-----------------------------------------------------------------------------
(* The solver.                                                             *)

\* Mutated: the mode of the last uplink frame is ignored.
EnabledInAnyMode == param.enable

Enabled == param.enable /\ (param.requireMode33 => vision.mode33)

\* Mutated: the age of the track is ignored.
TargetKnown == target.inited /\ target.tracking

\* t_ok: the track is initialised and ArmorTarget::check() holds.
TargetOk == target.inited /\ target.tracking /\ target.age < LostAge

Seen == Enabled /\ camReady /\ direct.valid
Fresh == direct.age < StaleAge

NoAim == [aimed |-> FALSE, pose |-> ZeroPose, fire |-> FALSE]

\* VeryAimer::very_aim, external: called for a live track only; an exception,
\* a NaN or appear = false all count as no aim.
AimResults ==
  {NoAim} \cup (IF Enabled /\ TargetOk
                THEN [aimed : {TRUE}, pose : AimPoses, fire : BOOLEAN]
                ELSE {})

\* What the very_aim stage leaves behind, in both modes.
FilterAfter(aim) == IF aim.aimed THEN Smoothed(prevF, aim.pose) ELSE prevF
CmdAfter(aim) ==
  IF aim.aimed
  THEN [appear |-> TRUE, pose |-> FilterAfter(aim), fire |-> aim.fire]
  ELSE lastCmd

\* Mutated: the deadband's reference survives an unlock.
PublishKeepingReference(lock, pose, fire) ==
  LET sent == IF lock = Locked
              THEN Deadbanded(lastSent, Limited(pose, vision.pose))
              ELSE lastSent
  IN /\ lastSent' = sent
     /\ out' = [lock |-> lock, fire |-> fire,
                pose |-> IF lock = Locked THEN sent ELSE pose]

\* Limits, deadband and publication, common to both modes.
Publish(lock, pose, fire) ==
  LET sent == IF lock = Locked
              THEN Deadbanded(lastSent, Limited(pose, vision.pose))
              ELSE NaN
  IN /\ lastSent' = sent
     /\ out' = [lock |-> lock, fire |-> fire,
                pose |-> IF lock = Locked THEN sent ELSE pose]

\* Mutated: being disabled does not end the engagement.
AwakeningTickStayingEngaged(aim) ==
  LET cmd == CmdAfter(aim)
      lock == Enabled /\ (engaged \/ aim.aimed) /\ cmd.appear
  IN /\ ~param.direct
     /\ prevF' = FilterAfter(aim)
     /\ lastCmd' = cmd
     /\ engaged' = (engaged \/ aim.aimed)
     /\ IF lock THEN Publish(Locked, cmd.pose, 0) ELSE Publish(Unlocked, ZeroPose, 0)
     /\ UNCHANGED <<integral, lastDirect>>

\* aim_mode "awakening": follow the track, or hold the last aimed pose.
AwakeningTick(aim) ==
  LET cmd == CmdAfter(aim)
      lock == Enabled /\ (engaged \/ aim.aimed) /\ cmd.appear
  IN /\ ~param.direct
     /\ prevF' = FilterAfter(aim)
     /\ lastCmd' = cmd
     /\ engaged' = (Enabled /\ (engaged \/ aim.aimed))
     /\ IF lock
        THEN Publish(Locked,
                     [a \in Axes |-> cmd.pose[a] + ZeroOffset[a]],
                     IF TargetOk /\ param.allowFire /\ cmd.fire THEN 1 ELSE 0)
        ELSE Publish(Unlocked, ZeroPose, 0)
     /\ UNCHANGED <<integral, lastDirect>>

\* |err| < max(WinMin, min(WinMax, half / divisor)), without the division.
InsideWindow(err, half, divisor) ==
  /\ Abs(err) < WinMax
  /\ Abs(err) < WinMin \/ Abs(err) * divisor < half

\* The fire window.  On the pitch axis the plate's half height is divided by
\* fy, where the inner declaration of fy (the commanded yaw) hides the focal
\* length of the same name.
InWindow(yaw) ==
  /\ InsideWindow(direct.err["yaw"], PlateHalf["yaw"], Focal)
  /\ InsideWindow(direct.err["pitch"], PlateHalf["pitch"], Abs(yaw))

\* aim_mode "direct", a fresh plate: servo on the pixel error.
DirectFollow(aim) ==
  LET goal == [a \in Axes |-> vision.pose[a] + Gain[a] * direct.err[a] + Bias[a]]
      eased == Smoothed(FilterAfter(aim), goal)
      int == [a \in Axes |-> Clamp(integral[a] + direct.err[a], IntMax)]
      pose == [a \in Axes |-> eased[a] + Quot(int[a], KiDiv)]
  IN /\ param.direct /\ Seen /\ Fresh
     /\ integral' = int
     /\ prevF' = pose
     /\ lastDirect' = [lock |-> Locked, pose |-> pose]
     /\ engaged' = TRUE
     /\ lastCmd' = CmdAfter(aim)
     /\ Publish(Locked, pose,
                IF param.allowFire /\ InWindow(pose["yaw"]) THEN 2 ELSE 0)

\* A stale plate: replay last_direct_ without fire.
DirectHold(aim) ==
  /\ param.direct /\ Seen /\ ~Fresh
  /\ engaged' = (lastDirect.lock = Locked)
  /\ prevF' = FilterAfter(aim)
  /\ lastCmd' = CmdAfter(aim)
  /\ Publish(lastDirect.lock, lastDirect.pose, 0)
  /\ UNCHANGED <<integral, lastDirect>>

\* Mutated: the integrators are not restarted.
DirectIdleWoundUp(aim) ==
  /\ param.direct /\ ~Seen
  /\ engaged' = FALSE
  /\ prevF' = FilterAfter(aim)
  /\ lastCmd' = CmdAfter(aim)
  /\ Publish(Unlocked, ZeroPose, 0)
  /\ UNCHANGED <<integral, lastDirect>>

\* No plate, no camera, or not enabled: unlock and restart the integrators.
DirectIdle(aim) ==
  /\ param.direct /\ ~Seen
  /\ integral' = ZeroPose
  /\ engaged' = FALSE
  /\ prevF' = FilterAfter(aim)
  /\ lastCmd' = CmdAfter(aim)
  /\ Publish(Unlocked, ZeroPose, 0)
  /\ UNCHANGED lastDirect

SolverTick ==
  /\ \E aim \in AimResults :
       AwakeningTick(aim) \/ DirectFollow(aim) \/ DirectHold(aim) \/ DirectIdle(aim)
  /\ UNCHANGED inputs

Next ==
  \/ \E p \in Params : SetParam(p)
  \/ OnCameraInfo
  \/ \E mode33 \in BOOLEAN, pose \in Feedback : OnVision(mode33, pose)
  \/ OnImage(LosePlate)
  \/ \E err \in Errors : OnImage(SeePlate(err))
  \/ Elapse
  \/ SolverTick

Spec == Init /\ [][Next]_vars
-----------------------------------------------------------------------------
(* Properties.                                                             *)

\* Every variable has its type; the ages and the integrators stay in their
\* bounds.
TypeOK ==
  /\ param \in ParamRecords
  /\ camReady \in BOOLEAN
  /\ vision \in [mode33 : BOOLEAN, pose : Poses]
  /\ direct \in [valid : BOOLEAN, err : Poses, age : 0 .. StaleAge]
  /\ target \in [inited : BOOLEAN, tracking : BOOLEAN, age : 0 .. LostAge]
  /\ prevF \in Poses \cup {NaN}
  /\ integral \in [Axes -> -IntMax .. IntMax]
  /\ lastCmd \in [appear : BOOLEAN, pose : Poses, fire : BOOLEAN]
  /\ lastDirect \in [lock : {0, Locked}, pose : Poses]
  /\ engaged \in BOOLEAN
  /\ lastSent \in Poses \cup {NaN}
  /\ out \in [lock : {0, Locked, Unlocked}, pose : Poses, fire : 0 .. 2]

\* No tick asks for fire unless the operator's gates are open in that tick
\* (auto_aim_enable, allow_fire, and mode 33 when required), the command is a
\* lock, and there is something to shoot at: a track that is still alive, or
\* a plate seen less than 0.30 s ago that is inside the yaw window.
FireIsPermitted ==
  [][SolverTick /\ out'.fire # 0 =>
       /\ param.enable /\ param.allowFire
       /\ param.requireMode33 => vision.mode33
       /\ out'.lock = Locked
       /\ IF param.direct
          THEN /\ camReady /\ direct.valid /\ direct.age < StaleAge
               /\ InsideWindow(direct.err["yaw"], PlateHalf["yaw"], Focal)
          ELSE target.inited /\ target.tracking /\ target.age < LostAge]_vars

\* A locked command stays near the measured pose on the circle: within one
\* slew step of it where the pose is in the commanded range, within the
\* excursion limit elsewhere, plus the deadband that may repeat an older
\* command.
ExcursionBounded ==
  [][SolverTick /\ out'.lock = Locked =>
       \A a \in Axes :
         LET limit == IF Abs(vision.pose[a]) <= MaxAngle[a]
                      THEN SlewStep ELSE MaxDelta[a]
         IN Abs(Turn(a, out'.pose[a] - vision.pose[a])) <= limit + Deadband[a]]_vars

\* Where the gimbal is in the commanded range, no new command leads out of it
\* and across the seam, where the plain slew difference would turn it the long
\* way round: the limits after the range limit do not undo it, and only the
\* deadband may repeat an axis of a command from before.
RangeKept ==
  [][SolverTick /\ out'.lock = Locked =>
       \A a \in Axes :
         Abs(vision.pose[a]) <= MaxAngle[a] =>
           Abs(out'.pose[a]) <= MaxAngle[a] \/ out'.pose[a] = out.pose[a]]_vars

\* The deadband compares with what the board really has: the reference is the
\* pose of the last published command, and exists exactly while it was a lock.
DeadbandReference ==
  /\ (lastSent # NaN) <=> (out.lock = Locked)
  /\ out.lock = Locked => lastSent = out.pose

\* The yaw filter never winds up past the half turn by more than the first
\* command's overshoot and the integral term, however long the aim crosses
\* the seam.
FilterBounded ==
  prevF # NaN => Abs(prevF["yaw"]) <= HalfTurn + Overshoot + IntTerm

\* A follow that comes after an unlocked direct tick starts from fresh
\* integrators: nothing wound up before the plate was lost moves the gimbal.
IntegratorRestarts ==
  [][\A aim \in AimResults :
       DirectFollow(aim) /\ out.lock = Unlocked =>
         integral' = [a \in Axes |-> Clamp(direct.err[a], IntMax)]]_vars

\* In aim_mode "awakening" the lock is taken only on a live track; without one
\* it can only be held.
LockStartsOnTrack ==
  [][SolverTick /\ ~param.direct /\ out.lock # Locked /\ out'.lock = Locked =>
       TargetOk]_vars

\* RobotCtrl.msg: target_lock is 49 or 50.
LockValueIsKnown == out.lock \in {Locked, Unlocked}

\* RobotCtrl.msg: fire is decided by the hit window.  A plate whose pitch
\* error is outside the half height of the plate is not fired at.
FireWithinPlate ==
  [][SolverTick /\ out'.fire = 2 =>
       InsideWindow(direct.err["pitch"], PlateHalf["pitch"], Focal)]_vars
=============================================================================
