---------------------------- MODULE MCAimControl ----------------------------
(***************************************************************************)
(* Instances of AimControl for TLC: the grid, the gates and the inputs.    *)
(***************************************************************************)
EXTENDS AimControl

Pose(y, p) == [a \in Axes |-> IF a = "yaw" THEN y ELSE p]

\* the commands are limited to 3 of a half turn of 4; one tick slews by 1
MCMaxAngle == Pose(3, 3)
MCMaxDelta == Pose(3, 3)
MCDeadband == Pose(2, 1)
MCGain == Pose(1, 1)
MCBias == Pose(0, 0)
MCZeroOffset == Pose(0, 1)
MCPlateHalf == Pose(2, 2)

\* Direct mode, fire gate open or not, mode 33 required.
DirectParams ==
  [enable : {TRUE}, allowFire : BOOLEAN, requireMode33 : {TRUE}, direct : {TRUE}]
DirectFeedback == {Pose(y, 0) : y \in {-4, 3, 4}}
DirectErrors == {Pose(1, 0), Pose(-2, 0), Pose(1, 3)}
NoPoses == {}

\* Both modes, switched at run time.
ModeParams ==
  [enable : {TRUE}, allowFire : {TRUE}, requireMode33 : {TRUE}, direct : BOOLEAN]
ModeFeedback == {Pose(0, 0)}
ModeErrors == {Pose(1, 0)}
ModeAims == {Pose(0, 0), Pose(1, 0)}
=============================================================================
