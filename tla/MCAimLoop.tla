----------------------------- MODULE MCAimLoop ------------------------------
(***************************************************************************)
(* Instances of AimLoop for TLC, in units of 0.05 degrees with a turn of   *)
(* only 6 degrees: the shipped slew step is 5 units, the shipped deadbands *)
(* are 5 (yaw) and 6 (pitch).                                              *)
(***************************************************************************)
EXTENDS AimLoop

Pose(y, p) == [a \in Axes |-> IF a = "yaw" THEN y ELSE p]

MCMaxAngle == Pose(40, 40)
MCMaxDelta == Pose(20, 20)
ShippedDeadband == Pose(5, 6)
YawDeadband == Pose(5, 5)
MCGain == Pose(1, 1)
MCBias == Pose(0, 0)
MCZeroOffset == Pose(0, 0)
MCPlateHalf == Pose(10, 10)
MCParams ==
  [enable : {TRUE}, allowFire : {TRUE}, requireMode33 : {TRUE}, direct : {TRUE}]
MCStart == {Pose(0, 0), Pose(-9, 3)}
MCBearings == {Pose(21, -14), Pose(-12, 30)}
NoPoses == {}
SomeError == {Pose(0, 0)}
=============================================================================
