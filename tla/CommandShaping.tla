--------------------------- MODULE CommandShaping ---------------------------
(***************************************************************************)
(* The arithmetic every command of AutoAimNode::solver_tick goes through   *)
(* before it is published: exponential smoothing, the rate and range       *)
(* limits about the measured gimbal pose, and the deadband.                *)
(*                                                                         *)
(* A pose is a function from Axes to integers, on a grid the constants     *)
(* fix (HalfTurn grid units are 180 degrees).  The code works in doubles:  *)
(* the only rounding here is that of the smoothing and integral gains,     *)
(* toward zero.  Only the yaw axis is circular.                            *)
(*                                                                         *)
(* A definition whose comment starts with "Mutated" is a plausible slip in *)
(* the definition that follows it; PROJECT.json names the property that    *)
(* catches it.  Nothing else refers to it.                                 *)
(***************************************************************************)
EXTENDS Integers

CONSTANTS
  HalfTurn,   \* 180 degrees
  Alpha,      \* cmd_smooth_alpha is 1 / Alpha
  SlewStep,   \* cmd_slew_deg_per_s * 0.005: the step of one 5 ms tick
  MaxAngle,   \* cmd_yaw_max_deg, cmd_pitch_max_deg, by axis
  MaxDelta,   \* cmd_yaw_delta_max_deg, cmd_pitch_delta_max_deg, by axis
  Deadband,   \* cmd_yaw_deadband_deg, cmd_pitch_deadband_deg, by axis
  NaN         \* no pose yet: what std::nan("") stands for

Axes == {"yaw", "pitch"}

ASSUME ShapingAssumption ==
  /\ HalfTurn \in Nat \ {0}
  /\ Alpha \in Nat \ {0}
  /\ SlewStep \in Nat \ {0}
  /\ MaxAngle \in [Axes -> Nat]
  /\ MaxDelta \in [Axes -> Nat]
  /\ Deadband \in [Axes -> Nat]
  /\ NaN \notin [Axes -> Int]

Abs(x) == IF x < 0 THEN -x ELSE x

\* Mutated: the bound is forgotten.
Unclamped(x, a) == x

\* std::max(-a, std::min(a, x))
Clamp(x, a) == IF x > a THEN a ELSE IF x < -a THEN -a ELSE x

\* A gain of 1 / b applied on the grid.
Quot(a, b) == IF a >= 0 THEN a \div b ELSE -((-a) \div b)

\* std::remainder(d, 360.0): the representative of d nearest to zero; half a
\* turn away, the one that takes an even number of turns off.
Remainder(d) ==
  LET m == d % (2 * HalfTurn)
      turns == (d - m) \div (2 * HalfTurn)
  IN IF m > HalfTurn \/ (m = HalfTurn /\ turns % 2 = 1)
     THEN m - 2 * HalfTurn
     ELSE m

\* The difference of two angles of an axis.
Turn(a, d) == IF a = "yaw" THEN Remainder(d) ELSE d

\* Mutated: the filter runs on across the seam.
Unwrapped(a, x) == x

\* Back to one turn, by one turn at most.
Wrapped(a, x) ==
  IF a = "yaw" /\ x > HalfTurn THEN x - 2 * HalfTurn
  ELSE IF a = "yaw" /\ x < -HalfTurn THEN x + 2 * HalfTurn
  ELSE x

Smoothed(prev, cmd) ==
  IF prev = NaN
  THEN cmd
  ELSE [a \in Axes |-> Wrapped(a, prev[a] + Quot(Turn(a, cmd[a] - prev[a]), Alpha))]

\* Mutated: only the absolute range and the excursion are limited.
Unslewed(pose, fb) ==
  [a \in Axes |-> fb[a] + Clamp(Clamp(pose[a], MaxAngle[a]) - fb[a], MaxDelta[a])]

\* Mutated: the slew limit is taken as enough.
Unranged(pose, fb) ==
  [a \in Axes |-> fb[a] + Clamp(Clamp(pose[a] - fb[a], SlewStep), MaxDelta[a])]

\* The slew limit, then the absolute range, then the excursion limit, each
\* about the measured pose fb and in this order.  The slew difference is the
\* plain one, on the yaw axis too.
Limited(pose, fb) ==
  [a \in Axes |->
    LET slewed == fb[a] + Clamp(pose[a] - fb[a], SlewStep)
        ranged == Clamp(slewed, MaxAngle[a])
    IN fb[a] + Clamp(ranged - fb[a], MaxDelta[a])]

\* Mutated: a move of exactly one deadband is held back too.
Overheld(sent, pose) ==
  IF sent = NaN
  THEN pose
  ELSE [a \in Axes |-> IF Abs(Turn(a, pose[a] - sent[a])) <= Deadband[a]
                       THEN sent[a] ELSE pose[a]]

\* An axis that would move by less than its deadband repeats what was sent.
Deadbanded(sent, pose) ==
  IF sent = NaN
  THEN pose
  ELSE [a \in Axes |-> IF Abs(Turn(a, pose[a] - sent[a])) < Deadband[a]
                       THEN sent[a] ELSE pose[a]]
=============================================================================
