------------------------------ MODULE AimLoop -------------------------------
(***************************************************************************)
(* AutoAimNode closed over its plant: one enemy plate that stands still, a *)
(* camera that keeps seeing it, and a gimbal that reaches every locked     *)
(* command it is sent.  The operator may release the self-aim key at any   *)
(* time (mode leaves 33).                                                  *)
(*                                                                         *)
(* The schedule is the kindest the node can get: a frame, then             *)
(* TicksPerFrame rounds of an uplink report, a solver tick and the         *)
(* gimbal's motion.  The wall timers of the code (2 ms, 5 ms) and a camera *)
(* above 4 frames per second give every step of it again and again.        *)
(***************************************************************************)
EXTENDS AimControl

CONSTANTS
  Bearings,       \* where the plate may stand
  TicksPerFrame   \* solver ticks between two camera frames

ASSUME LoopAssumption ==
  /\ Bearings \subseteq Poses /\ Bearings # {}
  /\ TicksPerFrame \in Nat \ {0}

VARIABLES
  bearing,  \* the plate
  gimbal,   \* the true gimbal pose
  key,      \* the operator holds the self-aim key
  phase,    \* whose turn it is
  ticks     \* solver ticks left before the next frame

loopVars == <<vars, bearing, gimbal, key, phase, ticks>>

LoopInit ==
  /\ Init
  /\ bearing \in Bearings
  /\ gimbal \in Feedback
  /\ key = TRUE
  /\ phase = "camera_info"
  /\ ticks = 0

Turns(from, to) == phase = from /\ phase' = to

CameraInfo ==
  /\ Turns("camera_info", "frame")
  /\ OnCameraInfo
  /\ UNCHANGED <<bearing, gimbal, key, ticks>>

Frame ==
  /\ Turns("frame", "uplink")
  /\ OnImage(SeePlate([a \in Axes |-> Turn(a, bearing[a] - gimbal[a])]))
  /\ ticks' = TicksPerFrame
  /\ UNCHANGED <<bearing, gimbal, key>>

Uplink ==
  /\ Turns("uplink", "solve")
  /\ OnVision(key, gimbal)
  /\ UNCHANGED <<bearing, gimbal, key, ticks>>

Solve ==
  /\ Turns("solve", "move")
  /\ SolverTick
  /\ ticks' = ticks - 1
  /\ UNCHANGED <<bearing, gimbal, key>>

\* The board closes its loop on wrap(cmd - fb) while locked and keeps its pose
\* otherwise.
Move ==
  /\ Turns("move", IF ticks = 0 THEN "frame" ELSE "uplink")
  /\ gimbal' = IF out.lock = Locked
               THEN [a \in Axes |-> Wrapped(a, out.pose[a])]
               ELSE gimbal
  /\ UNCHANGED <<vars, bearing, key, ticks>>

Release ==
  /\ key
  /\ key' = FALSE
  /\ UNCHANGED <<vars, bearing, gimbal, phase, ticks>>

LoopStep == CameraInfo \/ Frame \/ Uplink \/ Solve \/ Move

LoopSpec ==
  /\ LoopInit /\ [][LoopStep \/ Release]_loopVars
  /\ WF_loopVars(LoopStep)
-----------------------------------------------------------------------------
OnTarget(a) == Abs(Turn(a, bearing[a] - gimbal[a])) <= Deadband[a] + IntTerm

\* Direct mode follows the plate: while the key is held the gimbal comes to
\* within the deadband and the integral term of the plate on both axes, and
\* stays there.
Converges == <>[](~key \/ \A a \in Axes : OnTarget(a))

\* Releasing the key gives the gimbal back to the operator, whatever the
\* pursuit was doing: the command stream ends up unlocked for good.
ReleaseUnlocks == ~key ~> [](out.lock = Unlocked /\ out.fire = 0)
=============================================================================
