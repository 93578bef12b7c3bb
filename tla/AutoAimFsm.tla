----------------------------- MODULE AutoAimFsm -----------------------------
(***************************************************************************)
(* AutoAimFsmController: the spin of the target decides whether a single   *)
(* plate, the plates of the car as they come round, a pair of them or the  *)
(* centre is aimed at; a mode is left when the spin has been beyond its    *)
(* threshold for longer than transfer_time.                                *)
(***************************************************************************)
EXTENDS Integers

CONSTANTS
  TransferTime,  \* transfer_time
  Rates,         \* spins the filter can estimate, as absolute values
  Up,            \* by mode, the spin above which the next one is due
  Down           \* by mode, the spin below which the one before is due

Single == 0   \* AIM_SINGLE_ARMOR
Center == 3   \* AIM_WHOLE_CAR_CENTER
Modes == Single .. Center

ASSUME FsmAssumption ==
  /\ TransferTime \in Nat
  /\ Rates \subseteq Nat
  /\ Up \in [Modes \ {Center} -> Nat] /\ Down \in [Modes \ {Single} -> Nat]
  /\ \A m \in Modes \ {Single, Center} : Down[m] <= Up[m]

VARIABLES
  mode,      \* fsm_state_
  overflow   \* overflow_time_, counted down towards the mode before

fsm == <<mode, overflow>>

FsmInit == mode = Single /\ overflow = 0

Above(rate) == mode # Center /\ rate > Up[mode]
Below(rate) == mode # Single /\ rate < Down[mode]

\* overflow_time_ after dt more at this spin.
Counted(rate, dt) ==
  IF Above(rate) THEN overflow + dt ELSE IF Below(rate) THEN overflow - dt ELSE 0

Reset == mode' = Single /\ overflow' = 0

\* transfer_to, one mode up or down.
Transfer(step, time) == mode' = mode + step /\ overflow' = 0

\* Mutated: a target that has shown one plate only keeps the mode.
UpdateAnyway(rate, jumped, dt) ==
  LET time == Counted(rate, dt)
  IN CASE time > TransferTime -> Transfer(1, time)
       [] time < -TransferTime -> Transfer(-1, time)
       [] OTHER -> overflow' = time /\ UNCHANGED mode

\* update.
FsmUpdate(rate, jumped, dt) ==
  LET time == Counted(rate, dt)
  IN CASE ~jumped -> Reset
       [] jumped /\ time > TransferTime -> Transfer(1, time)
       [] jumped /\ time < -TransferTime -> Transfer(-1, time)
       [] OTHER -> overflow' = time /\ UNCHANGED mode

FsmTypeOK == mode \in Modes /\ overflow \in -TransferTime .. TransferTime
=============================================================================
