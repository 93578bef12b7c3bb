-------------------------- MODULE AimControlProofs --------------------------
(***************************************************************************)
(* Proofs about AimControl for every grid, every set of inputs and every   *)
(* value of the gains and limits its assumptions allow.                    *)
(***************************************************************************)
EXTENDS AimControl, TLAPS

(***************************************************************************)
(* The arithmetic.                                                         *)
(***************************************************************************)

\* The division of a natural number is never larger than the number.
LEMMA DivBound ==
  ASSUME NEW x \in Nat, NEW b \in Nat \ {0}
  PROVE  x \div b \in 0 .. x
  OBVIOUS

\* A gain of at most one keeps the sign and does not enlarge.
LEMMA QuotBound ==
  ASSUME NEW x \in Int, NEW b \in Nat \ {0}
  PROVE  /\ Quot(x, b) \in Int
         /\ x >= 0 => 0 <= Quot(x, b) /\ Quot(x, b) <= x
         /\ x <= 0 => x <= Quot(x, b) /\ Quot(x, b) <= 0
  BY DivBound DEF Quot

\* A larger number has the larger quotient.
LEMMA QuotMonotone ==
  ASSUME NEW m \in Nat, NEW x \in Int, -m <= x, x <= m, NEW b \in Nat \ {0}
  PROVE  -Quot(m, b) <= Quot(x, b) /\ Quot(x, b) <= Quot(m, b)
  BY DivBound DEF Quot

\* std::remainder(d, 360.0) lies within a half turn.
LEMMA RemainderBound ==
  ASSUME NEW d \in Int
  PROVE  Remainder(d) \in Int /\ -HalfTurn <= Remainder(d) /\ Remainder(d) <= HalfTurn
  BY ShapingAssumption DEF Remainder

LEMMA TurnType ==
  ASSUME NEW a \in Axes, NEW d \in Int
  PROVE  Turn(a, d) \in Int
  BY RemainderBound DEF Turn

LEMMA SmoothedType ==
  ASSUME NEW prev \in Poses \cup {NaN}, NEW cmd \in Poses
  PROVE  Smoothed(prev, cmd) \in Poses
<1>1. CASE prev = NaN
  BY <1>1 DEF Smoothed
<1>2. CASE prev # NaN
  <2>1. prev \in Poses
    BY <1>2
  <2>2. ASSUME NEW a \in Axes
        PROVE  Wrapped(a, prev[a] + Quot(Turn(a, cmd[a] - prev[a]), Alpha)) \in Int
    <3>1. Turn(a, cmd[a] - prev[a]) \in Int
      BY <2>1, TurnType DEF Poses
    <3>2. Quot(Turn(a, cmd[a] - prev[a]), Alpha) \in Int
      BY <3>1, QuotBound, ShapingAssumption
    <3> QED
      BY <3>2, <2>1, ShapingAssumption DEF Wrapped, Poses
  <2> QED
    BY <1>2, <2>2 DEF Smoothed, Poses
<1> QED
  BY <1>1, <1>2

LEMMA LimitedType ==
  ASSUME NEW pose \in Poses, NEW fb \in Poses
  PROVE  Limited(pose, fb) \in Poses
  BY ShapingAssumption DEF Limited, Poses, Clamp

LEMMA DeadbandedType ==
  ASSUME NEW sent \in Poses \cup {NaN}, NEW pose \in Poses
  PROVE  Deadbanded(sent, pose) \in Poses
  BY DEF Deadbanded, Poses

\* One smoothing step brings the yaw filter back to where the camera or the
\* ballistics may point, wherever the integral term had pushed it.
LEMMA SmoothedBound ==
  ASSUME NEW prev \in Poses \cup {NaN}, NEW cmd \in Poses,
         Abs(cmd["yaw"]) <= HalfTurn + Overshoot,
         prev # NaN => Abs(prev["yaw"]) <= HalfTurn + Overshoot + IntTerm
  PROVE  Abs(Smoothed(prev, cmd)["yaw"]) <= HalfTurn + Overshoot
<1>1. CASE prev = NaN
  BY <1>1 DEF Smoothed
<1>2. CASE prev # NaN
  <2> DEFINE turn == Remainder(cmd["yaw"] - prev["yaw"])
             move == Quot(turn, Alpha)
  <2>1. prev["yaw"] \in Int /\ cmd["yaw"] \in Int
    BY <1>2 DEF Poses, Axes
  <2>2. turn \in Int /\ -HalfTurn <= turn /\ turn <= HalfTurn
    BY <2>1, RemainderBound
  <2> HIDE DEF turn
  <2>3. move \in Int /\ -HalfTurn <= move /\ move <= HalfTurn
    <3>1. /\ move \in Int
          /\ turn >= 0 => 0 <= move /\ move <= turn
          /\ turn <= 0 => turn <= move /\ move <= 0
      BY <2>2, QuotBound, ShapingAssumption
    <3> QED
      BY <3>1, <2>2, ShapingAssumption
  <2>4. Smoothed(prev, cmd)["yaw"] = Wrapped("yaw", prev["yaw"] + move)
    BY <1>2 DEF Smoothed, Turn, Axes, turn
  <2>5. IntTerm \in Int /\ IntTerm <= HalfTurn /\ Overshoot \in Nat
    BY QuotBound, AimAssumption, OvershootAssumption DEF IntTerm
  <2> HIDE DEF move
  <2> QED
    BY <1>2, <2>1, <2>3, <2>4, <2>5, ShapingAssumption DEF Wrapped, Abs
<1> QED
  BY <1>1, <1>2

(***************************************************************************)
(* Type correctness.                                                       *)
(***************************************************************************)

LEMMA ConstantTypes ==
  /\ ZeroPose \in Poses
  /\ NaN \notin Poses
  /\ \A p \in Poses \cup {ZeroPose} : p \in Poses
  BY ShapingAssumption DEF ZeroPose, Poses

LEMMA AimResultTypes ==
  ASSUME NEW aim \in AimResults
  PROVE  /\ aim.aimed \in BOOLEAN /\ aim.pose \in Poses /\ aim.fire \in BOOLEAN
         /\ aim.aimed => aim.pose \in AimPoses /\ Enabled /\ TargetOk
<1>1. CASE aim = NoAim
  BY <1>1, ConstantTypes DEF NoAim
<1>2. CASE aim # NoAim
  <2>1. Enabled /\ TargetOk /\ aim \in [aimed : {TRUE}, pose : AimPoses, fire : BOOLEAN]
    BY <1>2 DEF AimResults
  <2> QED
    BY <2>1, AimAssumption
<1> QED
  BY <1>1, <1>2

LEMMA FilterType ==
  ASSUME TypeOK, NEW aim \in AimResults
  PROVE  /\ FilterAfter(aim) \in Poses \cup {NaN}
         /\ CmdAfter(aim) \in [appear : BOOLEAN, pose : Poses, fire : BOOLEAN]
<1>1. CASE aim.aimed
  <2>1. FilterAfter(aim) \in Poses
    BY <1>1, AimResultTypes, SmoothedType DEF FilterAfter, TypeOK
  <2> QED
    BY <1>1, <2>1, AimResultTypes DEF CmdAfter
<1>2. CASE ~aim.aimed
  BY <1>2 DEF FilterAfter, CmdAfter, TypeOK
<1> QED
  BY <1>1, <1>2

\* What Publish leaves behind is well typed, whatever it is asked to publish.
LEMMA PublishType ==
  ASSUME TypeOK,
         NEW lock \in {0, Locked, Unlocked}, NEW pose \in Poses, NEW fire \in 0 .. 2,
         Publish(lock, pose, fire)
  PROVE  /\ lastSent' \in Poses \cup {NaN}
         /\ out' \in [lock : {0, Locked, Unlocked}, pose : Poses, fire : 0 .. 2]
<1>1. Deadbanded(lastSent, Limited(pose, vision.pose)) \in Poses
  BY LimitedType, DeadbandedType DEF TypeOK
<1> QED
  BY <1>1 DEF Publish

LEMMA TypeInit == Init => TypeOK
<1>1. ZeroPose \in Poses /\ ZeroPose \in [Axes -> -IntMax .. IntMax]
  BY ConstantTypes, AimAssumption DEF ZeroPose
<1>2. StaleAge \in 0 .. StaleAge /\ NoTrack \in [inited : BOOLEAN, tracking : BOOLEAN, age : 0 .. LostAge]
  BY AimAssumption, SourceAssumption DEF NoTrack
<1>3. Init => param \in ParamRecords
  BY AimAssumption DEF Init
<1> SUFFICES ASSUME Init PROVE TypeOK
  OBVIOUS
<1>4. /\ vision \in [mode33 : BOOLEAN, pose : Poses]
      /\ direct \in [valid : BOOLEAN, err : Poses, age : 0 .. StaleAge]
      /\ target \in [inited : BOOLEAN, tracking : BOOLEAN, age : 0 .. LostAge]
  BY <1>1, <1>2 DEF Init
<1>5. /\ lastCmd \in [appear : BOOLEAN, pose : Poses, fire : BOOLEAN]
      /\ lastDirect \in [lock : {0, Locked}, pose : Poses]
      /\ out \in [lock : {0, Locked, Unlocked}, pose : Poses, fire : 0 .. 2]
  BY <1>1 DEF Init
<1> QED
  BY <1>1, <1>3, <1>4, <1>5 DEF Init, TypeOK

LEMMA TypeAwakening ==
  ASSUME TypeOK, NEW aim \in AimResults, AwakeningTick(aim), UNCHANGED inputs
  PROVE  TypeOK'
<1> DEFINE cmd == CmdAfter(aim)
           posed == [a \in Axes |-> cmd.pose[a] + ZeroOffset[a]]
<1>1. cmd \in [appear : BOOLEAN, pose : Poses, fire : BOOLEAN]
  BY FilterType
<1> HIDE DEF cmd
<1>2. posed \in Poses
  BY <1>1, AimAssumption DEF Poses
<1>3. /\ lastSent' \in Poses \cup {NaN}
      /\ out' \in [lock : {0, Locked, Unlocked}, pose : Poses, fire : 0 .. 2]
  <2>1. \/ Publish(Unlocked, ZeroPose, 0)
        \/ Publish(Locked, posed, 0)
        \/ Publish(Locked, posed, 1)
    BY DEF AwakeningTick, cmd
  <2> QED
    BY <2>1, <1>2, PublishType, ConstantTypes
<1>4. prevF' \in Poses \cup {NaN} /\ lastCmd' \in [appear : BOOLEAN, pose : Poses, fire : BOOLEAN]
  BY FilterType DEF AwakeningTick
<1>5. engaged' \in BOOLEAN
  BY DEF AwakeningTick
<1> QED
  BY <1>3, <1>4, <1>5 DEF TypeOK, AwakeningTick, inputs

LEMMA FollowType ==
  ASSUME TypeOK, NEW aim \in AimResults, DirectFollow(aim)
  PROVE  prevF' \in Poses /\ integral' \in [Axes -> -IntMax .. IntMax]
<1> DEFINE goal == [a \in Axes |-> vision.pose[a] + Gain[a] * direct.err[a] + Bias[a]]
           eased == Smoothed(FilterAfter(aim), goal)
           int == [a \in Axes |-> Clamp(integral[a] + direct.err[a], IntMax)]
           pose == [a \in Axes |-> eased[a] + Quot(int[a], KiDiv)]
<1>1. goal \in Poses
  BY AimAssumption DEF TypeOK, Poses
<1>2. eased \in Poses
  BY <1>1, FilterType, SmoothedType
<1>3. int \in [Axes -> -IntMax .. IntMax]
  BY AimAssumption DEF TypeOK, Poses, Clamp
<1>4. integral' = int /\ prevF' = pose
  BY DEF DirectFollow
<1> HIDE DEF eased, int
<1>5. ASSUME NEW a \in Axes PROVE Quot(int[a], KiDiv) \in Int
  BY <1>3, QuotBound, AimAssumption
<1>6. pose \in Poses
  BY <1>2, <1>5 DEF Poses
<1> QED
  BY <1>3, <1>4, <1>6

LEMMA TypeFollow ==
  ASSUME TypeOK, NEW aim \in AimResults, DirectFollow(aim), UNCHANGED inputs
  PROVE  TypeOK'
<1>1. prevF' \in Poses /\ integral' \in [Axes -> -IntMax .. IntMax]
  BY FollowType
<1>2. /\ engaged' = TRUE
      /\ lastDirect' = [lock |-> Locked, pose |-> prevF']
      /\ lastCmd' = CmdAfter(aim)
      /\ Publish(Locked, prevF', 0) \/ Publish(Locked, prevF', 2)
  BY DEF DirectFollow
<1>3. /\ lastSent' \in Poses \cup {NaN}
      /\ out' \in [lock : {0, Locked, Unlocked}, pose : Poses, fire : 0 .. 2]
  BY <1>1, <1>2, PublishType
<1> QED
  BY <1>1, <1>2, <1>3, FilterType DEF TypeOK, inputs

LEMMA TypeHold ==
  ASSUME TypeOK, NEW aim \in AimResults, DirectHold(aim), UNCHANGED inputs
  PROVE  TypeOK'
<1>1. /\ lastSent' \in Poses \cup {NaN}
      /\ out' \in [lock : {0, Locked, Unlocked}, pose : Poses, fire : 0 .. 2]
  BY PublishType DEF DirectHold, TypeOK
<1> QED
  BY <1>1, FilterType DEF TypeOK, DirectHold, inputs

LEMMA TypeIdle ==
  ASSUME TypeOK, NEW aim \in AimResults, DirectIdle(aim), UNCHANGED inputs
  PROVE  TypeOK'
<1>1. /\ lastSent' \in Poses \cup {NaN}
      /\ out' \in [lock : {0, Locked, Unlocked}, pose : Poses, fire : 0 .. 2]
  BY PublishType, ConstantTypes DEF DirectIdle
<1>2. ZeroPose \in [Axes -> -IntMax .. IntMax]
  BY AimAssumption DEF ZeroPose
<1> QED
  BY <1>1, <1>2, FilterType DEF TypeOK, DirectIdle, inputs

LEMMA TrackType ==
  ASSUME TypeOK, Track \/ UNCHANGED target
  PROVE  target' \in [inited : BOOLEAN, tracking : BOOLEAN, age : 0 .. LostAge]
<1>1. CASE UNCHANGED target
  BY <1>1 DEF TypeOK
<1>2. CASE \E tracking \in BOOLEAN, late \in 0 .. FrameAge :
             target' = [inited |-> TRUE, tracking |-> tracking, age |-> Capped(late)]
  BY <1>2, SourceAssumption DEF Capped
<1>3. CASE target.inited /\ target' = [target EXCEPT !.tracking = FALSE]
  BY <1>3 DEF TypeOK
<1> QED
  BY <1>1, <1>2, <1>3 DEF Track

\* The inputs of every step but SolverTick leave the solver alone.
LEMMA TypeInputs ==
  ASSUME TypeOK, Next, ~SolverTick
  PROVE  TypeOK'
<1>1. ASSUME NEW p \in Params, SetParam(p) PROVE TypeOK'
  BY <1>1, AimAssumption DEF SetParam, TypeOK, solver
<1>2. CASE OnCameraInfo
  BY <1>2 DEF OnCameraInfo, TypeOK, solver
<1>3. ASSUME NEW mode33 \in BOOLEAN, NEW pose \in Feedback, OnVision(mode33, pose)
      PROVE  TypeOK'
  BY <1>3, AimAssumption DEF OnVision, TypeOK, solver
<1>4. CASE OnImage(LosePlate)
  <2>1. direct' \in [valid : BOOLEAN, err : Poses, age : 0 .. StaleAge]
    BY <1>4 DEF OnImage, LosePlate, TypeOK
  <2> QED
    BY <1>4, <2>1, TrackType DEF OnImage, TypeOK, solver
<1>5. ASSUME NEW err \in Errors, OnImage(SeePlate(err)) PROVE TypeOK'
  <2>1. direct' \in [valid : BOOLEAN, err : Poses, age : 0 .. StaleAge]
    BY <1>5, AimAssumption DEF OnImage, SeePlate
  <2> QED
    BY <1>5, <2>1, TrackType DEF OnImage, TypeOK, solver
<1>6. CASE Elapse
  BY <1>6, AimAssumption, SourceAssumption DEF Elapse, TrackAges, Aged, TypeOK, solver
<1> QED
  BY <1>1, <1>2, <1>3, <1>4, <1>5, <1>6 DEF Next

\* Every reachable state of AutoAimNode is well typed: the filter, the held
\* commands and the published message never take a value outside their range.
THEOREM TypeCorrect == Spec => []TypeOK
<1>1. Init => TypeOK
  BY TypeInit
<1>2. TypeOK /\ [Next]_vars => TypeOK'
  <2> SUFFICES ASSUME TypeOK, [Next]_vars PROVE TypeOK'
    OBVIOUS
  <2>1. CASE SolverTick
    <3>1. PICK aim \in AimResults :
            AwakeningTick(aim) \/ DirectFollow(aim) \/ DirectHold(aim) \/ DirectIdle(aim)
      BY <2>1 DEF SolverTick
    <3>2. UNCHANGED inputs
      BY <2>1 DEF SolverTick
    <3> QED
      BY <3>1, <3>2, TypeAwakening, TypeFollow, TypeHold, TypeIdle
  <2>2. CASE Next /\ ~SolverTick
    BY <2>2, TypeInputs
  <2>3. CASE UNCHANGED vars
    BY <2>3 DEF vars, inputs, solver, TypeOK
  <2> QED
    BY <2>1, <2>2, <2>3
<1> QED
  BY <1>1, <1>2, PTL DEF Spec

(***************************************************************************)
(* Steps.                                                                  *)
(***************************************************************************)

\* A step that is not a solver tick leaves everything the solver owns alone.
LEMMA InputStep ==
  ASSUME Next, ~SolverTick
  PROVE  UNCHANGED solver
  BY DEF Next, SetParam, OnCameraInfo, OnVision, OnImage, Elapse

\* Every tick, in every branch, publishes one well typed message.
LEMMA TickPublishes ==
  ASSUME TypeOK, SolverTick
  PROVE  \E lock \in {0, Locked, Unlocked}, pose \in Poses, fire \in 0 .. 2 :
           Publish(lock, pose, fire)
<1>1. PICK aim \in AimResults :
        AwakeningTick(aim) \/ DirectFollow(aim) \/ DirectHold(aim) \/ DirectIdle(aim)
  BY DEF SolverTick
<1>2. CASE AwakeningTick(aim)
  <2> DEFINE posed == [a \in Axes |-> CmdAfter(aim).pose[a] + ZeroOffset[a]]
  <2>1. posed \in Poses
    BY FilterType, AimAssumption DEF Poses
  <2>2. \/ Publish(Unlocked, ZeroPose, 0)
        \/ Publish(Locked, posed, 0)
        \/ Publish(Locked, posed, 1)
    BY <1>2 DEF AwakeningTick
  <2> QED
    BY <2>1, <2>2, ConstantTypes
<1>3. CASE DirectFollow(aim)
  <2>1. prevF' \in Poses
    BY <1>1, <1>3, FollowType
  <2>2. Publish(Locked, prevF', 0) \/ Publish(Locked, prevF', 2)
    BY <1>3 DEF DirectFollow
  <2> QED
    BY <2>1, <2>2
<1>4. CASE DirectHold(aim)
  BY <1>4 DEF DirectHold, TypeOK
<1>5. CASE DirectIdle(aim)
  BY <1>5, ConstantTypes DEF DirectIdle
<1> QED
  BY <1>1, <1>2, <1>3, <1>4, <1>5

(***************************************************************************)
(* The deadband's reference.                                               *)
(***************************************************************************)

\* Publication re-establishes the reference whatever it was before.
LEMMA PublishReference ==
  ASSUME TypeOK, NEW lock \in {0, Locked, Unlocked}, NEW pose \in Poses, NEW fire \in 0 .. 2,
         Publish(lock, pose, fire)
  PROVE  DeadbandReference'
<1>1. Deadbanded(lastSent, Limited(pose, vision.pose)) \in Poses
  BY LimitedType, DeadbandedType DEF TypeOK
<1> QED
  BY <1>1, ConstantTypes DEF Publish, DeadbandReference

\* What the deadband compares with is what the board was sent last: the
\* reference exists exactly while the last command was a lock, and equals it.
THEOREM ReferenceCorrect == Spec => []DeadbandReference
<1>1. Init => DeadbandReference
  BY DEF Init, DeadbandReference, Locked, Unlocked
<1>2. TypeOK /\ DeadbandReference /\ [Next]_vars => DeadbandReference'
  <2> SUFFICES ASSUME TypeOK, DeadbandReference, [Next]_vars
               PROVE  DeadbandReference'
    OBVIOUS
  <2>1. CASE SolverTick
    BY <2>1, TickPublishes, PublishReference
  <2>2. CASE Next /\ ~SolverTick
    BY <2>2, InputStep DEF solver, DeadbandReference
  <2>3. CASE UNCHANGED vars
    BY <2>3 DEF vars, solver, DeadbandReference
  <2> QED
    BY <2>1, <2>2, <2>3
<1> QED
  BY <1>1, <1>2, TypeCorrect, PTL DEF Spec

(***************************************************************************)
(* The yaw filter.                                                         *)
(***************************************************************************)

\* The strengthening: the filter is bounded, and whatever it may be fed next
\* (a goal about a reported pose, for a plate the camera saw) is bounded too.
FilterInv ==
  /\ vision.pose \in Feedback \cup {ZeroPose}
  /\ direct.valid => direct.err \in Errors
  /\ FilterBounded

\* The very_aim stage alone keeps the filter within its bound.
LEMMA FilterAfterBound ==
  ASSUME TypeOK, FilterInv, NEW aim \in AimResults
  PROVE  FilterAfter(aim) # NaN =>
           Abs(FilterAfter(aim)["yaw"]) <= HalfTurn + Overshoot + IntTerm
<1>1. IntTerm \in Int /\ 0 <= IntTerm
  BY QuotBound, AimAssumption DEF IntTerm
<1>2. CASE aim.aimed
  <2>1. Abs(aim.pose["yaw"]) <= HalfTurn + Overshoot
    BY <1>2, AimResultTypes, OvershootAssumption
  <2>2. aim.pose \in Poses
    BY AimResultTypes
  <2>3. Abs(Smoothed(prevF, aim.pose)["yaw"]) <= HalfTurn + Overshoot
    BY <2>1, <2>2, SmoothedBound DEF TypeOK, FilterInv, FilterBounded
  <2>4. Smoothed(prevF, aim.pose)["yaw"] \in Int
    BY <2>2, SmoothedType DEF TypeOK, Poses, Axes
  <2> QED
    BY <1>1, <1>2, <2>3, <2>4, ShapingAssumption, OvershootAssumption DEF FilterAfter, Abs
<1>3. CASE ~aim.aimed
  BY <1>3 DEF FilterAfter, FilterInv, FilterBounded
<1> QED
  BY <1>2, <1>3

LEMMA FilterTick ==
  ASSUME TypeOK, FilterInv, SolverTick
  PROVE  FilterBounded'
<1>1. PICK aim \in AimResults :
        AwakeningTick(aim) \/ DirectFollow(aim) \/ DirectHold(aim) \/ DirectIdle(aim)
  BY DEF SolverTick
<1>2. CASE AwakeningTick(aim) \/ DirectHold(aim) \/ DirectIdle(aim)
  <2>1. prevF' = FilterAfter(aim)
    BY <1>2 DEF AwakeningTick, DirectHold, DirectIdle
  <2> QED
    BY <2>1, FilterAfterBound DEF FilterBounded
<1>3. CASE DirectFollow(aim)
  <2> DEFINE goal == [a \in Axes |-> vision.pose[a] + Gain[a] * direct.err[a] + Bias[a]]
             eased == Smoothed(FilterAfter(aim), goal)
             int == [a \in Axes |-> Clamp(integral[a] + direct.err[a], IntMax)]
  <2>1. goal \in Poses
    BY AimAssumption DEF TypeOK, Poses
  <2>2. Abs(goal["yaw"]) <= HalfTurn + Overshoot
    <3>1. goal["yaw"] = vision.pose["yaw"] + Gain["yaw"] * direct.err["yaw"] + Bias["yaw"]
      BY DEF Axes
    <3>2. direct.err \in Errors /\ vision.pose \in Feedback \cup {ZeroPose}
      BY <1>3 DEF DirectFollow, Seen, FilterInv
    <3> QED
      BY <3>1, <3>2, OvershootAssumption
  <2> HIDE DEF goal
  <2>3. Abs(eased["yaw"]) <= HalfTurn + Overshoot
    BY <2>1, <2>2, FilterType, FilterAfterBound, SmoothedBound
  <2>4. eased["yaw"] \in Int
    BY <2>1, FilterType, SmoothedType DEF Poses, Axes
  <2>5. int["yaw"] \in Int /\ -IntMax <= int["yaw"] /\ int["yaw"] <= IntMax
    BY AimAssumption DEF TypeOK, Poses, Clamp, Axes
  <2>6. prevF'["yaw"] = eased["yaw"] + Quot(int["yaw"], KiDiv)
    BY <1>3 DEF DirectFollow, Axes, goal
  <2> HIDE DEF eased, int
  <2>7. /\ Quot(int["yaw"], KiDiv) \in Int /\ IntTerm \in Int
        /\ -IntTerm <= Quot(int["yaw"], KiDiv) /\ Quot(int["yaw"], KiDiv) <= IntTerm
    <3>1. KiDiv \in Nat \ {0} /\ IntMax \in Nat
      BY AimAssumption
    <3> QED
      BY <3>1, <2>5, QuotBound, QuotMonotone DEF IntTerm
  <2> QED
    BY <2>3, <2>4, <2>6, <2>7, ShapingAssumption, OvershootAssumption DEF FilterBounded, Abs
<1> QED
  BY <1>1, <1>2, <1>3

\* The smoothed yaw never leaves the half turn by more than the overshoot of
\* the first command and the integral term: crossing the seam again and again,
\* losing and regaining the plate or switching modes does not wind it up.
THEOREM FilterCorrect == Spec => []FilterBounded
<1>1. Init => FilterInv
  BY DEF Init, FilterInv, FilterBounded
<1>2. TypeOK /\ FilterInv /\ [Next]_vars => FilterInv'
  <2> SUFFICES ASSUME TypeOK, FilterInv, [Next]_vars PROVE FilterInv'
    OBVIOUS
  <2>1. CASE SolverTick
    BY <2>1, FilterTick DEF SolverTick, inputs, FilterInv
  <2>2. CASE Next /\ ~SolverTick
    <3>1. FilterBounded'
      BY <2>2, InputStep DEF solver, FilterInv, FilterBounded
    <3>2. vision'.pose \in Feedback \cup {ZeroPose}
      BY <2>2 DEF Next, SetParam, OnCameraInfo, OnVision, OnImage, Elapse, FilterInv
    <3>3. direct'.valid => direct'.err \in Errors
      <4>1. CASE OnImage(LosePlate)
        BY <4>1 DEF OnImage, LosePlate, TypeOK
      <4>2. CASE \E err \in Errors : OnImage(SeePlate(err))
        BY <4>2 DEF OnImage, SeePlate
      <4>3. CASE Elapse
        BY <4>3 DEF Elapse, FilterInv, TypeOK
      <4>4. CASE UNCHANGED direct
        BY <4>4 DEF FilterInv
      <4> QED
        BY <2>2, <4>1, <4>2, <4>3, <4>4 DEF Next, SetParam, OnCameraInfo, OnVision
    <3> QED
      BY <3>1, <3>2, <3>3 DEF FilterInv
  <2>3. CASE UNCHANGED vars
    BY <2>3 DEF vars, inputs, solver, FilterInv, FilterBounded
  <2> QED
    BY <2>1, <2>2, <2>3
<1>3. FilterInv => FilterBounded
  BY DEF FilterInv
<1> QED
  BY <1>1, <1>2, <1>3, TypeCorrect, PTL DEF Spec

(***************************************************************************)
(* The gates of the trigger.                                               *)
(***************************************************************************)

\* No branch of the solver asks for fire with a gate closed, without a lock,
\* on a lost track or on a stale or off-centre plate.
THEOREM FireCorrect == Spec => FireIsPermitted
<1> DEFINE Permitted ==
      /\ param.enable /\ param.allowFire
      /\ param.requireMode33 => vision.mode33
      /\ out'.lock = Locked
      /\ IF param.direct
         THEN /\ camReady /\ direct.valid /\ direct.age < StaleAge
              /\ InsideWindow(direct.err["yaw"], PlateHalf["yaw"], Focal)
         ELSE target.inited /\ target.tracking /\ target.age < LostAge
<1>1. ASSUME SolverTick, out'.fire # 0 PROVE Permitted
  <2>1. PICK aim \in AimResults :
          AwakeningTick(aim) \/ DirectFollow(aim) \/ DirectHold(aim) \/ DirectIdle(aim)
    BY <1>1 DEF SolverTick
  <2>2. CASE AwakeningTick(aim)
    <3> DEFINE posed == [a \in Axes |-> CmdAfter(aim).pose[a] + ZeroOffset[a]]
    <3>1. ~Publish(Unlocked, ZeroPose, 0) /\ ~Publish(Locked, posed, 0)
      BY <1>1 DEF Publish
    <3>2. Enabled /\ TargetOk /\ param.allowFire /\ Publish(Locked, posed, 1)
      BY <2>2, <3>1 DEF AwakeningTick
    <3>3. out'.lock = Locked
      BY <3>2 DEF Publish
    <3> QED
      BY <2>2, <3>2, <3>3 DEF AwakeningTick, Enabled, TargetOk
  <2>3. CASE DirectFollow(aim)
    <3>1. ~Publish(Locked, prevF', 0)
      BY <1>1 DEF Publish
    <3>2. param.allowFire /\ InWindow(prevF'["yaw"]) /\ Publish(Locked, prevF', 2)
      BY <2>3, <3>1 DEF DirectFollow
    <3>3. out'.lock = Locked
      BY <3>2 DEF Publish
    <3> QED
      BY <2>3, <3>2, <3>3 DEF DirectFollow, Seen, Fresh, Enabled, InWindow
  <2>4. CASE DirectHold(aim) \/ DirectIdle(aim)
    BY <1>1, <2>4 DEF DirectHold, DirectIdle, Publish
  <2> QED
    BY <2>1, <2>2, <2>3, <2>4
<1>2. [SolverTick /\ out'.fire # 0 => Permitted]_vars
  BY <1>1
<1> QED
  BY <1>2, PTL DEF FireIsPermitted

(***************************************************************************)
(* Taking the lock in aim_mode "awakening".                                *)
(***************************************************************************)

\* The strengthening: an engagement that has a command to hold is shown as a
\* lock, so that an unlocked node has nothing to hold, whichever mode it was
\* in when it unlocked.
LockInv == engaged /\ lastCmd.appear => out.lock = Locked

LEMMA LockInvTick ==
  ASSUME SolverTick
  PROVE  LockInv'
<1>1. PICK aim \in AimResults :
        AwakeningTick(aim) \/ DirectFollow(aim) \/ DirectHold(aim) \/ DirectIdle(aim)
  BY DEF SolverTick
<1>2. CASE AwakeningTick(aim)
  <2> DEFINE posed == [a \in Axes |-> CmdAfter(aim).pose[a] + ZeroOffset[a]]
  <2>1. /\ engaged' <=> Enabled /\ (engaged \/ aim.aimed)
        /\ lastCmd' = CmdAfter(aim)
    BY <1>2 DEF AwakeningTick
  <2>2. CASE Enabled /\ (engaged \/ aim.aimed) /\ CmdAfter(aim).appear
    <3>1. Publish(Locked, posed, 0) \/ Publish(Locked, posed, 1)
      BY <1>2, <2>2 DEF AwakeningTick
    <3> QED
      BY <3>1 DEF Publish, LockInv
  <2>3. CASE ~(Enabled /\ (engaged \/ aim.aimed) /\ CmdAfter(aim).appear)
    <3>1. ~(engaged' /\ lastCmd'.appear)
      BY <2>1, <2>3
    <3> QED
      BY <3>1 DEF LockInv
  <2> QED
    BY <2>2, <2>3
<1>3. CASE DirectFollow(aim)
  BY <1>3 DEF DirectFollow, Publish, LockInv
<1>4. CASE DirectHold(aim)
  BY <1>4 DEF DirectHold, Publish, LockInv
<1>5. CASE DirectIdle(aim)
  BY <1>5 DEF DirectIdle, LockInv
<1> QED
  BY <1>1, <1>2, <1>3, <1>4, <1>5

\* In aim_mode "awakening" a lock begins only on a live track, also when the
\* mode has just been switched.
THEOREM LockStartCorrect == Spec => LockStartsOnTrack
<1>1. Init => LockInv
  BY DEF Init, LockInv
<1>2. LockInv /\ [Next]_vars => LockInv'
  <2> SUFFICES ASSUME LockInv, [Next]_vars PROVE LockInv'
    OBVIOUS
  <2>1. CASE SolverTick
    BY <2>1, LockInvTick
  <2>2. CASE Next /\ ~SolverTick
    BY <2>2, InputStep DEF solver, LockInv
  <2>3. CASE UNCHANGED vars
    BY <2>3 DEF vars, solver, LockInv
  <2> QED
    BY <2>1, <2>2, <2>3
<1>3. LockInv =>
        [SolverTick /\ ~param.direct /\ out.lock # Locked /\ out'.lock = Locked => TargetOk]_vars
  <2> SUFFICES ASSUME LockInv, SolverTick, ~param.direct, out.lock # Locked, out'.lock = Locked
               PROVE  TargetOk
    OBVIOUS
  <2>1. PICK aim \in AimResults : AwakeningTick(aim)
    BY DEF SolverTick, DirectFollow, DirectHold, DirectIdle
  <2>2. (engaged \/ aim.aimed) /\ CmdAfter(aim).appear
    BY <2>1 DEF AwakeningTick, Publish, Locked, Unlocked
  <2>3. aim.aimed
    BY <2>2 DEF CmdAfter, LockInv
  <2> QED
    BY <2>3, AimResultTypes
<1> QED
  BY <1>1, <1>2, <1>3, PTL DEF Spec, LockStartsOnTrack

(***************************************************************************)
(* The integrators in direct mode.                                         *)
(***************************************************************************)

\* Where the node is never switched out of direct mode, a follow after an
\* unlock starts from zero.
THEOREM RestartCorrect ==
  ASSUME \A p \in Params : p.direct
  PROVE  Spec => IntegratorRestarts
<1> DEFINE Rested == /\ param.direct
                     /\ lastDirect.lock \in {0, Locked}
                     /\ out.lock = Unlocked => integral = ZeroPose
           Restart == \A aim \in AimResults :
                        DirectFollow(aim) /\ out.lock = Unlocked =>
                          integral' = [a \in Axes |-> Clamp(direct.err[a], IntMax)]
<1>1. Init => Rested
  BY DEF Init
<1>2. Rested /\ [Next]_vars => Rested'
  <2> SUFFICES ASSUME Rested, [Next]_vars PROVE Rested'
    OBVIOUS
  <2>1. CASE SolverTick
    <3>1. PICK aim \in AimResults :
            DirectFollow(aim) \/ DirectHold(aim) \/ DirectIdle(aim)
      BY <2>1 DEF SolverTick, AwakeningTick
    <3>2. param' = param
      BY <2>1 DEF SolverTick, inputs
    <3>3. CASE DirectFollow(aim)
      BY <3>2, <3>3 DEF DirectFollow, Publish, Locked, Unlocked
    <3>4. CASE DirectHold(aim)
      BY <3>2, <3>4 DEF DirectHold, Publish, Locked, Unlocked
    <3>5. CASE DirectIdle(aim)
      BY <3>2, <3>5 DEF DirectIdle
    <3> QED
      BY <3>1, <3>3, <3>4, <3>5
  <2>2. CASE Next /\ ~SolverTick
    <3>1. UNCHANGED <<lastDirect, out, integral>>
      BY <2>2, InputStep DEF solver
    <3>2. param'.direct
      BY <2>2 DEF Next, SetParam, OnCameraInfo, OnVision, OnImage, Elapse
    <3> QED
      BY <3>1, <3>2
  <2>3. CASE UNCHANGED vars
    BY <2>3 DEF vars, inputs, solver
  <2> QED
    BY <2>1, <2>2, <2>3
<1>3. TypeOK /\ Rested => [Restart]_vars
  <2> SUFFICES ASSUME TypeOK, Rested, NEW aim \in AimResults,
                      DirectFollow(aim), out.lock = Unlocked
               PROVE  integral' = [a \in Axes |-> Clamp(direct.err[a], IntMax)]
    OBVIOUS
  <2>1. integral' = [a \in Axes |-> Clamp(integral[a] + direct.err[a], IntMax)]
    BY DEF DirectFollow
  <2>2. \A a \in Axes : integral[a] + direct.err[a] = direct.err[a]
    BY DEF ZeroPose, TypeOK, Poses
  <2> QED
    BY <2>1, <2>2
<1> QED
  BY <1>1, <1>2, <1>3, TypeCorrect, PTL DEF Spec, IntegratorRestarts

(***************************************************************************)
(* The excursion of a locked command.                                      *)
(***************************************************************************)

\* Remainder takes a whole number of turns off.
LEMMA RemainderTurns ==
  ASSUME NEW d \in Int
  PROVE  \E k \in Int : Remainder(d) = d - (2 * HalfTurn) * k
<1> DEFINE turn == 2 * HalfTurn
           m == d % turn
<1>1. turn \in Nat \ {0}
  BY ShapingAssumption
<1>2. (d \div turn) \in Int /\ d = turn * (d \div turn) + m
  BY <1>1
<1>3. m - turn = d - turn * ((d \div turn) + 1)
  BY <1>1, <1>2
<1>4. m = d - turn * (d \div turn)
  BY <1>1, <1>2
<1>5. Remainder(d) = m \/ Remainder(d) = m - turn
  BY DEF Remainder
<1> QED
  BY <1>2, <1>3, <1>4, <1>5

\* A non-zero number of turns is at least one turn away.
LEMMA WholeTurns ==
  ASSUME NEW n \in Int, n # 0, NEW t \in Nat
  PROVE  t * n \in Int /\ (t * n >= t \/ t * n <= -t)
<1>1. CASE n >= 1
  BY <1>1
<1>2. CASE n <= -1
  BY <1>2
<1> QED
  BY <1>1, <1>2

\* Remainder is the representative nearest to zero.
LEMMA RemainderLeast ==
  ASSUME NEW c \in Int, NEW n \in Int
  PROVE  Abs(Remainder(c)) <= Abs(c + (2 * HalfTurn) * n)
<1> DEFINE turn == 2 * HalfTurn
<1>1. PICK k \in Int : Remainder(c) = c - turn * k
  BY RemainderTurns
<1>2. turn \in Nat /\ HalfTurn \in Nat
  BY ShapingAssumption
<1>3. c + turn * n = Remainder(c) + turn * (k + n)
  BY <1>1, <1>2
<1>4. CASE k + n = 0
  BY <1>1, <1>2, <1>3, <1>4 DEF Abs
<1>5. CASE k + n # 0
  <2> DEFINE w == turn * (k + n)
  <2>1. w \in Int /\ (w >= turn \/ w <= -turn)
    BY <1>2, <1>5, WholeTurns
  <2>2. c + turn * n = Remainder(c) + w
    BY <1>3
  <2>3. Remainder(c) \in Int /\ -HalfTurn <= Remainder(c) /\ Remainder(c) <= HalfTurn
    BY RemainderBound
  <2> HIDE DEF w
  <2>4. Abs(Remainder(c)) <= Abs(Remainder(c) + w)
    BY <1>2, <2>1, <2>3 DEF Abs
  <2> QED
    BY <2>2, <2>4
<1> QED
  BY <1>4, <1>5

\* Repeating an old command adds less to the excursion, on the circle, than
\* the distance the deadband compared.
LEMMA TurnTriangle ==
  ASSUME NEW a \in Axes, NEW x \in Int, NEW y \in Int, NEW z \in Int
  PROVE  Abs(Turn(a, x - z)) <= Abs(Turn(a, y - x)) + Abs(y - z)
<1>1. CASE a = "yaw"
  <2>1. PICK k \in Int : Remainder(y - x) = (y - x) - (2 * HalfTurn) * k
    BY RemainderTurns
  <2>2. Abs(Remainder(x - z)) <= Abs((x - z) + (2 * HalfTurn) * k)
    BY RemainderLeast
  <2> DEFINE w == (2 * HalfTurn) * k
             r == Remainder(y - x)
  <2>3. w \in Int /\ r \in Int /\ r = (y - x) - w
    BY <2>1, RemainderBound, ShapingAssumption
  <2> HIDE DEF w, r
  <2>4. Abs((x - z) + w) <= Abs(r) + Abs(y - z)
    BY <2>3 DEF Abs
  <2>5. Remainder(x - z) \in Int
    BY RemainderBound
  <2> QED
    BY <1>1, <2>2, <2>3, <2>4, <2>5 DEF Turn, w, r, Abs
<1>2. CASE a # "yaw"
  BY <1>2 DEF Turn, Abs
<1> QED
  BY <1>1, <1>2

LEMMA TurnShrinks ==
  ASSUME NEW a \in Axes, NEW d \in Int
  PROVE  Abs(Turn(a, d)) <= Abs(d)
<1>1. CASE a = "yaw"
  <2>1. Abs(Remainder(d)) <= Abs(d + (2 * HalfTurn) * 0)
    BY RemainderLeast
  <2> QED
    BY <1>1, <2>1, ShapingAssumption DEF Turn
<1>2. CASE a # "yaw"
  BY <1>2 DEF Turn, Abs
<1> QED
  BY <1>1, <1>2

\* How far the limits let a command be from the measured pose.
Excursion(a, fb) == IF Abs(fb[a]) <= MaxAngle[a] THEN SlewStep ELSE MaxDelta[a]

LEMMA LimitedBound ==
  ASSUME NEW pose \in Poses, NEW fb \in Poses, NEW a \in Axes
  PROVE  /\ Limited(pose, fb)[a] \in Int
         /\ Abs(Limited(pose, fb)[a] - fb[a]) <= Excursion(a, fb)
<1> DEFINE slewed == fb[a] + Clamp(pose[a] - fb[a], SlewStep)
           ranged == Clamp(slewed, MaxAngle[a])
<1>1. /\ pose[a] \in Int /\ fb[a] \in Int
      /\ SlewStep \in Nat /\ MaxAngle[a] \in Nat /\ MaxDelta[a] \in Nat
  BY ShapingAssumption DEF Poses
<1>2. slewed \in Int /\ Abs(slewed - fb[a]) <= SlewStep
  BY <1>1 DEF Clamp, Abs
<1>3. Limited(pose, fb)[a] = fb[a] + Clamp(ranged - fb[a], MaxDelta[a])
  BY DEF Limited
<1> HIDE DEF slewed
<1>4. ranged \in Int /\ (Abs(fb[a]) <= MaxAngle[a] => Abs(ranged - fb[a]) <= SlewStep)
  BY <1>1, <1>2 DEF Clamp, Abs
<1> HIDE DEF ranged
<1> QED
  BY <1>1, <1>3, <1>4 DEF Clamp, Abs, Excursion

LEMMA PublishExcursion ==
  ASSUME TypeOK, NEW pose \in Poses, NEW fire \in 0 .. 2,
         NEW lock \in {0, Locked, Unlocked}, Publish(lock, pose, fire),
         out'.lock = Locked, NEW a \in Axes
  PROVE  Abs(Turn(a, out'.pose[a] - vision.pose[a]))
           <= Excursion(a, vision.pose) + Deadband[a]
<1> DEFINE lim == Limited(pose, vision.pose)
<1>1. lim \in Poses /\ vision.pose \in Poses /\ lastSent \in Poses \cup {NaN}
  BY LimitedType DEF TypeOK
<1>2. out'.pose = Deadbanded(lastSent, lim)
  BY DEF Publish
<1>3. /\ lim[a] \in Int /\ vision.pose[a] \in Int
      /\ Abs(lim[a] - vision.pose[a]) <= Excursion(a, vision.pose)
  BY <1>1, LimitedBound DEF Poses
<1>4. Deadband[a] \in Nat /\ Excursion(a, vision.pose) \in Nat
  BY ShapingAssumption DEF Excursion
<1> HIDE DEF lim
<1>5. CASE out'.pose[a] = lim[a]
  <2>1. Abs(Turn(a, lim[a] - vision.pose[a])) <= Abs(lim[a] - vision.pose[a])
    BY <1>3, TurnShrinks
  <2>2. Abs(Turn(a, lim[a] - vision.pose[a])) \in Int
    BY <1>3, TurnType DEF Abs
  <2>3. Abs(lim[a] - vision.pose[a]) \in Int
    BY <1>3 DEF Abs
  <2> QED
    BY <1>3, <1>4, <1>5, <2>1, <2>2, <2>3
<1>6. CASE out'.pose[a] # lim[a]
  <2>1. /\ lastSent # NaN /\ out'.pose[a] = lastSent[a]
        /\ Abs(Turn(a, lim[a] - lastSent[a])) < Deadband[a]
    BY <1>1, <1>2, <1>6 DEF Deadbanded, Poses
  <2>2. lastSent[a] \in Int
    BY <1>1, <2>1 DEF Poses
  <2>3. Abs(Turn(a, lastSent[a] - vision.pose[a]))
          <= Abs(Turn(a, lim[a] - lastSent[a])) + Abs(lim[a] - vision.pose[a])
    BY <1>3, <2>2, TurnTriangle
  <2>4. /\ Abs(Turn(a, lastSent[a] - vision.pose[a])) \in Int
        /\ Abs(Turn(a, lim[a] - lastSent[a])) \in Int
        /\ Abs(lim[a] - vision.pose[a]) \in Int
    BY <1>3, <2>2, TurnType DEF Abs
  <2> QED
    BY <1>3, <1>4, <2>1, <2>3, <2>4
<1> QED
  BY <1>5, <1>6

\* Whatever the aim, the filter or an old command ask for, a locked command
\* stays within a slew step (an excursion limit, out of range) and a deadband
\* of the measured pose on the circle.
THEOREM ExcursionCorrect == Spec => ExcursionBounded
<1> DEFINE Near == SolverTick /\ out'.lock = Locked =>
                     \A a \in Axes :
                       LET limit == IF Abs(vision.pose[a]) <= MaxAngle[a]
                                    THEN SlewStep ELSE MaxDelta[a]
                       IN Abs(Turn(a, out'.pose[a] - vision.pose[a])) <= limit + Deadband[a]
<1>1. TypeOK => [Near]_vars
  <2> SUFFICES ASSUME TypeOK, SolverTick, out'.lock = Locked, NEW a \in Axes
               PROVE  Abs(Turn(a, out'.pose[a] - vision.pose[a]))
                        <= Excursion(a, vision.pose) + Deadband[a]
    BY DEF Excursion
  <2> QED
    BY TickPublishes, PublishExcursion
<1> QED
  BY <1>1, TypeCorrect, PTL DEF ExcursionBounded

\* From a pose in range the limits together do not lead out of it.
LEMMA LimitedInRange ==
  ASSUME NEW pose \in Poses, NEW fb \in Poses, NEW a \in Axes, Abs(fb[a]) <= MaxAngle[a]
  PROVE  Abs(Limited(pose, fb)[a]) <= MaxAngle[a]
<1> DEFINE slewed == fb[a] + Clamp(pose[a] - fb[a], SlewStep)
           ranged == Clamp(slewed, MaxAngle[a])
<1>1. /\ pose[a] \in Int /\ fb[a] \in Int
      /\ SlewStep \in Nat /\ MaxAngle[a] \in Nat /\ MaxDelta[a] \in Nat
  BY ShapingAssumption DEF Poses
<1>2. slewed \in Int
  BY <1>1 DEF Clamp
<1>3. Limited(pose, fb)[a] = fb[a] + Clamp(ranged - fb[a], MaxDelta[a])
  BY DEF Limited
<1> HIDE DEF slewed
<1>4. ranged \in Int /\ Abs(ranged) <= MaxAngle[a]
  BY <1>1, <1>2 DEF Clamp, Abs
<1> HIDE DEF ranged
<1> QED
  BY <1>1, <1>3, <1>4 DEF Clamp, Abs

LEMMA PublishRange ==
  ASSUME TypeOK, DeadbandReference, NEW pose \in Poses, NEW fire \in 0 .. 2,
         NEW lock \in {0, Locked, Unlocked}, Publish(lock, pose, fire),
         out'.lock = Locked, NEW a \in Axes, Abs(vision.pose[a]) <= MaxAngle[a]
  PROVE  Abs(out'.pose[a]) <= MaxAngle[a] \/ out'.pose[a] = out.pose[a]
<1> DEFINE lim == Limited(pose, vision.pose)
<1>1. lim \in Poses /\ vision.pose \in Poses /\ lastSent \in Poses \cup {NaN}
  BY LimitedType DEF TypeOK
<1>2. out'.pose = Deadbanded(lastSent, lim)
  BY DEF Publish
<1>3. Abs(lim[a]) <= MaxAngle[a]
  BY <1>1, LimitedInRange
<1> HIDE DEF lim
<1>4. CASE out'.pose[a] = lim[a]
  BY <1>3, <1>4
<1>5. CASE out'.pose[a] # lim[a]
  <2>1. lastSent # NaN /\ out'.pose[a] = lastSent[a]
    BY <1>1, <1>2, <1>5 DEF Deadbanded, Poses
  <2> QED
    BY <2>1 DEF DeadbandReference
<1> QED
  BY <1>4, <1>5

\* No new command leads a gimbal that is in the commanded range out of it, so
\* none crosses the seam, whatever is aimed at.
THEOREM RangeCorrect == Spec => RangeKept
<1> DEFINE InRange == SolverTick /\ out'.lock = Locked =>
                        \A a \in Axes :
                          Abs(vision.pose[a]) <= MaxAngle[a] =>
                            Abs(out'.pose[a]) <= MaxAngle[a] \/ out'.pose[a] = out.pose[a]
<1>1. TypeOK /\ DeadbandReference => [InRange]_vars
  BY TickPublishes, PublishRange
<1> QED
  BY <1>1, TypeCorrect, ReferenceCorrect, PTL DEF RangeKept
=============================================================================
