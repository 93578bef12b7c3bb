SPECIFICATION Spec
CONSTANTS
  HalfTurn = 4
  Alpha = 2
  SlewStep = 1
  MaxAngle <- MCMaxAngle
  MaxDelta <- MCMaxDelta
  Deadband <- MCDeadband
  NaN = NaN
  Params <- DirectParams
  Feedback <- DirectFeedback
  Errors <- DirectErrors
  AimPoses <- NoPoses
  Overshoot = 2
  Gain <- MCGain
  Bias <- MCBias
  ZeroOffset <- MCZeroOffset
  IntMax = 2
  KiDiv = 2
  StaleAge = 1
  LostAge = 1
  FrameAge = 1
  PlateHalf <- MCPlateHalf
  Focal = 1
  WinMin = 1
  WinMax = 4
INVARIANTS TypeOK DeadbandReference FilterBounded
PROPERTIES FireIsPermitted ExcursionBounded RangeKept IntegratorRestarts
