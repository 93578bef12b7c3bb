SPECIFICATION Spec
CONSTANTS
  HalfTurn = 4
  Alpha = 2
  SlewStep = 1
  MaxAngle <- MCMaxAngle
  MaxDelta <- MCMaxDelta
  Deadband <- MCDeadband
  NaN = NaN
  Params <- ModeParams
  Feedback <- ModeFeedback
  Errors <- ModeErrors
  AimPoses <- ModeAims
  Overshoot = 2
  Gain <- MCGain
  Bias <- MCBias
  ZeroOffset <- MCZeroOffset
  IntMax = 2
  KiDiv = 2
  StaleAge = 1
  LostAge = 2
  FrameAge = 1
  PlateHalf <- MCPlateHalf
  Focal = 1
  WinMin = 1
  WinMax = 4
INVARIANTS DeadbandReference
PROPERTIES FireIsPermitted LockStartsOnTrack
