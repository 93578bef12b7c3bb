SPECIFICATION LoopSpec
CONSTANTS
  HalfTurn = 60
  Alpha = 2
  SlewStep = 5
  MaxAngle <- MCMaxAngle
  MaxDelta <- MCMaxDelta
  Deadband <- YawDeadband
  NaN = NaN
  Params <- MCParams
  Feedback <- MCStart
  Errors <- SomeError
  AimPoses <- NoPoses
  Overshoot = 2
  Gain <- MCGain
  Bias <- MCBias
  ZeroOffset <- MCZeroOffset
  IntMax = 8
  KiDiv = 4
  StaleAge = 1
  LostAge = 1
  FrameAge = 1
  PlateHalf <- MCPlateHalf
  Focal = 1
  WinMin = 1
  WinMax = 40
  Bearings <- MCBearings
  TicksPerFrame = 3
PROPERTIES Converges ReleaseUnlocks
