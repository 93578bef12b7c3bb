SPECIFICATION FairSpec
CONSTANTS
  Numbers = {"outpost", "hero"}
  Outpost = "outpost"
  TrackingThres = 2
  LostTime = 2
  LostTimeOutpost = 3
  FrameAge = 1
  TransferTime = 1
  Rates <- MCRates
  Up <- MCUp
  Down <- MCDown
  MaxFails = 1
  FrameDepth = 1
INVARIANTS TypeOK LockIsEarned ModeNeedsJump
PROPERTIES OutpostKept ModeIsEarned Acquires ImplementsTrackSource
