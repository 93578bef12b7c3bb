SPECIFICATION FairSpec
CONSTANTS
  Observations <- MCObservations
  Center = 1
  Jump = 1
  MinDetect = 2
  LostAge = 3
  DebounceFrames = 2
  FrameSize = 2
  MaxTracks = 2
  Configs <- MCConfigs
  NodeTimeout = 2
  FrameTimes = {1}
  Poses <- MCPoses
  Low <- MCLow
  High = 3
  SafeTimeout = 2
  MaxAge = 3
  Depth = 1
  Transit = 1
INVARIANTS
  TypeOK
  OfflineIsInert
  LockIsConfirmed
  MatchesAreMaximum
  SwitchIsDebounced
PROPERTIES
  LockIsRecent
  HoldsAndUnlocks
  FailsSafe
