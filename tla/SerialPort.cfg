SPECIFICATION FairSpec
CONSTANTS
  Depth = 2
  MaxEpoch = 4
INVARIANTS TypeOK OneDescriptorPerPlug
PROPERTIES MangledOnlyInReconnect UplinkRecovers DownlinkRecovers StopReturns
CHECK_DEADLOCK FALSE
