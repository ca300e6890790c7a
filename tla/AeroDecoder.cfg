CONSTANTS
  Plans <- MCPlans
  KeepIsu = 1
  KeepFrag = 3
  NBlockIds = 3
  NoAes = "none"
  NRefs = 3
  SUsPerFrame = 3
  MaxFaults = 4
SPECIFICATION FairSpec
INVARIANTS
  LosslessIsExact
  MixingNeedsLosses
PROPERTY SyncIsRegained
