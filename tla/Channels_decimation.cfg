CONSTANTS
  Configs <- MCConfigs
  Announced <- MCAnnounced
  Offsets <- MCOffsets
  MAX_CHANNELS = 28
  MAX_BANDS = 8
  MaxAnnounced = 3
SPECIFICATION ChSpec
INVARIANT DecimationExact
