CONSTANTS
  Configs <- MCConfigs
  Announced <- MCAnnounced
  Offsets <- MCOffsets
  MAX_CHANNELS = 28
  MAX_BANDS = 8
  MaxAnnounced = 3
  BS_MAX_CLIENTS = 2
  Fds = {1, 2, 3}
  MaxLosses = 3
  BsModes = {"server", "push"}
  WebChoices = {TRUE}
  Workers = {w1, w2}
  AcarsMessages <- MCMessages
  WaypointLines <- MCWaypoints
  AircraftLines <- MCAircraft
  LEARNED_WP_MAX = 2
  BS_TRACK_MAX = 1
  MAX_AIRCRAFT = 2
  MAX_FIXES = 2
  MAX_STDC_MSGS = 2
  MinGap = 1
  MaxGap = 3
  MaxSpeed = 2
  MaxMessages = 3
  Demods <- MCDemods
  Tuners = {t1, t2}
  TuneRequests <- MCRequests
  FalseLock = 600
  MaxNoise = 2
  MaxRequests = 2
  Endpoints <- MCEndpoints
  DataShapes <- MCData
  ContextShapes <- MCContext
  CountMod = 4
  IqFormat = "cs16"
  MaxSent = 7
  MaxDelay = 2
  MaxFaults = 1
  SdrBackends = {"rtlsdr", "hackrf", "airspy", "sdrplay", "bladerf", "usrp", "soapy"}
  MaxInterrupts = 2
SPECIFICATION StationSpec
INVARIANTS
  ChannelsOnFrequency
  OneDemodPerChannel
  MissesBoundedByLosses
  ConnectionsAccountedFor
  TrackFromOwnFixes
  DashboardKeepsRecent
  SignalStatusTold
  TuneSticks
  GapsTellLoss
  ServiceReleased
PROPERTIES
  PushReconnects
  CarrierFollowed
CHECK_DEADLOCK FALSE
