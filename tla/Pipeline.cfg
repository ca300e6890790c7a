CONSTANTS
  Backends = {"file", "rtlsdr", "hackrf", "airspy", "sdrplay", "bladerf", "usrp", "soapy", "vita49"}
  Bound = 1
  MaxBuffers = 3
  MaxSignals = 2
  NoElement = NoElement
SPECIFICATION FairSpec
INVARIANTS
  NoSilentLoss
  FileProcessedToEnd
  ForceQuitOnlyByUser
  UsesOnlyWhatIsAlive
PROPERTY StopLeadsToExit
