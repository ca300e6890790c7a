CONSTANTS
  Backends = {"bladerf"}
  Bound = 1
  MaxBuffers = 2
  MaxSignals = 1
  NoElement = NoElement
SPECIFICATION FairSpec
PROPERTY SignalStops
