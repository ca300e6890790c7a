CONSTANTS
  Threads = {t1, t2, t3}
  RingSize = 4
  Laps = 2
  Batch = 3
  MaxPush = 5
  MaxOffered = 11
  NoSample = NoSample
SPECIFICATION SyncSpec
INVARIANTS
  MutualExclusion
  NoSlotRace
  BatchInOrder
  DropsTellLoss
PROPERTIES
  NoOvertaking
  NoStarvation
  AllFedOrStopped
