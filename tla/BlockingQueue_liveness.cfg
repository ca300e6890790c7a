CONSTANTS
  e1 = e1
  e2 = e2
  Threads = {t1, t2}
  Elements = {e1, e2}
  NoElement = NoElement
  Closers = {c1}
  Uses <- LivenessUses
  MaxCapacity = 1
SPECIFICATION FairSpec
PROPERTIES
  CloseReturns
  CallsReturn
