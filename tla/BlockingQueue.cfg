CONSTANTS
  e1 = e1
  e2 = e2
  Threads = {t1, t2, t3}
  Elements = {e1, e2}
  NoElement = NoElement
  Closers = {c1}
  Uses <- SafetyUses
  MaxCapacity = 4
SPECIFICATION Spec
SYMMETRY Symmetry
INVARIANT FreeWaitsForCallers
PROPERTY ImplementsContract
