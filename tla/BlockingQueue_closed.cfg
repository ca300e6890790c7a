CONSTANTS
  e1 = e1
  e2 = e2
  Threads = {t1, t2}
  Elements = {e1, e2}
  NoElement = NoElement
  Closers = {c1}
  Uses <- ClosedUses
  MaxCapacity = 4
SPECIFICATION Spec
SYMMETRY Symmetry
INVARIANT ClosedAnswersClosed
