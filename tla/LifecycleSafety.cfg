SPECIFICATION Spec
CONSTANTS
  Session = {s1, s2}
  NoSession = NoSession
  QueueCap = 3
SYMMETRY SessionSymmetry
INVARIANTS
  StatesAreKept
  NoOrphan
  OneServer
  AbortIsOwn
