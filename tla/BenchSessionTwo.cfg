SPECIFICATION Spec
CONSTANTS
  Run = {r1, r2, r3}
  NoRun = NoRun
CHECK_DEADLOCK FALSE
INVARIANTS
  OneSession
