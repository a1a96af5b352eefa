SPECIFICATION FairSpec
CONSTANTS
  Run = {r1, r2}
  NoRun = NoRun
CHECK_DEADLOCK FALSE
INVARIANTS
  RegisterIsKept
  PatientIsExclusive
PROPERTIES
  SessionEnds
