SPECIFICATION FairCycleSpec
CONSTANTS
  Session = {s1}
  NoSession = NoSession
  QueueCap = 6
CHECK_DEADLOCK FALSE
PROPERTIES
  PortWaitEnds
