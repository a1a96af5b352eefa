SPECIFICATION FairSpec
CONSTANTS
  Session = {s1, s2}
  NoSession = NoSession
  QueueCap = 1
PROPERTIES
  ActorMovesOn
  SlotSpec
