SPECIFICATION FairSpec
CONSTANTS
  Press = {p0, p1, p2}
  NoPress = NoPress
  Early = p0
  Model = {m1, m2}
  NoModel = NoModel
CHECK_DEADLOCK FALSE
INVARIANTS
  PatientSeesOneServer
  NoServerLost
PROPERTIES
  PressesEnd
