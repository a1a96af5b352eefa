SPECIFICATION CliServeSpec
CONSTANTS
  BusSize = 2
  MaxSamples = 3
CHECK_DEADLOCK FALSE
INVARIANT
  NoServerLeft
