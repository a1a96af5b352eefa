SPECIFICATION FlowsSpec
CONSTANTS
  Opener = {theApp, theCli}
  MaxKills = 1
  Conversation = {1, 2}
  MaxQuestions = 3
  KeepMessages = 2
  Answer = 3
  Capacity = 2
  Item = {x, y}
  MaxSteps = 2
  Speed = {0, 1, 2}
  Screen = {onboarding, settings}
  Backend = {"mlx-vlm", "llama-cpp-python"}
  ExtraOf <- MCExtraOf
  MaxVersion = 2
  MaxSetups = 2
  MaxQuits = 1
  PipeSize = 2
  MaxLines = 4
  MaxRows = 3
  BusSize = 2
  MaxSamples = 3
  Contexts <- MCContexts
  Granularities = {0, 1, 2, 3}
  Call = {c1, c2}
  NoCall = NoCall
  Process = {server, worker}
  Root = server
  Footprint = {4}
  Memory = 8
  UserLimit = {9}
  BusCapacity = 2
  MaxEvents = 1
CHECK_DEADLOCK FALSE
INVARIANTS
  StoreSurvives
  ConversationsAreOwn
  AnswerIsTrue
  PlanIsTold
  SetupIsTrue
  OutputIsTrue
  OwnServerIsClean
  SearchIsRight
  DownloadIsHeld
  KillIsExplained
PROPERTIES
  EverythingEnds
  CancelHolds
  NoneStaysOver
