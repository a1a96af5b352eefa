SPECIFICATION KeptSpec
CONSTANTS
  gemma = gemma
  gemmaB = gemmaB
  assist = assist
  lora = lora
  NoRepo = NoRepo
  Repo = {gemma, gemmaB, assist, lora}
  FileOf <- MCFileOf
  KindOf <- MCKindOf
  AssistantOf <- MCAssistantOf
  BaseOf <- MCBaseOf
  MaxProfileKills = 1
  HandName = {"mine"}
  HandWritten <- MCHandWritten
  MaxEdits = 1
  Length = {1, 4, 20, 255}
  Factor = {5, 25}
  UserSteps <- MCUserSteps
  FirstStep = 4
  MinContext = 2
  DefaultContext = 16
  Widest = 255
  AuthOp = {o1, o2}
  HubToken = {t1, t2}
  Blank = blank
  NoToken = none
  MaxOps = 3
  large = large
  untold = untold
  small = small
  Model = {large, untold, small}
  SizeOf <- MCSizeOf
  Reported <- MCReported
  Elsewhere = 10
  NoModel = NoModel
  Disk = 18
  Reserve = 5
  MaxActs = 3
CHECK_DEADLOCK FALSE
INVARIANTS
  FilesAreRight
  DraftIsConsistent
  TokensAreConfirmed
  
PROPERTIES
  ChangesTakeEffect
