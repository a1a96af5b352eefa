SPECIFICATION MeasuredSpec
CONSTANTS
  Profile = {p1, p2}
  Session = {theApp, theCli}
  MaxStarts = 2
  Samples = 1
  NoRow = NoRow
  Eval = {e1, e2}
  EvalContext = {small, large}
  Items = 2
  FullMark = 3
  Gap = 1
  MaxTime = 2
  PromptSize = {1024, 16384, 1048576}
  NeedleLength = {11, 141}
  NeedleDepth = {0, 10, 50, 51, 100, 101}
  QuestionLength = {17, 60}
  Overshoot = {0, 76}
  Weight = {0, 1, 33, 66, 100}
  MaxNeedles = 2
  MaxKeywords = 3
  Models = 2
  MaxRuns = 2
  Context = {2, 4, 6}
  Target = {4, 5}
  Result <- MCResult
SYMMETRY Symmetries
CHECK_DEADLOCK FALSE
INVARIANTS
  RowsAreRight
  EvaluationIsTrue
  PromptIsRight
  RankingAgrees
PROPERTIES
  MeasuresTakeEffect
