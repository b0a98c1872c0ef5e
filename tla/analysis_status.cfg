\* The best configuration of status when some configuration has no rank.
CONSTANTS
  ConfigOrder <- MCConfigOrder
  Cells <- MCCells
  Run = "r1"
  Stores <- MCStores
  NaN = NaN
  None = None
  Scale = 60
  Levels = {24, 48}
  FailureThreshold = 42
  JudgeThreshold = 30
  MinSample = 2
  MinPairs = 1
  MinLLMs = 2
  PValues = {2, 4}
  Alpha = 5
  MaxWrites = 1
SPECIFICATION Spec
INVARIANT StatusNamesTheBest
