\* A file torn by a crash and the runs that follow.
CONSTANTS
  NaN = NaN
  None = None
  Blank = blank
  Answers = {blank, text}
  Scores = {low}
  Notes = {}
  Weighted <- MCWeighted
  Cells = {1, 2}
  BatchSize = 2
  MaxAttempts = 1
SPECIFICATION Spec
INVARIANTS
  RelaunchIsSafe
