\* A verdict persisted for a row whose Layer 1 metrics are missing.
CONSTANTS
  NaN = NaN
  None = None
  Blank = blank
  Answers = {blank, text}
  Scores = {low}
  Notes = {}
  Weighted <- MCWeighted
  Cells = {1, 2}
  BatchSize = 2
  MaxAttempts = 1
SPECIFICATION Spec
PROPERTIES
  VerdictKept
