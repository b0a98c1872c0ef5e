\* The passes against their abstract specifications, and the end of every run;
\* batches of one row.
CONSTANTS
  NaN = NaN
  None = None
  Blank = blank
  Answers = {blank, text}
  Scores = {low}
  Notes = {}
  Weighted <- MCWeighted
  Cells = {1, 2}
  BatchSize = 1
  MaxAttempts = 2
SPECIFICATION FairSpec
PROPERTIES
  ImplementsLifecycle
  ImplementsStages
  RunEnds
