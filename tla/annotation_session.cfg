\* Two rows, a session, CSVs, a sheet and the judge, any number of commands.
CONSTANTS
  Cells = {1, 2}
  NaN = NaN
  None = None
  Levels = {1, 3}
  ScoreThreshold = 2
  RubricThreshold = 2
  ExportThreshold = 2
  MaxToReview = 2
  Notes = {note}
SPECIFICATION Spec
INVARIANTS
  DecisionsArrive
PROPERTIES
  OnlyDecisionsIngested
