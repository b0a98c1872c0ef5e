\* Two cells, any number of launches: every pass can be interrupted anywhere,
\* resumed by a later run and annotated in between.
CONSTANTS
  NaN = NaN
  None = None
  Blank = blank
  Answers = {blank, text}
  Scores = {low, high}
  Notes = {}
  Weighted <- MCWeighted
  Cells = {1, 2}
  BatchSize = 2
  MaxAttempts = 2
SPECIFICATION Spec
INVARIANTS
  RowsCoherent
  WorkIsFresh
  CompletedRunJudgedAll
  ReportMatchesStore
  IInv
PROPERTIES
  AnswerKept
  SettledKept
  AnnotationKept
