\* A run, an annotate session and an ingestion on one row.
CONSTANTS
  NaN = NaN
  None = None
  Blank = blank
  Answers = {blank, text}
  Scores = {low}
  Notes = {}
  Weighted <- MCWeighted
  Cells = {c1}
  NoCell = NoCell
  Flags = {1, 2}
SPECIFICATION Spec
INVARIANTS
  IInv
PROPERTIES
  AnswerKept
  PassKeepsAnnotation
  IngestKeepsMetrics
  AtomicUnlessOverlapped
