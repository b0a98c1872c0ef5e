\* Two rows, services that answer in every way, any number of executions.
CONSTANTS
  text = text
  low = low
  NaN = NaN
  None = None
  Blank = blank
  Answers = {blank, text}
  Scores = {low}
  Notes = {}
  Weighted <- MCWeighted
  BatchSize = 1
  PassAttempts = 2
  Attempts = 2
  MaxRetries = 1
  MaxPrompts = 2
  RagasTries = 2
  RagasRepeats = {"busy"}
  SdkRetries = 1
  Cells = {1, 2}
  InitialRows <- MCInitialRows
\* A round whose files are all torn is the end: no command reads it any more.
CHECK_DEADLOCK FALSE
SPECIFICATION FairSpec
INVARIANTS
  IInv
  RequestsBounded
  ReportAccounts
PROPERTIES
  ScoredKept
  ExecutionEnds
