SPECIFICATION Spec
CHECK_DEADLOCK FALSE
CONSTANTS
  None = None
  Sections = {1}
  Sources = {a, b}
  MaxGestures = 4
  TotalFrames = 1
INVARIANTS
  RequestsNotStranded VerdictAnswersRequest RunShownTruthfully QuitCancelsRun
PROPERTIES
  IssuesCatchUp
