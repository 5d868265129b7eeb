CONSTANTS
  DetectorIds <- MCDetectorIds
  Length = 4
  MaxRanges = 2
  Token = Token
  Callers = {c1}
  Chunks = {x, y}
  MaxContent = 3
  MaxPushes = 5
  None = None
SPECIFICATION GuardrailSpec
INVARIANTS
  RedactionExact
  ObjectionsPrevail
  EvaluateAnswers
  OrderDecidesNothing
  SameGuardrailVerdict
  FinishJudgesWhole
  ContentReleased
CHECK_DEADLOCK FALSE
