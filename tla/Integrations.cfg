SPECIFICATION IntegrationSpec
CONSTANTS
  Calls = {c1, c2}
SYMMETRY Symmetry
INVARIANTS
  SpanTellsAnswer
  WorkEndsWithCall
