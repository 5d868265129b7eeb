CONSTANTS
  Tasks = {t1, t2}
  Requests = {r1}
  MaxSpans = 2
  MaxDepth = 2
  MaxCarriers = 2
  None = None
SPECIFICATION SurfacesSpec
SYMMETRY MCSymmetry
INVARIANTS
  ContextFollowsCode
  RecordsFollowCode
  TraceTree
  RecordsTruthful
CHECK_DEADLOCK FALSE
