SPECIFICATION Spec
CONSTANTS
  p1 = p1
  p2 = p2
  p3 = p3
  k1 = k1
  c1 = c1
  c2 = c2
  NoKey = NoKey
  Procs <- TwoProcs
  Keys <- OneKey
  Contents <- TwoContents
  MaxRows = 2
  MaxLosses = 0
PROPERTY AnswersRestOnValidKeys
CHECK_DEADLOCK FALSE
