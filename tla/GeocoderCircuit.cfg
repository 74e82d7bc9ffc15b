SPECIFICATION Spec
CONSTANTS
  c1 = c1
  c2 = c2
  c3 = c3
  NoOne = NoOne
  Calls <- ThreeCalls
  Threshold = 2
  MaxFaults = 1
INVARIANTS
  CircuitInv
  OpenIsRemembered
  FailuresExpire
  ThresholdOpens
  ProbesHaveTheToken
SYMMETRY CallSymmetry
