SPECIFICATION LiveSpec
CONSTANTS
  Callers = {c1, c2}
  Nobody = Nobody
  MaxToken = 2
  Threshold = 2
  MaxRetries = 1
INVARIANTS
  NoFalseExpiry
  StormCollapses
PROPERTIES
  RequestsEnd
  CircuitRecovers
