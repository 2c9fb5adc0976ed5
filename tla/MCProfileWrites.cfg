SPECIFICATION Spec
CONSTANTS
  c1 = c1
  c2 = c2
  r1 = r1
  r2 = r2
  r3 = r3
  a = a
  b = b
  None = None
  Calls = {c1, c2}
  Rows = {r1, r2, r3}
  OldRows = {r1, r2}
  Values = {a, b}
  MaxHitches = 1
SYMMETRY Symmetry
CHECK_DEADLOCK FALSE
PROPERTIES
  UpdatedIsExact
  OthersSurvive
  WayBack
