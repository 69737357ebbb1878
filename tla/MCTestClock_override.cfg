CONSTANTS
  n1 = n1
  n2 = n2
  c1 = c1
  Names = {n1, n2}
  Callbacks = {c1}
  None = None
  Width = 4
  Times = {0, 3, 6}
  Starts = {0, 3, 6}
  Stops = {0, 6}
  Intervals = {0, 3}
  Truncating = {}
  Parts <- PlainParts
SPECIFICATION Spec
SYMMETRY NameSymmetry
PROPERTY OverrideReplaces

