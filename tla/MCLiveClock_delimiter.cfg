CONSTANTS
  n1 = n1
  n2 = n2
  c1 = c1
  Names = {n1, n2}
  Callbacks = {c1}
  None = None
  Width = 3
  StartTime = 1
  MaxTime = 4
  Times = {1, 4}
  Starts = {0, 3}
  Stops = {0, 3}
  Intervals = {2}
  Parts <- DelimitedParts
SPECIFICATION Spec
PROPERTY CancelTimersCancelsAll
