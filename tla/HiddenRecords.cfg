SPECIFICATION HistorySpec
CONSTANTS
  Autos = {c1, c2}
  Dates = {1, 2}
  Newest = 2
  MaxRows = 3
INVARIANT HiddenIsGone
CHECK_DEADLOCK FALSE
