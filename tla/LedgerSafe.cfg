SPECIFICATION Spec
CONSTANTS
  q1 = q1  q2 = q2
  k1 = k1  k2 = k2
  Requests <- MCRequests
  Records <- MCRecords
  Readings <- MCReadings
  Amounts <- MCTwoAmounts
  Factor <- MCFactor
  VehicleUnit = "MILES"
  MaxRequests = 3
  Today = 2
  Intervals <- MCIntervals
  Faults <- MCFaults
  None = None
SYMMETRY Symm
INVARIANTS CacheIsNewest MirrorAgrees DueFollowsRule
CHECK_DEADLOCK FALSE
