SPECIFICATION Spec
CONSTANTS
  u1 = u1  u2 = u2
  s1 = s1  s2 = s2
  Kind = "RULE"
  Users <- MCOneUser
  Scans <- MCScans
  MaxRows = 2
  MaxItem = 0
  FirstDue = 0
  Interval = 2
  MaxDay = 0
  AmendedDays <- MCTwo
  LeadDays <- MCLeads
  Horizon = 2
  WeekDays = 7
  Acts <- MCRows
  Faults <- MCFaults
  MaxFailures = 1
  NoUser = NoUser
SYMMETRY Symm
INVARIANTS TypeOK NotifiedOnce OneLiveReminder
CHECK_DEADLOCK FALSE
