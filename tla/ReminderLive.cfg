SPECIFICATION FairSpec
CONSTANTS
  u1 = u1  u2 = u2
  s1 = s1  s2 = s2
  Kind = "RECORD"
  Users <- MCUsers
  Scans <- MCOneScan
  MaxRows = 3
  MaxItem = 1
  FirstDue = 0
  Interval = 1
  MaxDay = 2
  AmendedDays <- MCOne
  LeadDays <- MCLeads
  Horizon = 1
  WeekDays = 7
  Acts <- MCRenewAmend
  Faults <- MCQueue
  MaxFailures = 1
  NoUser = NoUser
INVARIANTS SentCoversEveryone EachDueDayIsTold
PROPERTY OverdueIsTold
CHECK_DEADLOCK FALSE
