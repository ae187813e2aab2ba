SPECIFICATION FigureSpec
CONSTANTS
  p1 = p1  p2 = p2
  c1 = c1  c2 = c2
  d1 = d1  d2 = d2
  Factor <- MCFactor
  ThresholdOf <- MCThreshold
  Readings <- MCReadings
  Rules <- MCRules
  Covers <- MCCovers
  LastDay = 5
  MaxPeriods = 2
  ThresholdDays = 1
  StaleDays = 2
  SoonDays = 1
  SoonMiles = 1
  RecentDays = 1
  RecentOverrun = 2
  Depths = {1, 2, 3, 4}
  LegalTread = 2
  AdvisoryTread = 3
  Unset = Unset
  Papers <- MCPapers
  Cars <- MCOwned
  Starts = {0, 1}
  Ends = {0, 2, 3}
  LastToday = 2
  HorizonDays = 2
  DueSoonDays = 1
  NoEnd = NoEnd
  NoPaper = NoPaper
  Fills <- MCFills
  MaxFills = 4
  MetresPer <- MCFactor
  Tanks <- MCTanks
  MaxTanks = 2
  Months = {1, 2, 3, 4, 5}
  WindowMonths = 2
  BandPercent = 5
  NoFigure = NoFigure
  Fleet <- MCCars
  Costs <- MCCosts
  Clocks <- MCClocks
  MaxCosts = 3
  MaxClocks = 4
  LastDate = 2
  MonthDays = 2
  YearFloor = 3
  NoCar = NoCar
  NoResult = NoResult
SYMMETRY MCSymmetry
INVARIANTS LimitsAreTold ScreensAreTrue FuelIsCountedOnce VerdictFollowsTheFuel ReportsAgree
PROPERTY WearOnlyGrows
CHECK_DEADLOCK FALSE
