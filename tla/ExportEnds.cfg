SPECIFICATION ExportSpec
CONSTANTS
  j1 = j1  j2 = j2
  c1 = c1  c2 = c2
  w1 = w1  w2 = w2
  Jobs <- MCJobs
  Creators <- MCCreators
  Slots <- MCSlots
  MaxPending = 1
  MaxStalls = 1
  MaxLosses = 1
  ExportFaults <- MCBuildFaults
  NoJob = NoJob
INVARIANT ReadyHasFile
PROPERTIES ReadyIsKept EveryExportEnds
CHECK_DEADLOCK FALSE
