SPECIFICATION FairSpec
CONSTANTS
  k1 = k1  k2 = k2
  w1 = w1  w2 = w2
  h1 = h1  h2 = h2
  Keys <- MCKeys
  Workers <- MCOneWorker
  Hooks <- MCOneHook
  Critical <- MCCritical
  EventTypes <- MCBounces
  Faults <- MCNone
  MaxAttempts = 2
  MaxStalls = 0
  MaxRefusals = 1
  NoWorker = NoWorker
  NoKey = NoKey
  NoEvent = NoEvent
INVARIANTS ReplayIsNoop
PROPERTY NothingIsLost
CHECK_DEADLOCK FALSE
