SPECIFICATION FairSpec
CONSTANTS
  k1 = k1  k2 = k2
  w1 = w1  w2 = w2
  h1 = h1  h2 = h2
  Keys <- MCOneKey
  Workers <- MCWorkers
  Hooks <- MCOneHook
  Critical <- MCNone
  EventTypes <- MCSoft
  Faults <- MCAllFaults
  MaxAttempts = 3
  MaxStalls = 1
  MaxRefusals = 2
  NoWorker = NoWorker
  NoKey = NoKey
  NoEvent = NoEvent
INVARIANTS TypeOK AtMostOneSend SingleSender SendsAreGranted SentIsTrue
PROPERTY JobSettles
CHECK_DEADLOCK FALSE
