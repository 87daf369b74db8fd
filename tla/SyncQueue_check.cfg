SPECIFICATION FairSpec
CONSTANTS
  t1 = t1
  MaxRows = 2
  Batch = 2
  MaxBatches = 1
  Threads = {t1}
  Stopper = Stopper
  Drainer = Drainer
  NoThread = NoThread
  Oversized <- MCOversized
INVARIANTS TypeOK NoSilentLoss FirstAttemptsInOrder
PROPERTIES EventuallySettled CallsReturn ImplementsOutbox
