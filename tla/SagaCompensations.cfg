SPECIFICATION Spec
CONSTANTS
  Lanes = {l1, l2}
  Scanners = {}
  NoWorker = NoWorker
  Answers <- EventNames
  RetryLimit = 16
  MaxFaults = 0
INVARIANT CompensationsNotLost
CHECK_DEADLOCK FALSE
