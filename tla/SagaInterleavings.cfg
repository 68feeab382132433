SPECIFICATION InterleavingSpec
CONSTANTS
  Lanes = {l1, l2}
  Scanners = {s1}
  NoWorker = NoWorker
  Answers <- EventNames
  RetryLimit = 2
  MaxFaults = 2
SYMMETRY Symmetry
INVARIANT TypeOK
INVARIANT ResultsOnce
INVARIANT CancelledMeansUndone
INVARIANT CompletedMeansPaidAndShipped
INVARIANT DeadlineDiscoverable
INVARIANT VerdictHolds
PROPERTY JournalStable
PROPERTY SagaNeverRewinds
PROPERTY RefinesLifecycle
CHECK_DEADLOCK FALSE
