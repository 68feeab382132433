SPECIFICATION FairSpec
CONSTANTS
  Lanes = {l1}
  Scanners = {s1}
  NoWorker = NoWorker
  Answers = {"quote-calculated"}
  RetryLimit = 16
  MaxFaults = 1
PROPERTY TimeoutResultsPublished
CHECK_DEADLOCK FALSE
