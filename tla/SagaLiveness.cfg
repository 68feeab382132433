SPECIFICATION FairSpec
CONSTANTS
  Lanes = {l1}
  Scanners = {s1}
  NoWorker = NoWorker
  Answers = {"quote-calculated", "authorized", "shipment-creation-failed", "authorization-released"}
  RetryLimit = 16
  MaxFaults = 1
PROPERTY SagaProgress
CHECK_DEADLOCK FALSE
