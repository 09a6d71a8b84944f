SPECIFICATION FairSpec
CONSTANTS
  Workers = {w1}
  Partitions = {p1}
  N = 2
  Kind <- FirstIllTyped
  Concurrency = 2
  NoWorker = NoWorker
  MaxFaults = 0
  MaxCommitFailures = 0
  MaxRebalances = 0
PROPERTIES
  PoisonPillAdvances
CHECK_DEADLOCK FALSE
