SPECIFICATION FairSpec
CONSTANTS
  Workers = {w1, w2}
  Partitions = {p1}
  N = 2
  Kind <- SecondMalformed
  Concurrency = 2
  NoWorker = NoWorker
  MaxFaults = 1
  MaxCommitFailures = 0
  MaxRebalances = 1
PROPERTIES
  EventuallyProcessed
  EventuallyCommitted
CHECK_DEADLOCK FALSE
