SPECIFICATION Spec
CONSTANTS
  Workers = {w1, w2}
  Partitions = {p1}
  N = 3
  Kind <- OneOfEach
  Concurrency = 2
  NoWorker = NoWorker
  MaxFaults = 1
  MaxCommitFailures = 1
  MaxRebalances = 0
SYMMETRY WorkerSymmetry
INVARIANTS
  TypeOK
  CommittedProcessed
  NoGap
  PermitsBalanced
PROPERTIES
  ImplementsAtLeastOnce
CHECK_DEADLOCK FALSE
