SPECIFICATION FairSpec
CONSTANTS
  m1 = m1
  m2 = m2
  Members = {m1, m2}
  Attempt <- Attempts
  Corrupt = {c1}
  Malformed = {x1}
  Unusable = {u1}
  Misfiled = {f1}
  Missing = {o1}
  Named <- NamesFirst
  PlantedAt <- UnusableLater
  Schedulers = {w1, w2}
  Base = 1
  Cap = 3
  Batch = 5
  MaxTime = 6
  MaxCrashes = 1
INVARIANTS
  StoreOK
PROPERTIES
  ImplementsRetrySet
  EventuallyCleared
CHECK_DEADLOCK FALSE
