SPECIFICATION FairSpec
CONSTANTS
  Events = {e1}
  Endpoints = {p1}
  InitialEndpoints = {}
  Workers = {w1}
  Slots = {s1}
  Operators = {o1, o2}
  MaxAttempts = 3
  None = None
  MaxCrashes = 1
  MaxRedeliveries = 0
  MaxOps = 3
INVARIANTS
  AuditTrailContiguous
PROPERTIES
  AuditTrailAppendOnly
  EventuallyQuiet
CHECK_DEADLOCK FALSE
