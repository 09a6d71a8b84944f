SPECIFICATION FairSpec
CONSTANTS
  Events = {e1}
  Endpoints = {p1}
  InitialEndpoints = {p1}
  Workers = {w1, w2}
  Slots = {s1}
  Operators = {}
  MaxAttempts = 2
  None = None
  MaxCrashes = 1
  MaxRedeliveries = 1
  MaxOps = 0
INVARIANTS
  TypeOK
  NoLostDelivery
  AuditTrailContiguous
  ExhaustedAfterAllAttempts
PROPERTIES
  AuditTrailAppendOnly
  UsesRetrySet
  EventuallyResolved
CHECK_DEADLOCK FALSE
