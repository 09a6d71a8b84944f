SPECIFICATION Spec
CONSTANTS
  Events = {e1}
  Endpoints = {p1}
  InitialEndpoints = {p1}
  Workers = {w1}
  Slots = {s1}
  Operators = {o1}
  MaxAttempts = 2
  None = None
  MaxCrashes = 0
  MaxRedeliveries = 0
  MaxOps = 1
INVARIANTS
  RetryingIsPending
CHECK_DEADLOCK FALSE
