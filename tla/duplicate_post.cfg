SPECIFICATION Spec
CONSTANTS
  Events = {e1}
  Endpoints = {p1}
  InitialEndpoints = {p1}
  Workers = {w1, w2}
  Slots = {s1}
  Operators = {}
  MaxAttempts = 2
  None = None
  MaxCrashes = 0
  MaxRedeliveries = 0
  MaxOps = 0
INVARIANTS
  AckedOnce
CHECK_DEADLOCK FALSE
