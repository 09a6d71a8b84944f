SPECIFICATION FairRelaySpec
CONSTANTS
  Events = {e1}
  Endpoints = {p1}
  InitialEndpoints = {p1}
  Workers = {w1}
  Slots = {s1, s2}
  Operators = {}
  Requests = {h1}
  Relays = {r1}
  BatchSize = 1
  MaxAttempts = 3
  None = None
  MaxAborts = 1
  MaxCrashes = 1
  MaxRedeliveries = 0
  MaxOps = 0
INVARIANTS
  NoAcceptedEventLost
  AnswersHaveCause
  LoggedUnlessCutOff
  FinalUnlessCutOff
  RetryingUnlessCrashed
  DroppedOutcomeGoesOn
  GaugeIsDepth
  StatusAtRest
PROPERTIES
  KeepsPromise
  KeepsPromiseInTheEnd
CHECK_DEADLOCK FALSE
