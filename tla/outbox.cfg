SPECIFICATION FairSpec
CONSTANTS
  Keys = {k1, k2, k3}
  Requests = {h1, h2}
  Relays = {r1, r2}
  BatchSize = 2
  None = None
  MaxAborts = 2
INVARIANTS
  TypeOK
  NoEventLost
  NoOrphanMessage
  DuplicatesOnlyFromAborts
  OutboxInv
PROPERTIES
  EventuallyPublished
