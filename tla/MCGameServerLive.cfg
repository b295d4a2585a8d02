\* Liveness: two peers, no symmetry, the fairness of FairSpec.
SPECIFICATION FairSpec
CONSTANTS
  Conns = {c1, c2}
  NoId = NoId
  Slots = {0, 1, 2, 3, 4}
  MaxVersion = 3
  WallCount = 2
  MaxShots = 1
  MaxInbox = 1
  MaxBacklog = 1
PROPERTIES
  KeepsPromise
  StateChangesAreHandled
  StopEndsTheServer
