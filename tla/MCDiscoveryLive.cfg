\* Liveness: two clients wait while servers come and go.
SPECIFICATION FairSpec
CONSTANTS
  Servers = {s1}
  Clients = {c1, c2}
  None = None
  MaxCount = 0
  MaxStrays = 1
  MaxErrors = 1
PROPERTIES
  WaitersAreAnswered
  MapFollowsRedis
