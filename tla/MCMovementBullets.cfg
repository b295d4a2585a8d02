\* Bullets of the configured proportions: one player runs against a wall and
\* shoots at it.
SPECIFICATION Spec
CONSTANTS
  p1 = p1
  p2 = p2
  Players = {p1}
  Bullets = {b1}
  None = None
  KeysOf <- MCRealKeysOf
  Aims <- MCAims
  Width = 58
  Height = 40
  InnerWalls = {}
  Spawn <- MCRealSpawn
  PlayerRadius = 18
  PlayerSpeed = 3
  BulletRadius = 3
  BulletSpeed = 5
  MaxDt = 1
  MaxBacklog = 1
  MaxLost = 4
INVARIANT BulletsStayInside
