\* Two players who move and shoot in a small world; ticks may be late.
SPECIFICATION FairSpec
CONSTANTS
  p1 = p1
  p2 = p2
  Players = {p1, p2}
  Bullets = {b1}
  None = None
  KeysOf <- MCKeysOf
  Aims <- MCAims
  Width = 12
  Height = 8
  InnerWalls <- MCInnerWalls
  Spawn <- MCSpawn
  PlayerRadius = 2
  PlayerSpeed = 1
  BulletRadius = 2
  BulletSpeed = 2
  MaxDt = 2
  MaxBacklog = 2
  MaxLost = 4
INVARIANTS
  TypeOK
  WallsHold
  PositionsAgree
  VelocityAgreement
  ClearShotsStayInside
PROPERTY BulletsEnd
