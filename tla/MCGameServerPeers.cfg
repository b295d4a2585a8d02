\* Three peers that move but do not shoot: two of them may leave before they
\* are accepted while the third one plays.
SPECIFICATION Spec
CONSTANTS
  Conns = {c1, c2, c3}
  NoId = NoId
  Slots = {0, 1, 2, 3, 4}
  MaxVersion = 3
  WallCount = 2
  MaxShots = 0
  MaxInbox = 1
  MaxBacklog = 1
SYMMETRY ConnSymmetry
INVARIANTS
  CountAccounting
  StrayDamage
