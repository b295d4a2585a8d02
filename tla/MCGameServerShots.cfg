\* Two peers and two bullets: a slot passes between players and bullets while
\* the other peer still lags behind; a peer may leave before it is accepted.
SPECIFICATION Spec
CONSTANTS
  Conns = {c1, c2}
  NoId = NoId
  Slots = {0, 1, 2, 3, 4, 5}
  MaxVersion = 4
  WallCount = 2
  MaxShots = 2
  MaxInbox = 1
  MaxBacklog = 1
SYMMETRY ConnSymmetry
INVARIANTS
  TypeOK
  PlayersAreClients
  RequestsNameOwnPlayer
  StreamTellsWorld
  StreamIsReplayable
