\* Two slots besides the player's own: a slot is destroyed and reused while
\* both the feed and the queue still hold messages of its last entity; and
\* the liveness of hung shots and of the end of a session.
SPECIFICATION FairSpec
CONSTANTS
  Slots = {0, 1, 2}
  MaxVersion = 2
  Main <- MCMain
  MaxPast = 0
  MaxEvents = 4
  MaxFeed = 2
INVARIANTS
  TypeOK
  NothingIsLost
  OnlyHungShotsAreDeletedUnborn
  OnlyDoomedOccupantsBlock
  OnlyHungCoordsAreSkipped
PROPERTIES
  HungShotsAppear
  LostConnectionEnds
