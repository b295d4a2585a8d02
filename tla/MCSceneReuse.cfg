\* The assertion of Scene::AddObject: a player leaves and another one joins
\* before the client's next frame.
SPECIFICATION Spec
CONSTANTS
  Slots = {0, 1, 2}
  MaxVersion = 3
  Main <- MCMain
  MaxPast = 0
  MaxEvents = 4
  MaxFeed = 2
INVARIANT AddObjectIsGranted
