\* One client, three messages after the greeting, every loss at every moment.
SPECIFICATION FairSpec
CONSTANTS
  NetworkError = NetworkError
  MaxEvents = 3
INVARIANTS
  TypeOK
  StreamReachesScene
  EndsOnlyOfLoss
PROPERTIES
  OnlyRoomsCrashPlay
  WaitsOnlyForAnswers
  SessionsEnd
