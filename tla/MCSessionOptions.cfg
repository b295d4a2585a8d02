\* The options a player is built from.
SPECIFICATION Spec
CONSTANTS
  NetworkError = NetworkError
  MaxEvents = 1
INVARIANT PlayerHasSessionOptions
