CONSTANTS
  LobbySize = 2
  GAME_DURATION_SEC = 60
  TIME_BEFORE_START_SEC = 5
  SOCKOPT_TIMEOUT_SEC = 3
  Blocking = 4
  MaxLate = 6

SPECIFICATION FairSpec

INVARIANTS
  TypeOK
  PollIsBounded
  EndsInTime
PROPERTY
  RoundsEnd
