CONSTANTS
  Names = {a, b, c}
  NULL = NULL
  LobbySize = 1
  GameSize = 3
  MaxFd = 3
  MaxDrift = 1
  Watched = 0

SPECIFICATION Spec
CHECK_DEADLOCK FALSE
SYMMETRY Symmetry

INVARIANT RoundFindsDrawer
