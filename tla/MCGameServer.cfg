CONSTANTS
  Names = {a, b, c}
  NULL = NULL
  LobbySize = 2
  GameSize = 2
  MaxFd = 3
  MaxDrift = 1
  Watched = 0

SPECIFICATION Spec
CHECK_DEADLOCK FALSE
SYMMETRY Symmetry

INVARIANTS
  TypeOK
  NoFdLeak
  OneGameEach
  RotationIsSound
  FdIdentifiesPlayer
  SeatsAreTaken
  NobodyWaitsNeedlessly
  RolesAgree
  ExitNeedsUnlinkedNodes
PROPERTIES
  DrawerRotates
  DrawerStays
  PlayersStayPut
  FailuresStayInGame
  GameIsARoster
