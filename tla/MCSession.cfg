CONSTANTS
  Clients = {a, b}
  None = None
  PFDS_INIT_SIZE = 2
  CANVAS_SIZE = 1
  Strokes <- TwoStrokes
  MaxUnread = 1
  MaxBehind = 2

SPECIFICATION FairSpec
CHECK_DEADLOCK FALSE

INVARIANTS
  TypeOK
  PollSetIsExact
  NoBlindReceive
  ClientsCatchUp
PROPERTIES
  RemovedForAReason
  MessagesAreRead
