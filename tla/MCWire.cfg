CONSTANTS
  INT_MAX = 11
  INITIAL_SIZE = 4
  INT_BYTES = 2
  TIME_BYTES = 1
  CANVAS_BYTES = 1
  NAME_LEN = 1
  WORD_LEN = 2
  Clients = {a, b}
  None = None
  MAX_USERNAME_LEN = 1
  MAX_GUESS_LEN = 2
  CANVAS_SIZE = 1
  Lengths <- FewLengths
  Strokes <- FourStrokes
  MaxUnread = 1

SPECIFICATION Spec

INVARIANTS
  TypeOK
  
  ServerInStep
  HeardAsSent
PROPERTIES
  KeptIfRegular
  ServerReturns
