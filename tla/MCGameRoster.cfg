CONSTANT
  Names = {a, b, c}

SPECIFICATION TurnsSpec
CHECK_DEADLOCK FALSE

PROPERTIES
  TakesTurns
  EveryoneDraws
