CONSTANTS
  Names = {a, b, c}
  MaxNodes = 7

SPECIFICATION Spec
CHECK_DEADLOCK FALSE
SYMMETRY Symmetry

INVARIANTS
  TypeOK
  CountIsLength
  OperationsAgree
