CONSTANTS
  Programs <- ExpressionPrograms
SPECIFICATION Spec
INVARIANT ReadAsWritten
CHECK_DEADLOCK FALSE
