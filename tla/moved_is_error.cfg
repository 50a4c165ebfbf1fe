SPECIFICATION Spec
CONSTANTS
  Var = {a, b}
  NoVar = NoVar
  MaxStatements = 4
SYMMETRY Symmetric
CHECK_DEADLOCK FALSE
INVARIANT MovedIsError
