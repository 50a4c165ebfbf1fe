SPECIFICATION Spec
CONSTANTS
  Var = {a, b}
  NoVar = NoVar
  MaxStatements = 5
SYMMETRY Symmetric
CHECK_DEADLOCK FALSE
INVARIANT CheckerRemembers
INVARIANT NoMovedUse
INVARIANT NoLeak
INVARIANT FlagsTruthful
