SPECIFICATION Spec
CONSTANTS
  f1 = f1
  f2 = f2
  f3 = f3
  f4 = f4
  File = {f1, f2, f3, f4}
  MaxImports = 6
SYMMETRY Symmetry
INVARIANT CyclesFound
INVARIANT DepthBounded
INVARIANT IndependentFirst
CHECK_DEADLOCK FALSE
