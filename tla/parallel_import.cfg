SPECIFICATION Spec
CONSTANTS
    first = first
    shared = shared
    broken = broken
    Lab = Lab
    Build = {b1, b2}
    File <- MCFile
    Imports <- MCImports
    Unreadable = {broken}
    Threads = 2
    OnPool = TRUE
INVARIANT CompleteUnlessEarly
INVARIANT PushedOnce
PROPERTY WaitReturns
\* the system stops when the imports have ended, and when the pool is exhausted
CHECK_DEADLOCK FALSE
