---------------------------- MODULE MCImportGraph ----------------------------
EXTENDS ImportGraph, TLC

CONSTANTS f1, f2, f3, f4

Symmetry == Permutations(File)
=============================================================================
