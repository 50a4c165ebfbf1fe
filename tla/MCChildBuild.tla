----------------------------- MODULE MCChildBuild ----------------------------
EXTENDS ChildBuild, TLC
Symmetric == Permutations(Launch)
==============================================================================
