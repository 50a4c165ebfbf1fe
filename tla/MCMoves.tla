------------------------------- MODULE MCMoves -------------------------------
EXTENDS MovesInv
Symmetric == Permutations(Var)
==============================================================================
