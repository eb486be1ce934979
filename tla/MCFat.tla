------------------------------- MODULE MCFat -------------------------------
EXTENDS Fat, TLC

Symmetry == Permutations(Files)
=============================================================================
