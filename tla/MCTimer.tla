------------------------------- MODULE MCTimer ------------------------------
EXTENDS Timer

Symmetry == Permutations(Timer)
=============================================================================
