--------------------------- MODULE MCProcessView ---------------------------
EXTENDS ProcessView, TLC
Symmetry == Permutations(Supervisors)
=============================================================================
