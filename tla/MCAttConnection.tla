--------------------------- MODULE MCAttConnection ---------------------------
EXTENDS AttConnection, TLC

Symmetry == Permutations(Requesters)
=============================================================================
