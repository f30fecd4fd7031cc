----------------------------- MODULE MCBacklog -----------------------------
EXTENDS Backlog, TLC

Symmetry == Permutations(Handles)
=============================================================================
