---------------------------- MODULE MCGattHandles ----------------------------
EXTENDS GattHandles, TLC

Symmetry == Permutations(Clients)
=============================================================================
