--------------------------- MODULE MCAppleCentral ---------------------------
EXTENDS AppleCentral
=============================================================================
