---------------------------- MODULE MCHciBackend ----------------------------
EXTENDS HciBackend
=============================================================================
