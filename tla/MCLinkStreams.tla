---------------------------- MODULE MCLinkStreams ----------------------------
EXTENDS LinkStreams, TLC
=============================================================================
