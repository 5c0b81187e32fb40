---------------------------- MODULE MCServerLocks ----------------------------
EXTENDS ServerLocks
=============================================================================
