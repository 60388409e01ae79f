---------------------------- MODULE MCHeartbeat ----------------------------
EXTENDS Heartbeat, TLC
ProcessSymmetry == Permutations(Workers)
=============================================================================
