-------------------------- MODULE MCLocalDatabase --------------------------
\* Two packages and three calls of _sync at once.
EXTENDS LocalDatabase, TLC

Symmetry == Permutations(Listed) \cup Permutations(SyncCall)
=============================================================================
