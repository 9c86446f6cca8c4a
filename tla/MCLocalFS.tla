----------------------------- MODULE MCLocalFS -----------------------------
\* Two updates, a creation, a save and a removal of one package, with one
\* lock failure, one failing write and one crash.
EXTENDS LocalFS, TLC

Symmetry == Permutations(Updaters) \cup Permutations(Creators)
=============================================================================
