---------------------------- MODULE MCUplinkSync ----------------------------
\* Two requests for a package and one for a new package, over two uplinks.
EXTENDS UplinkSync, TLC

Symmetry == Permutations(Getters) \cup Permutations(Uplink)
=============================================================================
