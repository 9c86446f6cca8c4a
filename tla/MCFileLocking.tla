--------------------------- MODULE MCFileLocking ---------------------------
\* Four interchangeable operations lock one file.
EXTENDS FileLocking, TLC

Symmetry == Permutations(Proc)
=============================================================================
