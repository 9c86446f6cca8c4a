-------------------------- MODULE MCObjectStorage --------------------------
\* Calls of three clients on one package, on each plugin.
EXTENDS ObjectStorage, TLC
=============================================================================
