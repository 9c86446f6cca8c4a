--------------------------- MODULE MCLocalStorage ---------------------------
\* One package with two versions, and one or two requests of each kind: at most
\* MaxRequests of them take part, one less when two of them are of one kind, when
\* the package is removed or when something fails.
EXTENDS LocalStorage, FiniteSets, TLC

CONSTANT MaxRequests

Started == {r \in Req : pc[r] # "idle"}
Plain == Alone(Creators) /\ Alone(Changers) /\ Started \cap Removers = {} /\ faults = 0
Few == Cardinality(Started) <= IF Plain THEN MaxRequests ELSE MaxRequests - 1

Symmetry == Permutations(Creators) \cup Permutations(Changers)
=============================================================================
