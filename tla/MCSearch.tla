------------------------------ MODULE MCSearch ------------------------------
\* Three packages: in the storage, under a scope, and under a scope in a storage
\* of its own; and two uplinks, one of which may send a name twice.
EXTENDS Search, TLC

CONSTANTS p, q, s, scope, store

MCStorage == (p :> Root) @@ (q :> Root) @@ (s :> store)
MCScope == (p :> NoScope) @@ (q :> scope) @@ (s :> scope)

MCOffers == {<<>>, <<p, s, p>>}
=============================================================================
