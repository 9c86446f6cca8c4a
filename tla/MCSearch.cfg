SPECIFICATION SearchSpec
CONSTANTS
    p = p
    q = q
    s = s
    Package = {p, q, s}
    Scope <- MCScope
    NoScope = NoScope
    scope = scope
    Storage <- MCStorage
    Root = root
    store = store
    Matching = {q, s}
    Uplink = {u1, u2}
    Offers <- MCOffers
    Capacity = 32
    MaxChanges = 2
INVARIANTS
    SearchComplete
    
PROPERTY
    SearchEnds
