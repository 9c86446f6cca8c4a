SPECIFICATION Spec
CONSTANTS
    Request = {1, 2}
    Package = {"scoped", "other", "unlisted"}
    Group <- MCGroup
    Undefined = undefined
    User = {"ann", "bob"}
    Password = {1, 2}
    DirUser = "ann"
    DirPassword = 1
    MaxUsers = 1
    MaxOthers = 1
    Chains <- MCChains
    PackageLists <- MCPackageLists
    NoUser = "nobody"
    None = None
INVARIANTS
    IdentityProved
    GrantedByRules
    RefusedNotServed
PROPERTY
    RequestAnswered
