------------------------------- MODULE MCAuth -------------------------------
\* Requests of two users, one of whom the directory knows: the plugins in every
\* order that matters, and a package with an entry of its own, one with an entry
\* that leaves things unsaid, and one with none.
EXTENDS Auth, TLC

MCGroup == {"all", "authenticated", "anonymous", "staff"} \cup User

MCChains == {<<"custom">>, <<"memory", "custom">>, <<"directory", "memory">>}

Scoped == [pattern |-> {"scoped"}, access |-> {"authenticated"}, publish |-> {"ann"}, unpublish |-> {"bob"}]
Others == [pattern |-> {"scoped", "other"}, access |-> {"all"}, publish |-> {"authenticated"},
           unpublish |-> Undefined]

MCPackageLists == {<<Scoped, Others>>}
=============================================================================
