----------------------------- MODULE MCHTPasswd -----------------------------
\* Two registrations, a change of password and two logins of two users, with
\* one accident.
EXTENDS HTPasswd, TLC

Symmetry == Permutations(Adders) \cup Permutations(Logins) \cup Permutations(User)

\* Two logins matter as long as nothing has failed: the property of logins looks
\* no further.
Few == accidents > 0 => Cardinality({l \in Logins : pc[l] # "idle"}) <= 1
=============================================================================
