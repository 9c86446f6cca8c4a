--------------------------- MODULE PackageAccess ---------------------------
(***************************************************************************)
(* What the configuration says of a package: config/src/package-access.ts   *)
(* puts the entries into shape, and utils/src/matcher.ts finds the one that *)
(* counts.  The entries are a sequence, for their order decides; a pattern  *)
(* is the set of packages that it matches, and a list of groups is a set.   *)
(***************************************************************************)
EXTENDS Naturals, Sequences

CONSTANTS Package, Group,
          Undefined     \* what the configuration does not say

ASSUME AccessAssumption == \A s \in SUBSET Group : Undefined # s

Actions == {"access", "publish", "unpublish"}

\* An entry as it is written.
Written == [pattern : SUBSET Package, access : (SUBSET Group) \cup {Undefined},
            publish : (SUBSET Group) \cup {Undefined}, unpublish : (SUBSET Group) \cup {Undefined}]

\* normalizeUserList: nothing is the empty list.
NormalizeUserList(list) == IF list = Undefined THEN {} ELSE list

\* normalisePackageAccess: an entry for all other packages is added when there
\* is none, with empty lists.  No rule for unpublish (false) counts as an empty
\* one (handleSpecialUnpublish).
NormalisePackageAccess(packages) ==
    [i \in DOMAIN packages |->
        [packages[i] EXCEPT !.access = NormalizeUserList(@), !.publish = NormalizeUserList(@),
                            !.unpublish = NormalizeUserList(@)]]
    \o (IF \E i \in DOMAIN packages : packages[i].pattern = Package THEN <<>>
        ELSE <<[pattern |-> Package, access |-> {}, publish |-> {}, unpublish |-> {}]>>)

\* getMatchedPackagesSpec: the first one.
GetMatchedPackagesSpec(p, packages) ==
    packages[CHOOSE i \in DOMAIN packages :
        p \in packages[i].pattern /\ \A j \in 1..i - 1 : p \notin packages[j].pattern]
=============================================================================
