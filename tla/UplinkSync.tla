----------------------------- MODULE UplinkSync -----------------------------
(***************************************************************************)
(* store/src/storage.ts: a request for a package (getPackage) or for a new  *)
(* package (addPackage) asks every uplink at once, merges what they answer  *)
(* into the package it read before, and stores the result (updateVersions)  *)
(* over whatever package.json is by then, without the lock.                 *)
(*                                                                          *)
(* A version is represented by where it came from: two registries may have  *)
(* different packages under one version number.  The etag of an uplink is   *)
(* the content it stands for.  Times are left out: an uplink that was asked *)
(* before may be fresh or not (maxage).                                     *)
(***************************************************************************)
EXTENDS Integers, FiniteSets, FiniteSetsExt

CONSTANTS
    Uplink,
    Getters,        \* requests that call getPackage
    Creators,       \* requests that call addPackage
    Version,        \* numbered in semver order
    AllowOffline,   \* publish.allow_offline
    Local,          \* a version that a client published here
    Bad,            \* a tag of an uplink that is no version
    None, NoPkg,    \* nothing; no package
    MaxChanges,     \* bound: publications and removals, here and at the uplinks
    MaxFaults       \* bound: uplinks that fail or time out, and failing writes

Req == Getters \cup Creators
Origin == Uplink \cup {Local}

ASSUME VersionAssumption == Version \subseteq Nat /\ IsFiniteSet(Version)
ASSUME UplinkAssumption == IsFiniteSet(Uplink) /\ IsFiniteSet(Req) /\ AllowOffline \in BOOLEAN
ASSUME MarkAssumption ==
    /\ Local \notin Uplink /\ None \notin Origin \cup Version \cup {Bad}
    /\ Bad \notin Version /\ None \notin Req

VARIABLES
    remote,     \* the package at each uplink, or NoPkg
    local,      \* package.json, or NoPkg
    pc,         \* the progress of each request
    mem,        \* the package each request holds in memory
    found,      \* the requests that know the package to exist
    result,     \* what came of asking each uplink
    reply,      \* the answers of the uplinks that have not arrived yet
    answer,     \* how each request was answered
    published,  \* history: the versions that were published here
    withdrawn,  \* the versions that were unpublished here
    lost,       \* an unlocked write replaced what another had just written
    changes, faults

outside == <<remote, published, withdrawn, changes>>
vars == <<outside, local, pc, mem, found, result, reply, answer, lost, faults>>

\* What an uplink serves: its versions and the tag "latest".
Content == [versions : (SUBSET Version) \ {{}}, latest : Version \cup {Bad}]

\* package.json: the origin of each version, the tag "latest", and the content
\* of each uplink (_uplinks[..].etag) that was merged last.
Package ==
    [versions : [Version -> Origin \cup {None}],
     latest   : Version \cup {Bad, None},
     etag     : [Uplink -> Content \cup {None}]]

ASSUME PackageAssumption == None \notin Content /\ NoPkg \notin Package

\* generatePackageTemplate.
Template ==
    [versions |-> [v \in Version |-> None], latest |-> None, etag |-> [u \in Uplink |-> None]]

Known(p) == {v \in Version : p.versions[v] # None}

\* normalizePackage: the highest version is the latest where there is none, and
\* a tag that is no version is dropped.
Normalize(p) ==
    IF p.latest = None /\ Known(p) # {} THEN [p EXCEPT !.latest = Max(Known(p))]
    ELSE IF p.latest = Bad THEN [p EXCEPT !.latest = None]
    ELSE p

Results == {"asked", "fresh", "merged", "unchanged", "missing", "failed", "timeout"}
Answers == {"none", "found", "created", "conflict", "missing", "unavailable", "error"}

TypeOK ==
    /\ remote \in [Uplink -> Content \cup {NoPkg}]
    /\ local \in Package \cup {NoPkg}
    /\ pc \in [Req -> {"idle", "waiting", "saving", "creating", "done"}]
    /\ mem \in [Req -> Package \cup {NoPkg}]
    /\ found \subseteq Req
    /\ result \in [Req -> UNION {[asked -> Results] : asked \in SUBSET Uplink}]
    /\ reply \in [Req -> [Uplink -> Content \cup {None}]]
    /\ answer \in [Req -> Answers]
    /\ published \subseteq Version /\ withdrawn \subseteq Version
    /\ lost \in BOOLEAN /\ changes \in Nat /\ faults \in Nat

\* The uplinks have the package or not; the registry begins empty.
Init ==
    /\ remote \in [Uplink -> {NoPkg} \cup {c \in Content : c.latest \in c.versions /\ Cardinality(c.versions) = 1}]
    /\ local = NoPkg
    /\ pc = [r \in Req |-> "idle"] /\ mem = [r \in Req |-> NoPkg]
    /\ found = {} /\ result = [r \in Req |-> [u \in {} |-> "asked"]]
    /\ reply = [r \in Req |-> [u \in Uplink |-> None]]
    /\ answer = [r \in Req |-> "none"]
    /\ published = {} /\ withdrawn = {} /\ lost = FALSE /\ changes = 0 /\ faults = 0

Goto(r, s) == pc' = [pc EXCEPT ![r] = s]
Answer(r, a) == Goto(r, "done") /\ answer' = [answer EXCEPT ![r] = a]

\* package.json becomes p: a request that has read it to write it back loses p.
Written(r, p) ==
    /\ local' = p
    /\ lost' = (lost \/ \E q \in Req \ {r} : pc[q] = "saving")

-----------------------------------------------------------------------------
(* What happens besides the requests *)

\* npm publish at an uplink, perhaps with another tag than "latest", or a tag
\* that is no version.
RemotePublish(u, v) ==
    /\ changes < MaxChanges /\ changes' = changes + 1
    /\ LET old == IF remote[u] = NoPkg THEN {} ELSE remote[u].versions IN
       /\ v \notin old
       /\ \E t \in {v, Bad} \cup (IF old = {} THEN {} ELSE {remote[u].latest}) :
             remote' = [remote EXCEPT ![u] = [versions |-> old \cup {v}, latest |-> t]]
    /\ UNCHANGED <<published, withdrawn, local, pc, mem, found, result, reply, answer, lost, faults>>

\* npm publish here (LocalStorage) of a version that never was there.
Publish(v) ==
    /\ changes < MaxChanges /\ changes' = changes + 1
    /\ local # NoPkg /\ local.versions[v] = None /\ v \notin withdrawn
    /\ Written(None, [local EXCEPT !.versions[v] = Local, !.latest = v])
    /\ published' = published \cup {v}
    /\ UNCHANGED <<remote, withdrawn, pc, mem, found, result, reply, answer, faults>>

\* npm unpublish of a version here: it goes, and with it the tag on it.
Unpublish(v) ==
    /\ changes < MaxChanges /\ changes' = changes + 1
    /\ local # NoPkg /\ local.versions[v] # None
    /\ Written(None, Normalize([local EXCEPT !.versions[v] = None,
                                             !.latest = IF @ = v THEN None ELSE @]))
    /\ withdrawn' = withdrawn \cup {v}
    /\ UNCHANGED <<remote, published, pc, mem, found, result, reply, answer, faults>>

\* npm unpublish --force here.
Remove ==
    /\ changes < MaxChanges /\ changes' = changes + 1
    /\ local # NoPkg
    /\ Written(None, NoPkg)
    /\ withdrawn' = withdrawn \cup Known(local)
    /\ UNCHANGED <<remote, published, pc, mem, found, result, reply, answer, faults>>

-----------------------------------------------------------------------------
(* getPackage, addPackage and _syncUplinksMetadata *)

\* The requests to the uplinks go out together.  An uplink that was asked less
\* than maxage ago is skipped.
Ask(r, p, asked) ==
    /\ mem' = [mem EXCEPT ![r] = p]
    /\ \E fresh \in SUBSET {u \in asked : p.etag[u] # None} :
          result' = [result EXCEPT ![r] = [u \in asked |-> IF u \in fresh THEN "fresh" ELSE "asked"]]
    /\ Goto(r, "waiting")

\* getPackage: the package is read; uplinksLook says whether to ask at all.
Get(g) ==
    /\ pc[g] = "idle"
    /\ \E asked \in {{}, Uplink} : Ask(g, IF local = NoPkg THEN Template ELSE Normalize(local), asked)
    /\ found' = IF local = NoPkg THEN found ELSE found \cup {g}
    /\ UNCHANGED <<outside, local, reply, answer, lost, faults>>

\* checkPackageLocal: a package that is here is a conflict.
CheckPackageLocal(c) ==
    /\ pc[c] = "idle" /\ local # NoPkg
    /\ Answer(c, "conflict")
    /\ UNCHANGED <<outside, local, mem, found, result, reply, lost, faults>>

\* addPackage: where there is none the uplinks are asked (checkPackageRemote).
Add(c) ==
    /\ pc[c] = "idle" /\ local = NoPkg
    /\ Ask(c, Template, Uplink)
    /\ UNCHANGED <<outside, local, found, reply, answer, lost, faults>>

\* The package cannot be read: nobody is asked.
Unreadable(r) ==
    /\ pc[r] = "idle"
    /\ faults < MaxFaults /\ faults' = faults + 1
    /\ Answer(r, "error")
    /\ UNCHANGED <<outside, local, mem, found, result, reply, lost>>

Awaits(r, u) == pc[r] = "waiting" /\ u \in DOMAIN result[r] /\ result[r][u] = "asked"
Result(r, u, x) == result' = [result EXCEPT ![r][u] = x]

\* The uplink answers 404, 304 (the etag still stands) or with the package.
Serve(r, u) ==
    /\ Awaits(r, u) /\ reply[r][u] = None
    /\ IF remote[u] = NoPkg THEN Result(r, u, "missing") /\ UNCHANGED reply
       ELSE IF remote[u] = mem[r].etag[u] THEN Result(r, u, "unchanged") /\ UNCHANGED reply
       ELSE reply' = [reply EXCEPT ![r][u] = remote[u]] /\ UNCHANGED result
    /\ UNCHANGED <<outside, local, pc, mem, found, answer, lost, faults>>

\* The uplink is offline, answers with an error or with something that is not
\* the package, or does not answer in time.
Fail(r, u) ==
    /\ Awaits(r, u)
    /\ faults < MaxFaults /\ faults' = faults + 1
    /\ reply' = [reply EXCEPT ![r][u] = None]
    /\ \E x \in {"failed", "timeout"} : Result(r, u, x)
    /\ UNCHANGED <<outside, local, pc, mem, found, answer, lost>>

\* semver.lte throws at a tag that is no version.
Throws(p, c) == p.latest \notin {None, c.latest} /\ Bad \in {p.latest, c.latest}

\* Mutant: a tag that is there stays.
LaterKept(p, c) == IF p.latest = None THEN c.latest ELSE p.latest

Later(p, c) ==
    CASE p.latest \in {None, c.latest} -> c.latest
      [] Throws(p, c)                  -> p.latest
      [] OTHER                         -> Max({p.latest, c.latest})

\* updateVersionsHiddenUpLink: each version is marked with its uplink.
UpdateVersionsHiddenUpLink(versions, u) == [v \in versions |-> u]

\* Mutant: versions below the latest one are left out.
MergeVersionsNew(p, u, c) ==
    [versions |-> [v \in Version |-> IF p.versions[v] = None /\ v \in c.versions /\ v >= Max(c.versions)
                                     THEN u ELSE p.versions[v]],
     latest   |-> Later(p, c),
     etag     |-> [p.etag EXCEPT ![u] = c]]

\* The new etag, then mergeVersions: a version that is there stays what it is,
\* and the tag moves upwards only.
MergeVersions(p, u, c) ==
    [versions |-> [v \in Version |-> IF p.versions[v] = None /\ v \in c.versions
                                     THEN UpdateVersionsHiddenUpLink(c.versions, u)[v] ELSE p.versions[v]],
     latest   |-> Later(p, c),
     etag     |-> [p.etag EXCEPT ![u] = c]]

\* Mutant: an uplink that has the package does not make it found.
ArriveUnfound(r, u) ==
    LET c == reply[r][u] IN
    /\ c # None
    /\ mem' = [mem EXCEPT ![r] = MergeVersions(@, u, c)]
    /\ Result(r, u, "merged")
    /\ reply' = [reply EXCEPT ![r][u] = None]
    /\ UNCHANGED <<outside, local, pc, found, answer, lost, faults>>

\* The answer arrives.  When the merge throws, the etag and the versions are
\* kept and the uplink counts as one that failed.
Arrive(r, u) ==
    LET c == reply[r][u] IN
    /\ c # None
    /\ mem' = [mem EXCEPT ![r] = MergeVersions(@, u, c)]
    /\ IF Throws(mem[r], c)
       THEN Result(r, u, "failed") /\ UNCHANGED found
       ELSE Result(r, u, "merged") /\ found' = found \cup {r}
    /\ reply' = [reply EXCEPT ![r][u] = None]
    /\ UNCHANGED <<outside, local, pc, answer, lost, faults>>

Settled(r) == pc[r] = "waiting" /\ \A u \in DOMAIN result[r] : result[r][u] # "asked"
Got(r, x) == \E u \in DOMAIN result[r] : result[r][u] = x

\* Nobody has the package.  A new one may be published if every uplink said so,
\* or without those that failed under allow_offline; one that timed out makes
\* the answer 503 before allow_offline is looked at.
Nowhere(r) ==
    /\ Settled(r) /\ r \notin found
    /\ IF Got(r, "timeout") THEN Answer(r, "unavailable")
       ELSE IF r \in Getters THEN Answer(r, "missing")
       ELSE IF Got(r, "failed") /\ ~AllowOffline THEN Answer(r, "unavailable")
       ELSE Goto(r, "creating") /\ UNCHANGED answer
    /\ UNCHANGED <<outside, local, mem, found, result, reply, lost, faults>>

\* Without uplinks the package is what was read.
Unasked(r) ==
    /\ Settled(r) /\ r \in found /\ DOMAIN result[r] = {}
    /\ Answer(r, "found")
    /\ UNCHANGED <<outside, local, mem, found, result, reply, lost, faults>>

\* Mutant: the versions that were merged replace those of the file.
UpdateVersionsAll(p, q) ==
    [versions |-> [v \in Version |-> IF q.versions[v] = None THEN p.versions[v] ELSE q.versions[v]],
     latest   |-> IF q.latest = None THEN p.latest ELSE q.latest,
     etag     |-> [u \in Uplink |-> IF q.etag[u] = None THEN p.etag[u] ELSE q.etag[u]]]

\* updateVersions: the versions of q that the file p has not; the tags and the
\* etags of q in place of those of p.
UpdateVersions(p, q) ==
    [versions |-> [v \in Version |-> IF p.versions[v] = None THEN q.versions[v] ELSE p.versions[v]],
     latest   |-> IF q.latest = None THEN p.latest ELSE q.latest,
     etag     |-> [u \in Uplink |-> IF q.etag[u] = None THEN p.etag[u] ELSE q.etag[u]]]

\* A getter that found the package gets it, a creator is refused.
Found(r) == Answer(r, IF r \in Getters THEN "found" ELSE "conflict")

\* package.json is read again, without the lock.  Where nothing was merged it
\* is written only if another time stands in it.
Load(r) ==
    LET p == IF local = NoPkg THEN Template ELSE Normalize(local)
        q == UpdateVersions(p, mem[r]) IN
    /\ Settled(r) /\ r \in found /\ DOMAIN result[r] # {}
    /\ mem' = [mem EXCEPT ![r] = q]
    /\ \/ Goto(r, "saving") /\ UNCHANGED answer
       \/ q = p /\ ~Got(r, "merged") /\ ~Got(r, "unchanged") /\ Found(r)
    /\ UNCHANGED <<outside, local, found, result, reply, lost, faults>>

Save(r) ==
    /\ pc[r] = "saving"
    /\ Written(r, mem[r])
    /\ Found(r)
    /\ UNCHANGED <<outside, mem, found, result, reply, faults>>

SaveFail(r) ==
    /\ pc[r] = "saving"
    /\ faults < MaxFaults /\ faults' = faults + 1
    /\ Answer(r, "error")
    /\ UNCHANGED <<outside, local, mem, found, result, reply, lost>>

\* publishPackage: an empty package is created, unless there is one by now.
Create(c) ==
    /\ pc[c] = "creating"
    /\ IF local = NoPkg
       THEN Written(c, Template) /\ Answer(c, "created")
       ELSE Answer(c, "conflict") /\ UNCHANGED <<local, lost>>
    /\ UNCHANGED <<outside, mem, found, result, reply, faults>>

-----------------------------------------------------------------------------
\* Every request was answered.
Finished == (\A r \in Req : pc[r] = "done") /\ UNCHANGED vars

Work(r) == Nowhere(r) \/ Unasked(r) \/ Load(r) \/ Save(r) \/ Create(r)

Next ==
    \/ \E v \in Version : (\E u \in Uplink : RemotePublish(u, v)) \/ Publish(v) \/ Unpublish(v)
    \/ Remove
    \/ \E g \in Getters : Get(g)
    \/ \E c \in Creators : CheckPackageLocal(c) \/ Add(c)
    \/ \E r \in Req : Unreadable(r)
    \/ \E r \in Req, u \in Uplink : Serve(r, u) \/ Fail(r, u) \/ Arrive(r, u)
    \/ \E r \in Req : Work(r) \/ SaveFail(r)
    \/ Finished

Spec == Init /\ [][Next]_vars

-----------------------------------------------------------------------------
\* A package with the etag of an uplink has the versions that came with it, but
\* for those unpublished here: the uplink would answer 304 and never send them
\* again.  The file and the answers may not break it, whatever is written over
\* them.
Honest(p) ==
    \A u \in Uplink : p.etag[u] # None => p.etag[u].versions \subseteq Known(p) \cup withdrawn

EtagHonest ==
    /\ local # NoPkg => Honest(local)
    /\ \A r \in Req : answer[r] = "found" => Honest(mem[r])

\* Two requests never get different packages under one version number, though
\* the uplinks have different ones: unless an unlocked write was overtaken.
SameForAll ==
    \A r, s \in Req : answer[r] = "found" /\ answer[s] = "found" /\ ~lost =>
        \A v \in (Known(mem[r]) \cap Known(mem[s])) \ withdrawn :
            mem[r].versions[v] = mem[s].versions[v]

\* Nobody is told that there is no such package after an uplink sent it, in
\* whole or in part, and no package is created beside it.
NotFoundHonest ==
    \A r \in Req : answer[r] \in {"missing", "unavailable", "created"} =>
        Known(mem[r]) = {} /\ \A u \in Uplink : mem[r].etag[u] = None

\* Nobody ever published or unpublished here, and every uplink had the package
\* and a proper tag for every request.
Undisturbed ==
    /\ published = {} /\ withdrawn = {}
    /\ \A u \in Uplink : local.etag[u] # None => local.etag[u].latest # Bad
    /\ \A r \in Req : ~Got(r, "missing") /\ ~Got(r, "failed") /\ ~Got(r, "timeout")

\* The tag is not below that of a content whose etag is in the file, also when
\* requests that read the file at different times store what they merged.
LatestFollows ==
    local # NoPkg /\ Undisturbed =>
        \A u \in Uplink : local.etag[u] # None =>
            local.latest # None /\ local.latest >= local.etag[u].latest
=============================================================================
