---------------------------- MODULE LocalStorage ----------------------------
(***************************************************************************)
(* store/src/local-storage.ts: what the requests of npm clients and of the  *)
(* uplinks do to one package: its metadata (package.json), its tarballs and *)
(* its place in the private list of the storage plugin.                     *)
(*                                                                          *)
(* Updates of package.json exclude each other (LocalFS, while no lock is    *)
(* refused): one is split in two steps, the lock, the read and the handler, *)
(* then the write and the unlocking, because updateVersions, addPackage and *)
(* removePackage write in between without asking for the lock.              *)
(*                                                                          *)
(* The REST handlers that call this class are not in the repository.  Each  *)
(* client does what npm does: publish uploads the tarball, then adds the    *)
(* version; unpublish reads the metadata, puts it back without the version, *)
(* then removes the tarball; unpublish --force removes the package.         *)
(***************************************************************************)
EXTENDS Integers, FiniteSets, FiniteSetsExt

CONSTANTS
    Creators,       \* npm publish of a package that is not there yet
    Publishers,     \* npm publish of one more version
    Taggers,        \* npm dist-tag add / rm
    Changers,       \* npm unpublish of one version
    Syncers,        \* answers of the uplinks, stored by updateVersions
    Removers,       \* npm unpublish --force
    Version,        \* versions, numbered in semver order
    Tag,            \* dist-tags besides "latest"
    None, NoPkg,    \* nothing; no package.json
    Remote,         \* stands for the uplink in place of a client
    MaxFaults       \* bound: failing writes and unlinks

Clients == Creators \cup Publishers
Req == Clients \cup Taggers \cup Changers \cup Syncers \cup Removers
Tags == {"latest"} \cup Tag

ASSUME VersionAssumption == Version \subseteq Nat /\ IsFiniteSet(Version)
ASSUME RequestAssumption ==
    /\ Clients \cap (Taggers \cup Changers \cup Syncers \cup Removers) = {}
    /\ Taggers \cap (Changers \cup Syncers \cup Removers) = {}
    /\ Changers \cap (Syncers \cup Removers) = {} /\ Syncers \cap Removers = {}
ASSUME MarkAssumption ==
    None \notin Req \cup Version \cup {Remote} /\ Remote \notin Clients

VARIABLES
    pkg,        \* package.json, or NoPkg
    dir,        \* the package folder exists
    tar,        \* the tarball of each version on disk, by the client that sent it
    listed,     \* the package is in the private list
    holder,     \* the request that holds the lock of package.json
    pc,         \* the progress of each request
    arg,        \* the version each request is about
    mem,        \* the package each request holds in memory
    acked,      \* the requests answered with success
    overlaps,   \* the versions whose tarball two clients were sending at once
    faults

vars == <<pkg, dir, tar, listed, holder, pc, arg, mem, acked, overlaps, faults>>

\* versions: who published each; tags: the dist-tags; files: _attachments, the
\* shasum each tarball was recorded with.  A shasum is the client it came from.
Package ==
    [versions : [Version -> Clients \cup {None, Remote}],
     tags     : [Tags -> Version \cup {None}],
     files    : [Version -> Clients \cup {None}]]

ASSUME PackageAssumption == NoPkg \notin Package

\* generatePackageTemplate.
Template ==
    [versions |-> [v \in Version |-> None],
     tags     |-> [t \in Tags |-> None],
     files    |-> [v \in Version |-> None]]

Exists == pkg # NoPkg
Known(p) == {v \in Version : p.versions[v] # None}

\* normalizeDistTags: without a latest, the highest version is the latest.
Normalize(p) ==
    IF p.tags["latest"] = None /\ Known(p) # {}
    THEN [p EXCEPT !.tags["latest"] = Max(Known(p))]
    ELSE p

Holding == {"recording", "adding", "tagging", "changing", "detaching"}
Stage ==
    Holding \cup {"idle", "creating", "ready", "sending", "stored", "recorded", "fetched", "changed",
                 "detached", "saving", "deleting", "rmdir", "unanswered", "done"}

TypeOK ==
    /\ pkg \in {NoPkg} \cup Package
    /\ dir \in BOOLEAN /\ listed \in BOOLEAN
    /\ tar \in [Version -> Clients \cup {None}]
    /\ holder \in Req \cup {None}
    /\ pc \in [Req -> Stage]
    /\ arg \in [Req -> Version \cup {None}]
    /\ mem \in [Req -> {NoPkg} \cup Package]
    /\ acked \subseteq Req /\ overlaps \subseteq Version /\ faults \in Nat

Init ==
    /\ pkg \in {NoPkg, Template} /\ dir = (pkg = Template)
    /\ tar = [v \in Version |-> None]
    /\ listed = FALSE /\ holder = None
    /\ pc = [r \in Req |-> "idle"] /\ arg = [r \in Req |-> None]
    /\ mem = [r \in Req |-> NoPkg]
    /\ acked = {} /\ overlaps = {} /\ faults = 0

Goto(r, s) == pc' = [pc EXCEPT ![r] = s]

-----------------------------------------------------------------------------
(* _updatePackage: one at a time *)

\* The handler of r turned the package into p; the write is to come.
Enter(r, p, s) ==
    /\ holder = None /\ Exists
    /\ holder' = r
    /\ mem' = [mem EXCEPT ![r] = Normalize(p)]
    /\ Goto(r, s)
    /\ UNCHANGED <<pkg, dir, tar, arg, acked, overlaps, faults>>

\* The handler of r refuses, or there is no package: nothing is written.
Refuse(r) ==
    /\ Goto(r, "done")
    /\ UNCHANGED <<pkg, dir, tar, listed, holder, arg, mem, acked, overlaps, faults>>

\* The next stage of a request once its update is written.
AfterCommit == [recording |-> "recorded", adding |-> "done", tagging |-> "done",
                changing |-> "changed", detaching |-> "detached"]

Commit(r) ==
    /\ holder = r
    /\ pkg' = mem[r] /\ holder' = None
    /\ dir' = TRUE
    /\ Goto(r, AfterCommit[pc[r]])
    /\ acked' = IF pc'[r] = "done" THEN acked \cup {r} ELSE acked
    /\ UNCHANGED <<tar, listed, arg, mem, overlaps, faults>>

\* The write fails, or storagePlugin.add does: the request is answered with an
\* error, and what the handler did outside package.json stays.
CommitFail(r) ==
    /\ holder = r /\ faults < MaxFaults
    /\ faults' = faults + 1
    /\ holder' = None
    /\ Goto(r, "done")
    /\ UNCHANGED <<pkg, dir, tar, listed, arg, mem, acked, overlaps>>

-----------------------------------------------------------------------------
(* npm publish: addPackage, addTarball, addVersion *)

\* createPackage finds no folder; the exclusive open fails and is ignored.
CreateBegin(c) ==
    /\ pc[c] = "idle" /\ c \in Creators
    /\ Goto(c, IF Exists THEN "ready" ELSE "creating")
    /\ UNCHANGED <<pkg, dir, tar, listed, holder, arg, mem, acked, overlaps, faults>>

\* addPackage answers a write that fails with success, too: the client goes on,
\* without a package and maybe without a folder.  (The empty package.json that
\* the open may leave is LocalFS's: it cannot be read either.)
CreateWrite(c) ==
    /\ pc[c] = "creating"
    /\ \/ pkg' = Template /\ dir' = TRUE /\ UNCHANGED faults
       \/ faults < MaxFaults /\ faults' = faults + 1 /\ dir' \in {dir, TRUE} /\ UNCHANGED pkg
    /\ Goto(c, "ready")
    /\ UNCHANGED <<tar, listed, holder, arg, mem, acked, overlaps>>

Sending(v) == {c \in Clients : pc[c] = "sending" /\ arg[c] = v}

\* Mutant: fs.access is not asked whether the tarball is there.
UploadAnyway(c, v) ==
    /\ pc[c] = "ready" \/ (pc[c] = "idle" /\ c \notin Creators)
    /\ arg' = [arg EXCEPT ![c] = v]
    /\ overlaps' = IF Sending(v) # {} THEN overlaps \cup {v} ELSE overlaps
    /\ Goto(c, "sending")
    /\ UNCHANGED <<pkg, dir, tar, listed, holder, mem, acked, faults>>

\* writeTarball: a tarball that is already there is a conflict, a folder that
\* is not there an error; else a temporary file takes what the client sends.
Upload(c, v) ==
    /\ \/ pc[c] = "ready"
       \/ pc[c] = "idle" /\ c \notin Creators
    /\ arg' = [arg EXCEPT ![c] = v]
    /\ IF dir /\ tar[v] = None
       THEN /\ Goto(c, "sending")
            /\ overlaps' = IF Sending(v) # {} THEN overlaps \cup {v} ELSE overlaps
       ELSE Goto(c, "done") /\ UNCHANGED overlaps
    /\ UNCHANGED <<pkg, dir, tar, listed, holder, mem, acked, faults>>

\* Mutant: what the client sent so far is put in place.
AbortStores(c) ==
    /\ pc[c] = "sending"
    /\ tar' = [tar EXCEPT ![arg[c]] = c]
    /\ Goto(c, "done")
    /\ UNCHANGED <<pkg, dir, listed, holder, arg, mem, acked, overlaps, faults>>

\* The client goes away, or sent nothing: abort removes the temporary file.
Abort(c) == pc[c] = "sending" /\ Refuse(c)

\* done(): the temporary file is renamed, over whatever is there by now.
Store(c) ==
    /\ pc[c] = "sending"
    /\ tar' = [tar EXCEPT ![arg[c]] = c]
    /\ Goto(c, "stored")
    /\ UNCHANGED <<pkg, dir, listed, holder, arg, mem, acked, overlaps, faults>>

\* 'success': the shasum is recorded in _attachments.  Without a package the
\* tarball stays where it is.
Record(c) ==
    /\ pc[c] = "stored" /\ holder = None
    /\ IF Exists
       THEN Enter(c, [pkg EXCEPT !.files[arg[c]] = c], "recording") /\ UNCHANGED listed
       ELSE Refuse(c)

\* Mutant: a version that is there is replaced.
AddVersionAgain(c, t) ==
    LET v == arg[c] IN
    /\ pc[c] = "recorded"
    /\ Enter(c, [pkg EXCEPT !.versions[v] = c, !.tags[t] = v], "adding")
    /\ listed' = TRUE

\* addVersion: the version must be new, and the shasum the client announces the
\* recorded one.  The package is listed before package.json is written.
AddVersion(c, t) ==
    LET v == arg[c] IN
    /\ pc[c] = "recorded" /\ holder = None
    /\ IF Exists /\ pkg.versions[v] = None /\ pkg.files[v] \in {None, c}
       THEN /\ Enter(c, [pkg EXCEPT !.versions[v] = c, !.tags[t] = v], "adding")
            /\ listed' = TRUE
       ELSE Refuse(c)

-----------------------------------------------------------------------------
(* npm dist-tag: mergeTags *)

\* A version that is not there is refused; no version removes the tag.
MergeTags(g, t, v) ==
    /\ pc[g] = "idle" /\ holder = None
    /\ IF Exists /\ (v = None \/ pkg.versions[v] # None)
       THEN Enter(g, [pkg EXCEPT !.tags[t] = v], "tagging") /\ UNCHANGED listed
       ELSE Refuse(g)

-----------------------------------------------------------------------------
(* npm unpublish <name>@<version>: changePackage, removeTarball *)

\* The client reads the package, and takes the version and its tags out.
Fetch(x, v) ==
    /\ pc[x] = "idle" /\ Exists /\ pkg.versions[v] # None
    /\ arg' = [arg EXCEPT ![x] = v]
    /\ mem' = [mem EXCEPT ![x] =
                  Normalize([pkg EXCEPT !.versions[v] = None,
                                        !.tags = [t \in Tags |-> IF @[t] = v THEN None ELSE @[t]]])]
    /\ Goto(x, "fetched")
    /\ UNCHANGED <<pkg, dir, tar, listed, holder, acked, overlaps, faults>>

\* Mutant: the tags that are there stay.
ChangeKeepsTags(x) ==
    /\ pc[x] = "fetched"
    /\ Enter(x, [pkg EXCEPT !.versions =
                     [v \in Version |-> IF mem[x].versions[v] = None THEN None ELSE @[v]]], "changing")
    /\ UNCHANGED listed

\* changePackage: the versions the client did not send back go, its tags
\* replace the others.  The revision is not looked at.
Change(x) ==
    /\ pc[x] = "fetched" /\ holder = None
    /\ IF Exists
       THEN /\ Enter(x, [pkg EXCEPT
                           !.versions = [v \in Version |-> IF mem[x].versions[v] = None THEN None ELSE @[v]],
                           !.tags = mem[x].tags], "changing")
            /\ UNCHANGED listed
       ELSE Refuse(x)

\* removeTarball: the attachment goes first ...
Detach(x) ==
    /\ pc[x] = "changed" /\ holder = None
    /\ IF Exists /\ pkg.files[arg[x]] # None
       THEN Enter(x, [pkg EXCEPT !.files[arg[x]] = None], "detaching") /\ UNCHANGED listed
       ELSE Refuse(x)

\* ... and after the unlocking the file.  An error is only logged: the client is
\* told of success, and the file stays.
Unlink(x) ==
    /\ pc[x] = "detached"
    /\ \/ tar' = [tar EXCEPT ![arg[x]] = None] /\ UNCHANGED faults
       \/ faults < MaxFaults /\ faults' = faults + 1 /\ UNCHANGED tar
    /\ acked' = acked \cup {x}
    /\ Goto(x, "done")
    /\ UNCHANGED <<pkg, dir, listed, holder, arg, mem, overlaps>>

-----------------------------------------------------------------------------
(* uplinks: updateVersions *)

\* What an answer with the versions V and the dist-tags T adds to p: the versions
\* p does not have, and every tag.
Merge(p, V, T) ==
    [p EXCEPT !.versions = [v \in Version |-> IF @[v] = None /\ v \in V THEN Remote ELSE @[v]],
              !.tags = [t \in Tags |-> IF T[t] = None THEN @[t] ELSE T[t]]]

\* _readCreatePackage, without the lock.  Without new versions or tags there is
\* something to write only if the readme, the times or _uplinks changed.
Load(s, V, T) ==
    LET old == IF Exists THEN Normalize(pkg) ELSE Template
        new == Merge(old, V, T) IN
    /\ pc[s] = "idle"
    /\ \/ /\ mem' = [mem EXCEPT ![s] = new]
          /\ Goto(s, "saving")
          /\ UNCHANGED <<pkg, dir, tar, listed, holder, arg, acked, overlaps, faults>>
       \/ new = old /\ Refuse(s)

\* _writePackage, without the lock.
Save(s) ==
    /\ pc[s] = "saving"
    /\ pkg' = mem[s] /\ dir' = TRUE
    /\ acked' = acked \cup {s}
    /\ Goto(s, "done")
    /\ UNCHANGED <<tar, listed, holder, arg, mem, overlaps, faults>>

-----------------------------------------------------------------------------
(* npm unpublish --force: removePackage *)

\* The package is read without the lock, and leaves the private list.
RemoveBegin(d) ==
    /\ pc[d] = "idle"
    /\ IF Exists
       THEN /\ mem' = [mem EXCEPT ![d] = pkg]
            /\ listed' = FALSE
            /\ Goto(d, "deleting")
            /\ UNCHANGED <<pkg, dir, tar, holder, arg, acked, overlaps, faults>>
       ELSE Refuse(d)

\* An error below is thrown in a callback nobody waits for: the promise of
\* removePackage neither resolves nor rejects.
Unanswered(d) == Goto(d, "unanswered") /\ UNCHANGED <<pkg, dir, tar, mem, acked>>

\* Each attachment of the package that was read is unlinked ...
RemoveFile(d, v) ==
    /\ pc[d] = "deleting" /\ mem[d].files[v] # None
    /\ IF tar[v] = None
       THEN Unanswered(d)
       ELSE /\ tar' = [tar EXCEPT ![v] = None]
            /\ mem' = [mem EXCEPT ![d].files[v] = None]
            /\ UNCHANGED <<pkg, dir, pc, acked>>
    /\ UNCHANGED <<listed, holder, arg, overlaps, faults>>

\* ... then package.json ...
RemoveJson(d) ==
    /\ pc[d] = "deleting" /\ \A v \in Version : mem[d].files[v] = None
    /\ IF Exists
       THEN pkg' = NoPkg /\ Goto(d, "rmdir") /\ UNCHANGED <<dir, tar, mem, acked>>
       ELSE Unanswered(d)
    /\ UNCHANGED <<listed, holder, arg, overlaps, faults>>

\* Mutant: the folder is removed with all it contains.
RemoveDirRecursive(d) ==
    /\ pc[d] = "rmdir"
    /\ dir' = FALSE /\ pkg' = NoPkg /\ tar' = [v \in Version |-> None]
    /\ acked' = acked \cup {d} /\ Goto(d, "done")
    /\ UNCHANGED <<listed, holder, arg, mem, overlaps, faults>>

\* ... then the folder, which must be empty: no package.json, tarball, lock
\* file or temporary file.
RemoveDir(d) ==
    /\ pc[d] = "rmdir"
    /\ IF /\ dir /\ ~Exists /\ holder = None
          /\ \A v \in Version : tar[v] = None /\ Sending(v) = {}
       THEN dir' = FALSE /\ acked' = acked \cup {d} /\ Goto(d, "done") /\ UNCHANGED <<pkg, tar, mem>>
       ELSE Unanswered(d)
    /\ UNCHANGED <<listed, holder, arg, overlaps, faults>>

\* storagePlugin.remove fails to write the list, after it changed it in memory.
RemoveBeginFail(d) ==
    /\ pc[d] = "idle" /\ Exists /\ faults < MaxFaults
    /\ faults' = faults + 1
    /\ listed' = FALSE
    /\ Unanswered(d)
    /\ UNCHANGED <<holder, arg, overlaps>>

-----------------------------------------------------------------------------
Publish(c) ==
    \/ CreateBegin(c) \/ CreateWrite(c) \/ Abort(c) \/ Store(c) \/ Record(c)
    \/ \E v \in Version : Upload(c, v)
    \/ \E t \in Tags : AddVersion(c, t)

Unpublish(x) == (\E v \in Version : Fetch(x, v)) \/ Change(x) \/ Detach(x) \/ Unlink(x)

Remove(d) ==
    \/ RemoveBegin(d) \/ RemoveBeginFail(d)
    \/ (\E v \in Version : RemoveFile(d, v)) \/ RemoveJson(d) \/ RemoveDir(d)

\* Every request was answered, or nobody can do anything more.
Finished == (\A r \in Req : pc[r] \in {"idle", "done", "unanswered"}) /\ UNCHANGED vars

Next ==
    \/ \E c \in Clients : Publish(c)
    \/ \E g \in Taggers, t \in Tags, v \in Version \cup {None} : MergeTags(g, t, v)
    \/ \E x \in Changers : Unpublish(x)
    \/ \E s \in Syncers :
        \/ \E V \in SUBSET Version : \E T \in [Tags -> V \cup {None}] : Load(s, V, T)
        \/ Save(s)
    \/ \E d \in Removers : Remove(d)
    \/ \E r \in Req : Commit(r) \/ CommitFail(r)
    \/ Finished

Spec == Init /\ [][Next]_vars

-----------------------------------------------------------------------------
\* None of these requests has started.
Untouched(R) == \A r \in R : pc[r] = "idle"

\* At most one of them has.
Alone(R) == \A r, s \in R : pc[r] # "idle" /\ pc[s] # "idle" => r = s

\* Of the clients that publish the same version, one is answered with success,
\* and its metadata is the one kept, in a package of the private list, until
\* somebody unpublishes, removes or synchronizes the package.  Two creations at
\* once are excluded: the one that writes last begins the package anew.
PublishedOnce ==
    Untouched(Changers \cup Syncers \cup Removers) /\ Alone(Creators) =>
        \A c \in Clients \cap acked : Exists /\ listed /\ pkg.versions[arg[c]] = c

\* Every dist-tag names a version of the package, whatever publishes, tags,
\* synchronizes, removes and creates it.  A client that unpublishes puts back the
\* tags it read: they may name a version that was lost since, to another client
\* that unpublishes, to an uplink, or with the package.
TagsResolve ==
    Exists /\ (Untouched(Changers) \/ (Untouched(Syncers \cup Removers) /\ Alone(Changers) /\ Alone(Creators))) =>
        \A t \in Tags : pkg.tags[t] # None => pkg.versions[pkg.tags[t]] # None

\* The shasum recorded for a tarball is the one of the file on disk, unless two
\* clients were sending it at once, or somebody removes or synchronizes the package.
AttachmentsOnDisk ==
    Untouched(Syncers \cup Removers) /\ Exists =>
        \A v \in Version \ overlaps : pkg.files[v] \in {None, tar[v]}

\* A tarball that no attachment mentions is about to be recorded or unlinked:
\* nobody could upload or remove it any more.  Of what clients do besides removing
\* the package, only a failing write or a failing unlink leaves one, or a second
\* creation that begins the package anew, or two that send it at once.
NoOrphanTarball ==
    Untouched(Syncers \cup Removers) /\ Alone(Creators) /\ faults = 0 =>
        \A v \in Version \ overlaps :
            tar[v] # None =>
                \/ Exists /\ pkg.files[v] # None
                \/ \E c \in Clients : arg[c] = v /\ pc[c] \in {"stored", "recording"}
                \/ \E x \in Changers : arg[x] = v /\ pc[x] = "detached"

\* Nothing of a package whose removal was answered with success comes back to the
\* disk: no upload, publish or unpublish that was under way writes it again.  Only
\* a creation or an uplink does.  (In the private list it may be once more.)
RemovalIsFinal ==
    Untouched(Creators \cup Syncers) /\ acked \cap Removers # {} =>
        ~Exists /\ ~dir /\ \A v \in Version : tar[v] = None
=============================================================================
