-------------------------------- MODULE Search --------------------------------
(***************************************************************************)
(* npm search (SearchManager of store/src/search.ts) and the index of the   *)
(* web interface (class Search, lunr).                                      *)
(*                                                                          *)
(* A search asks all uplinks, each of which puts its whole answer into a    *)
(* stream as one array; nobody reads the stream before all have ended.      *)
(* Then it walks the folders of the storage (dir-utils.ts,                  *)
(* local-database.ts), reads the metadata of each package                   *)
(* (local-storage.ts), and then the stream.  The reindexing walks the list  *)
(* of private packages by position.  Packages come and go meanwhile.        *)
(***************************************************************************)
EXTENDS Naturals, Sequences, FiniteSets, SequencesExt

CONSTANTS
    Package,        \* the packages of this registry
    Scope,          \* the scope of each package, or NoScope
    NoScope,
    Storage,        \* the option "storage" of each package, or Root
    Root,           \* the storage of the configuration
    Matching,       \* those that the query matches
    Uplink, Offers, \* what an uplink may answer: a list of packages
    Capacity,       \* the writes that fill the stream: about 32
    MaxChanges      \* how often packages are published or removed

ASSUME SearchAssumption ==
    /\ IsFiniteSet(Package) /\ DOMAIN Scope = Package /\ DOMAIN Storage = Package
    /\ \A p, q \in Package : Storage[p] # Scope[q]
    /\ "local" \notin Uplink /\ Matching \subseteq Package /\ Offers \subseteq Seq(Package)
    /\ Capacity \in Nat \ {0} /\ MaxChanges \in Nat

VARIABLES
    folder,     \* none, bare (no package.json), empty (no version), or ready
    list,       \* the list of private packages: LocalDatabase's own array
    index,      \* the index of the web interface
    reindexing, \* the position in list, the package being read, those read
    changes,
    phase,      \* of the search
    up,         \* of each uplink: asked, sent, paused, ended or failed
    offered,    \* what each uplink answers
    stream,     \* streamPassThrough, with its arrays opened (TransFormResults)
    dirs,       \* the folders still to be listed
    found,      \* the packages whose folders were seen, in order
    results,    \* what the search resolves with
    throughout, \* history: packages that were there all the time of the search
    due,        \* history: packages listed at the start or created since
    shifted     \* history: removals of packages that reindex had passed

indexVars == <<list, index, reindexing, due, shifted>>
searchVars == <<phase, up, offered, stream, dirs, found, results>>
allVars == <<folder, changes, indexVars, searchVars, throughout>>

\* _getCustomPackageLocalStorages: the folders beside the packages that hold
\* packages themselves.
CustomStorages == {Storage[p] : p \in Package} \ {Root}

\* getPackageStorage: the storage a package is in.
PackageStorage(p) == IF Storage[p] \in CustomStorages THEN <<Root, Storage[p]>> ELSE <<Root>>

\* The folder that has the package's folder: the storage, or a scope in it.
InStorage(p) == IF Scope[p] = NoScope THEN PackageStorage(p) ELSE Append(PackageStorage(p), Scope[p])

Folders == {<<Root>>} \cup {<<Root, x>> : x \in CustomStorages} \cup {InStorage(p) : p \in Package}
Over == {"resolved", "rejected", "died"}
Item == [name : Package, from : Uplink \cup {"local"}]

SearchTypeOK ==
    /\ folder \in [Package -> {"none", "bare", "empty", "ready"}]
    /\ list \in Seq(Package) /\ index \subseteq Package
    /\ reindexing \in [at : Nat, reading : SUBSET Package, seen : SUBSET Package, on : BOOLEAN]
    /\ changes \in 0..MaxChanges
    /\ phase \in {"idle", "uplinks", "walking", "metadata", "draining"} \cup Over
    /\ up \in [Uplink -> {"asked", "sent", "paused", "ended", "failed"}]
    /\ offered \in [Uplink -> Offers] /\ stream \in Seq(Item)
    /\ dirs \in Seq(Folders) /\ found \in Seq(Package) /\ results \in Seq(Item)
    /\ throughout \subseteq Package /\ due \subseteq Package /\ shifted \in Nat

\* getLatest throws when there is no version.
HasLatest(p) == folder[p] = "ready"

Ready == {p \in Package : HasLatest(p)}

\* The server starts, and begins to read the packages of the list.
SearchInit ==
    /\ folder \in [Package -> {"none", "empty", "ready"}] /\ list = SetToSeq(Ready)
    /\ index = {} /\ due = Ready /\ shifted = 0
    /\ reindexing = [at |-> 1, reading |-> IF list = <<>> THEN {} ELSE {list[1]},
                     seen |-> {}, on |-> list # <<>>]
    /\ changes = 0 /\ phase = "idle"
    /\ up = [u \in Uplink |-> "asked"] /\ offered \in [Uplink -> Offers]
    /\ stream = <<>> /\ dirs = <<>> /\ found = <<>> /\ results = <<>> /\ throughout = {}

-----------------------------------------------------------------------------
(* Packages come and go, and the index follows *)

Folder(p, x) ==
    /\ folder' = [folder EXCEPT ![p] = x] /\ changes' = changes + 1
    /\ throughout' = IF x = "ready" THEN throughout ELSE throughout \ {p}
    /\ phase # "died" /\ changes < MaxChanges /\ UNCHANGED searchVars

CreateFolder(p) == folder[p] = "none" /\ Folder(p, "bare") /\ UNCHANGED indexVars

\* publishPackage: the package is created, without a version; the one that its
\* client announces is indexed.
CreatePackage(p) ==
    /\ folder[p] = "bare" /\ p \notin ToSet(list) /\ Folder(p, "empty")
    /\ index' = index \cup {p} /\ due' = due \cup {p} /\ UNCHANGED <<list, reindexing, shifted>>

\* addVersion: the package is listed, then its version is written.
AddToList(p) ==
    /\ folder[p] = "empty" /\ p \notin ToSet(list) /\ phase # "died" /\ list' = Append(list, p)
    /\ UNCHANGED <<folder, changes, index, reindexing, due, shifted, searchVars, throughout>>

AddVersion(p) == folder[p] = "empty" /\ p \in ToSet(list) /\ Folder(p, "ready") /\ UNCHANGED indexVars

\* removePackage: out of the list, where those behind it move up by one, and its
\* files; then its folder, and out of the index.
RemoveMetadata(p) ==
    /\ folder[p] \in {"empty", "ready"} /\ Folder(p, "bare") /\ due' = due \ {p}
    /\ \/ p \notin ToSet(list) /\ UNCHANGED <<list, shifted>>
       \/ \E i \in DOMAIN list :
            /\ list[i] = p /\ list' = RemoveAt(list, i)
            /\ shifted' = IF reindexing.on /\ i <= reindexing.at THEN shifted + 1 ELSE shifted
    /\ UNCHANGED <<index, reindexing>>

RemoveFolder(p) ==
    /\ folder[p] = "bare" /\ p \notin ToSet(list) /\ Folder(p, "none")
    /\ index' = index \ {p} /\ UNCHANGED <<list, reindexing, due, shifted>>

\* getLocalDatabase reads one package after the other, and skips those that have
\* gone or have no version ...
ReadForIndex ==
    /\ reindexing.reading # {}
    /\ reindexing' = [reindexing EXCEPT !.reading = {}, !.seen = @ \cup (reindexing.reading \cap Ready)]
    /\ UNCHANGED <<folder, changes, list, index, due, shifted, searchVars, throughout>>

\* ... by their positions in the list as it is by now.
ReadNext ==
    /\ reindexing.on /\ reindexing.reading = {} /\ reindexing.at < Len(list)
    /\ reindexing' = [reindexing EXCEPT !.at = @ + 1, !.reading = {list[reindexing.at + 1]}]
    /\ UNCHANGED <<folder, changes, list, index, due, shifted, searchVars, throughout>>

\* Mutant: the index is replaced by what was read.
ReindexReplaces ==
    /\ reindexing.on /\ reindexing.reading = {} /\ reindexing.at >= Len(list)
    /\ index' = reindexing.seen /\ reindexing' = [reindexing EXCEPT !.on = FALSE]
    /\ UNCHANGED <<folder, changes, list, due, shifted, searchVars, throughout>>

\* reindex: at the end what was read is added.
Reindexed ==
    /\ reindexing.on /\ reindexing.reading = {} /\ reindexing.at >= Len(list)
    /\ index' = index \cup reindexing.seen /\ reindexing' = [reindexing EXCEPT !.on = FALSE]
    /\ UNCHANGED <<folder, changes, list, due, shifted, searchVars, throughout>>

-----------------------------------------------------------------------------
(* The uplinks *)

Here == UNCHANGED <<folder, changes, indexVars, throughout>>

Begin ==
    /\ phase = "idle" /\ phase' = "uplinks" /\ throughout' = Ready
    /\ UNCHANGED <<folder, changes, indexVars, up, offered, stream, dirs, found, results>>

\* ProxyStorage.search: an uplink fails, which fails the search, or sends what is
\* not JSON: the parser's error has no listener.
UplinkFails(u) ==
    /\ up[u] = "asked" /\ phase = "uplinks"
    /\ up' = [up EXCEPT ![u] = "failed"] /\ phase' \in {"rejected", "died"}
    /\ Here /\ UNCHANGED <<offered, stream, dirs, found, results>>

Items(names, from) == [i \in DOMAIN names |-> [name |-> names[i], from |-> from]]

\* JSONStream gives the objects as one array, which is piped into the stream; a
\* write that fills it pauses the pipe, and there is no end then.
UplinkAnswers(u) ==
    /\ up[u] = "asked" /\ phase = "uplinks" /\ stream' = stream \o Items(offered[u], u)
    /\ up' = [up EXCEPT ![u] = IF Cardinality({v \in Uplink : up[v] # "asked"}) + 1 < Capacity
                              THEN "sent" ELSE "paused"]
    /\ Here /\ UNCHANGED <<phase, offered, dirs, found, results>>

UplinkEnds(u) ==
    /\ up[u] = "sent" /\ phase = "uplinks" /\ up' = [up EXCEPT ![u] = "ended"]
    /\ Here /\ UNCHANGED <<phase, offered, stream, dirs, found, results>>

\* The storage of the configuration, then the others: searchOnStorage.
Storages == <<<<Root>>>> \o SetToSeq({<<Root, x>> : x \in CustomStorages})

\* Mutant: the first uplink that ends is enough.
UplinksDoneAny ==
    /\ phase = "uplinks" /\ (\E u \in Uplink : up[u] = "ended") /\ phase' = "walking" /\ dirs' = Storages
    /\ Here /\ UNCHANGED <<up, offered, stream, found, results>>

\* Promise.all.
UplinksDone ==
    /\ phase = "uplinks" /\ (\A u \in Uplink : up[u] = "ended") /\ phase' = "walking" /\ dirs' = Storages
    /\ Here /\ UNCHANGED <<up, offered, stream, found, results>>

-----------------------------------------------------------------------------
(* The storage *)

There == {p \in Package : folder[p] # "none"}

\* The scopes that have a folder in this one.
ScopesIn(d) == {InStorage(p) : p \in {q \in There : Scope[q] # NoScope /\ PackageStorage(q) = d}}

\* getFolders: the packages of a folder, and its scopes, which are listed before
\* the next one.  filterByQuery, at the end, loses nothing here.
ListFolder ==
    /\ phase = "walking" /\ dirs # <<>>
    /\ found' = found \o SetToSeq({p \in There : InStorage(p) = Head(dirs)} \cap Matching)
    /\ dirs' = SetToSeq(ScopesIn(Head(dirs))) \o Tail(dirs)
    /\ Here /\ UNCHANGED <<phase, up, offered, stream, results>>

Listed ==
    /\ phase = "walking" /\ dirs = <<>> /\ phase' = "metadata"
    /\ Here /\ UNCHANGED <<up, offered, stream, dirs, found, results>>

\* Mutant: a package that cannot be read is tried again.
MetadataRetries ==
    /\ phase = "metadata" /\ found # <<>>
    /\ IF HasLatest(Head(found))
       THEN stream' = Append(stream, [name |-> Head(found), from |-> "local"]) /\ found' = Tail(found)
       ELSE UNCHANGED <<stream, found>>
    /\ Here /\ UNCHANGED <<phase, up, offered, dirs, results>>

\* getMetadata.  A package that is gone by now, or that has no version, fails the
\* search: and its callback goes on with metadata that are not there, which
\* nobody catches, and ends the server unless node only warns.
Metadata ==
    /\ phase = "metadata" /\ found # <<>>
    /\ IF HasLatest(Head(found))
       THEN stream' = Append(stream, [name |-> Head(found), from |-> "local"]) /\ found' = Tail(found)
            /\ UNCHANGED phase
       ELSE phase' \in {"rejected", "died"} /\ UNCHANGED <<stream, found>>
    /\ Here /\ UNCHANGED <<up, offered, dirs, results>>

StreamEnds ==
    /\ phase = "metadata" /\ found = <<>> /\ phase' = "draining"
    /\ Here /\ UNCHANGED <<up, offered, stream, dirs, found, results>>

\* removeDuplicates keeps the first of a name: that of an uplink.
RemoveDuplicates(s) ==
    LET firsts == {i \in DOMAIN s : \A j \in 1..(i - 1) : s[j].name # s[i].name} IN
    [i \in 1..Cardinality(firsts) |->
        s[CHOOSE k \in firsts : Cardinality({j \in firsts : j <= k}) = i]]

\* The pipeline is read to its end.
Resolve ==
    /\ phase = "draining" /\ phase' = "resolved" /\ results' = RemoveDuplicates(stream)
    /\ stream' = <<>>
    /\ Here /\ UNCHANGED <<up, offered, dirs, found>>

-----------------------------------------------------------------------------
Searching ==
    \/ UplinksDone \/ ListFolder \/ Listed \/ Metadata \/ StreamEnds \/ Resolve
    \/ \E u \in Uplink : UplinkFails(u) \/ UplinkAnswers(u) \/ UplinkEnds(u)

Indexing == ReadForIndex \/ ReadNext \/ Reindexed

Idle == ~ ENABLED Searching /\ ~ ENABLED Indexing /\ phase # "idle" /\ UNCHANGED allVars

SearchNext ==
    \/ \E p \in Package :
        CreateFolder(p) \/ CreatePackage(p) \/ AddToList(p) \/ AddVersion(p) \/ RemoveMetadata(p) \/ RemoveFolder(p)
    \/ Begin \/ Searching \/ Indexing
    \/ Idle

SearchSpec == SearchInit /\ [][SearchNext]_allVars /\ WF_allVars(Searching) /\ WF_allVars(Indexing)

-----------------------------------------------------------------------------
\* A search that resolves has everything the uplinks offered and every matching
\* package that was here all the time, each name once, and nothing else.
Names == {results[i].name : i \in DOMAIN results}

SearchComplete ==
    phase = "resolved" =>
        /\ (UNION {ToSet(offered[u]) : u \in Uplink}) \cup (throughout \cap Matching) \subseteq Names
        /\ Cardinality(Names) = Len(results)
        /\ \A i \in DOMAIN results : results[i].from = "local" => results[i].name \in Matching

\* Every search ends, whatever comes and goes, and however much the uplinks have
\* found, if the stream has room for one array of each.
SearchEnds == phase = "uplinks" ~> (phase \in Over \/ Cardinality(Uplink) >= Capacity)

\* When the index has been built it has every package that was listed at the start
\* or created since, and not removed, but for as many as were removed behind the
\* reader's back: each moves one package up to a position already passed.
IndexComplete == ~reindexing.on => Cardinality(due \ index) <= shifted
=============================================================================
