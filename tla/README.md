# A formal model of Verdaccio

Verdaccio is a private npm registry: clients publish packages to it and read
packages from it, and what it does not have it fetches from other registries, its
*uplinks*. This directory holds TLA+ specifications of the parts of it that are
hard to get right by testing: what concurrent requests, uplinks, failures and
crashes do to the packages, the list of private packages, the users, the tokens
and the answers that clients get. TLC checks the specifications on small
instances; TLAPS checks proofs of the main invariants for every instance.

Paths below are relative to `src/verdaccio-master/packages/` unless they start
with `website/`.

## 1. The system

One Node process answers every request. Requests run concurrently in the sense
of the event loop: between two callbacks, or around an `await`, any other request
may run. What lasts is in files, or in the store of a plugin, and everything that
lasts is written by several operations. The REST handlers (package `api`) are not
in the repository; what clients do is modelled as the npm client does it, on top of
the public methods of the storage classes.

| Component | State | Operations | Module |
| --- | --- | --- | --- |
| File locking, `core/file-locking` | `<file>.lock` | `lockFile`, `readFile`, `unlockFile` | `FileLocking` |
| Package folder, `core/local-storage/src/local-fs.ts` | the folder of a package, `package.json`, temporary files | `updatePackage`, `createPackage`, `savePackage`, `readPackage`, `deletePackage`, `removePackage` | `LocalFS`, `PackageStore` |
| Local storage, `store/src/local-storage.ts` | metadata, tarballs and private list of a package together | `addPackage`, `addVersion`, `mergeTags`, `changePackage`, `addTarball`, `removeTarball`, `removePackage`, `updateVersions` | `LocalStorage` |
| Private package list, `core/local-storage/src/local-database.ts` | `.verdaccio-db.json` and its copy in memory | `init`, `add`, `remove`, `setSecret`, `get`, `_sync` | `LocalDatabase` |
| Users, `core/htpasswd` | the password file, the users in memory | `adduser`, `changePassword`, `authenticate`, `reload` | `HTPasswd` |
| Uplink synchronization, `store/src/storage.ts` | the versions, dist-tag and etags merged from uplinks | `getPackage`, `addPackage`, `_syncUplinksMetadata` | `UplinkSync` |
| Uplink proxy, `proxy/src/up-storage.ts` | `failed_requests`, `last_request_time` | `request` with its headers, `_statusCheck`, `_ifRequestFailure`, `getRemoteMetadata`, `fetchTarball` | `UplinkRequest`, `UplinkStatus`, `TarballProxy` |
| Tarball streams, `core/streams`, `writeTarball`, `addTarball` | temporary files, the tarball, its shasum; pending calls of `done` and `abort` | the stream of an upload, `done`, `abort` | `TarballStreams` |
| Tarball pipeline, `store/src/storage.ts` `getTarball` | the stream to the client and the one into the storage | `getTarball`, `fetchTarball`, `readTarball` | `TarballProxy` |
| HTTP middleware, `middleware/src/middleware.ts` | what was answered | the checks of a route, `allow`, `final`, `errorReportingMiddleware` | `Middleware` |
| Package access, `config/src/package-access.ts`, `utils/src/matcher.ts` | none | `normalisePackageAccess`, `getMatchedPackagesSpec` | `PackageAccess` |
| Authentication chain, `auth/src/auth.ts`, with the plugins `auth-memory`, `active-directory` and `audit` | users of `auth-memory`, tokens given out, `remote_user` | `authenticate`, `add_user`, `changePassword`, `allow_*`, the two middlewares that read tokens | `Auth` |
| S3, Google and memory storage, `plugins/*/` | the objects of a package | `createPackage`, `updatePackage`, `savePackage`, `readPackage`, `writeTarball`, `readTarball`, the removals | `ObjectStorage` |
| Their databases, and the tokens of `core/local-storage/src/token.ts` | list of packages or tokens, secret, copies in memory | `add`, `remove`, `get`, `getSecret`, `setSecret`, `saveToken`, `deleteToken` | `PluginDatabase` |
| Start and stop, `cli`, `node-api`, `loaders`, `config/src/config-path.ts` | the configuration file, the state of each process | from `findConfigFile` to `listen`, and the shutdown | `ServerStart`, `PluginDatabase` |
| Search, `store/src/search.ts` | the stream of results, the index of the web interface | `SearchManager.search`, `Search.reindex` | `Search` |
| Notifications, web server side, web client side | - | - | not modelled, section 7 |

How they interact. A request passes the middlewares and the authentication chain
before its handler calls `Storage`. `Storage` asks the uplinks and calls
`LocalStorage`; `LocalStorage` calls the storage plugin, which gives out one object
per package: `LocalFS`, or an S3, Google or memory handler. `LocalFS` and
`HTPasswd` call file locking. A write of `package.json` by `LocalFS` is `lock,
read, handler, temporary file, rename, unlock`, but for three operations that do
not lock: `createPackage` (an exclusive open), `updateVersions` (read, then save)
and `removePackage` (unlink, then rmdir). The other plugins lock nothing.

What makes it hard:

* **Interleaving.** The unlocked operations run between the read and the rename
  of the locked ones; two synchronizations overlap; `_sync` calls overlap; several
  servers share one S3 bucket.
* **A lock that fails.** `lockfile()` in `file-locking/src/utils.ts:52` resolves
  whatever `locker.lock` reports; a lock older than five minutes is stolen even
  from an operation that is only slow; an unlock removes whatever lock file is
  there.
* **Streams.** Error, abort, end and close of two coupled streams come in any
  order, and `done` and `abort` may be called before anybody listens.
* **Callbacks.** A chain of plugins goes on from callback to callback, and Express
  goes on at each `next()`: nothing keeps a callback from being called twice.
* **Partial failure.** A failing read after the lock was taken leaves the lock; a
  failing write after the exclusive open leaves an empty `package.json`; a failing
  update after an upload leaves a tarball; one of several uplinks fails.
* **Crashes.** Files truncated and not yet written, lock files and temporary files
  with no owner, a configuration that was being written.
* **Stale data.** Metadata that a client or a synchronization read a while ago
  replaces what others wrote since; users, lists and secrets in memory lag behind
  what is stored; a late failure is counted against an uplink that is back.

`PROJECT.json` lists each hazard at its line with the properties aimed at it.

## 2. The modules and the code

Every module has one action per step of the code between two points where another
callback can run. The name of an action is that of the method, or of the system
call at its end. `PROJECT.json` gives the lines behind each definition.
Definitions marked `Mutant:` in a comment are not used by any specification: each
one is a plausible bug in the code, which a property must notice.

    PackageStore <-- LocalFS --> FileLocking          (refinements)
    UplinkRequest <- UplinkStatus <- TarballProxy     (EXTENDS)
                     TarballStreams <- TarballProxy
    UplinkRequest <- Middleware <- Auth
                     PackageAccess <- Auth
    ServerStart <- PluginDatabase

**FileLocking.** One file and any number of operations, each `idle`, `locking`,
`reading` or `holding`. The lock is the npm module `lockfile`, which is outside the
repository; its outcomes are those that the options given to it allow:
`Acquire`, `StealOrphan` (a stale lock), `StealLive` (a lock that is old but in
use), `GiveUp` (an error that the callback ignores). `ReadFail` turns the lock into
an orphan, because the caller does not know that it holds one.

**LocalFS.** One package folder. `package.json` is absent, empty, or the set of the
requests whose change it holds, so that a lost update is one that is missing. An
update goes through `Stat, Acquire/StealLive/GiveUp/LockNoDir, Read/ReadFail,
Handle/HandleFail, WriteTemp, Rename, Unlock`; a creation through `Open, WriteTemp,
Rename`; a save through `Load, WriteTemp, Rename`; a removal through `Find, Unlink,
Rmdir`. `bare` records who replaced or removed a content without the lock.
`Crash` keeps what is on disk.

**PackageStore.** What `LocalFS` promises its callers when nothing goes wrong with
the lock: an atomic set of updates. `ImplementsStore` in `LocalFS` maps the folder
onto it (an empty `package.json` counts as no package). `FollowsLocking` maps the
locking steps of `LocalFS` onto `FileLocking`, so that what is proved there holds
of `package.json`.

**LocalStorage.** One package with its versions, dist-tags, attachments, tarballs
and its place in the private list. An update of `package.json` is two steps
(`Enter`: lock, read and handler; `Commit`: write and unlock), which `LocalFS`
justifies as long as no lock is refused; unlocked writes come in between.
Tarballs and shasums are represented by the client they came from. An upload is
`Upload, Store` or `Abort`, with the check before and the rename after it;
`TarballStreams` has its details. Where the code drops an error, `CreateWrite`
and `Unlink` answer with success and leave things as they were.

**LocalDatabase.** The list in memory, the file with the length of its text, and
the calls of `_sync`, each `mkdir, stringify, truncate, write`. A shorter text over
a longer one does not parse. `InitDatabase` is `init`, which refuses a file that
does not parse.

**HTPasswd.** The lines of the password file, the users in memory, the lock, and
requests that add a user, change a password or log in. Writing is in place:
`Open` truncates, `Write` writes. A password is named after the request that sets
it; hashes are compared, never computed. `due` records the passwords that a login
may accept, `overtaken` the logins that were reading while a change was written.

**UplinkSync.** The packages at the uplinks, `package.json` with the origin of each
version, the tag `latest` and the etag of each uplink, and requests that ask every
uplink at once. An etag is the content that it stands for. `Serve` is the answer at
the uplink, `Arrive` its merge (`mergeVersions`, which throws at a tag that is not
a version, after the etag was recorded), `Load` and `Save` the unlocked
`updateVersions`. Publications and removals by clients are single steps here;
`LocalStorage` has their details.

**UplinkRequest.** Pure operators: which token an uplink is asked with, when a
configured `auth` makes `request` throw, and the `via` header.

**UplinkStatus.** The breakdowns in a row that each uplink is charged with and the
time since the last report. Requests run side by side; each is refused, or sent
and then answered or broken off, perhaps long after its host is back. Hosts go
down (`GoDown`) and come back. An uplink made for one tarball
(`_autogenerated`) has a counter of its own that is thrown away. A request to an
uplink whose `auth` is of no use throws where nobody catches it, and ends the
process (`Fatal`).

**TarballStreams.** The way of one tarball into the storage, for several streams at
once: `access` (is it there?), `opening` of a temporary file, data, `done`, rename,
and the record of the shasum. `done` and `abort` are in `called` until there is a
handler. Of the data only the amount is kept: nothing, a part, all.

**TarballProxy.** `getTarball` over the two: from the storage, or after a lookup
(the file is known, or `_syncUplinksMetadata` finds it) from the last uplink that
the package may use. The body goes to the client and to the savestream, each of
which may fail before it is open and after. A body may end early and still look
ended; only a content-length tells.

**Middleware.** The checks that stand before and after `allow` on each route, and
`next()`: a route counts how often it was called, and a second call goes on behind
the handler. The first answer that was sent is the one the client got.

**PackageAccess.** The entries of `packages` in the configuration: shaped, and the
first one that matches a package.

**Auth.** Requests with their credentials, and the chains of plugins under way as
*jobs*: the method, the plugin asked, where the chain began. A token that does not
verify makes its request anonymous, or is an error (`NotYet`). `MemoryAuthenticate`,
`DirectoryBind`, `DefaultAuthenticate` and so on are the plugins; `custom` is any
plugin that answers as it likes, also never. Tokens carry what they stand for.
Users are added, and passwords change, while requests are between two plugins.

**ObjectStorage.** One package and one tarball in S3, in Google's storage or in
memory, and calls of the methods of the plugin, each a sequence of requests to the
service, which may fail before it has done what it was asked or after: an upload
that failed may be stored, a deletion that failed may have deleted. An abort may
come before the end of the data or after it (`asked` is `late`).

**ServerStart.** What each process does from `findConfigFile` to the callback of
`listen`. The configuration is found at one of several places or created by the
first start; what a file says is what becomes of a start that reads it: half
of a file is a start that stops, or one with half of the settings.

**PluginDatabase.** Servers that start as above and share a store, with the calls
that add, remove and list packages or tokens. S3 and the tokens work on a copy
which every change puts back whole; Google works on rows. Signals, crashes and
restarts of each server.

**Search.** One search and one reindexing. Each uplink writes its results as one
array (`UplinkAnswers`) into a stream that is read only at the end and whose
capacity counts such writes; then the folders are walked one by one, the storage,
its scopes, the storages of packages and the scopes there (`ListFolder`), and the
metadata of each package are read. The reindexing walks the list of packages by
position (`ReadForIndex`, `ReadNext`); it is the list itself and no copy, so that
an addition extends the walk and a removal behind it makes it skip a package.
Packages appear in and vanish from folders and list in several steps.

The names of the operators of `FileLocking`, `LocalDatabase` and `Search` begin with
`Lock`, `List` and `Search` where another module has the same one (`LockSpec`,
`ListSpec`, `SearchSpec`): a module of proofs extends two of them.

## 3. The runs

| Run | Instance | What it shows | Distinct states |
| --- | --- | --- | --- |
| `file_locking` | 4 operations, 2 lock failures, a crash | at most one operation owns the file, plus one for each lock refused or stolen; a lock file is removed by its owner as long as nothing fails | 280 |
| `package_folder` | 2 updates, 2 creations, a save, a removal, one accident of each kind | acknowledged updates stay; a removed folder comes back only by a creation or a save; the lock protocol is followed | 1.4 M |
| `package_store` | 2 updates, a creation, a fault, 2 crashes | every request ends, and the folder is an atomic store | 2.4 k |
| `packages` | 2 versions; 3 or 4 of 2 creations, a publication, a tag, 2 unpublishes, a synchronization and a removal, one failing write or unlink | one publication of a version wins and keeps its metadata; tags name versions; shasums are those of the files; tarballs have attachments until a write or an unlink fails; what was removed stays off the disk | 0.6 M |
| `private_list` | 2 packages, 3 calls, a fault, 2 crashes | a call that ran alone leaves the list in the file, whatever overlaps and fails before it | 48 k |
| `passwords` | 2 users, room for 2, 2 registrations, a change of password, 2 logins, one accident | an acknowledged user stays; only its owner changes a password; a login accepts a password in force or being set | 2.1 M |
| `uplinks` | 2 uplinks, 2 requests and a creation, 2 versions, one change, one fault | an etag never hides a version; two requests agree on what a version is; nobody is told that a package is missing after an uplink sent it; the tag does not fall behind a content whose etag is stored | 1.8 M |
| `tarballs` | an uplink, a download, a request for metadata, an upload, an outage, a fault | no part of a tarball is stored or given out as the whole; an upload that succeeded is stored; only breakdowns in a row take an uplink offline, and it comes back; everybody gets an answer | 0.3 M |
| `auth` | 2 requests, 2 users and passwords, 3 chains of plugins, 3 packages | a request acts for a user only with that user's password or a token; it passes only by the rules; who is told no is not served; everybody is answered | 0.3 M |
| `object_storage` | 3 calls, each plugin, a fault | without a lock only calls that overlap lose changes; an upload that is reported stored is there until it is deleted, and whole if it ran alone; a bucket has nothing of an upload aborted before its end; every upload that ended is answered | 0.4 M |
| `plugin_database` | 2 servers, 2 starts, 2 calls, 2 names, a fault, 5 plugins | additions survive restarts; servers share the secret; a server that listens has not read an empty configuration, but for two starts at once and a crash during the write | 0.2 M |
| `search` | 3 packages: in the storage, in a scope, in a scope of a storage of its own; 2 uplinks, 2 changes | a search has every result, once; it ends; no more is missing in the index than was removed behind its reader | 1.1 M |

### Bounds

* `MaxFailures` (locks refused or stolen), `MaxFaults` (failing reads, writes,
  services, uplinks), `MaxCrashes`, `MaxAccidents` (all three together in
  `HTPasswd`), `MaxOutages` (hosts that go down) and `MaxChanges` (publications and
  removals beside the requests of `UplinkSync` and `Search`) bound how often the
  environment acts. They stand in the guards of the actions that count. One
  accident is enough for each property whose hypothesis is "no accident" to be
  exercised on both sides, and for each effect of one (an orphan lock, an empty
  file, a stored partial merge) to meet every later step of the other requests.
  `FileLocking` has two lock failures and four operations, because there the bound
  on the overlap depends on their number.
* A request runs once. Several requests of each kind take the place of a loop; for
  each pair of kinds whose steps conflict there is a run that contains both.
  Requests of `Auth` and calls of `ObjectStorage` begin in the order of their
  numbers, which loses nothing, as they differ in nothing else. A request of
  `UplinkStatus` may be sent again once it ended, for the sake of liveness.
* `packages` checks eight requests, of which `MaxRequests` take part (the
  constraint `Few`): any four of different kinds, and any three where two are of
  one kind, where one removes the package or where a write fails. The proofs have
  no such bound.
* `MaxOthers` of `Auth` is the number of requests that are not logins: with two
  requests there are a login that gives out a token and the request that uses it,
  or one request beside a login of somebody else.
* `MaxStarts` is the number of starts of all servers: two at once, or one after
  another stopped.
* Two versions are enough for the order of versions, for a conflict about one, and
  for a version that stays while another goes. Two packages and three calls let
  the text of the list be shorter, equal or longer than what is there. Three
  parts of a tarball are nothing, some and all. `Capacity` is the 32 writes that
  the two streams of a search hold; each uplink makes one.
* `passwords` lets both logins take part as long as nothing has failed, and one of
  them afterwards (the constraint `Few`): the property of logins looks no
  further.
* Symmetry is declared for interchangeable requests, users, servers and uplinks
  only, and never in a run that checks liveness.

### Fairness and deadlock

`package_store` assumes weak fairness of the answers of the file system and of the
handlers, of taking a lock (retries go on for about 110 s, which see a lock come
and go, and a stale lock is taken over), and of nothing else: requests need not
come, locks need not be refused, and nothing need fail. It has neither saves nor
removals, because with them the folder is not an atomic store.

`tarballs` assumes that a request over the network and an operation on a file end,
with success or an error (they have timeouts), and that the clock goes on;
that hosts come back and that anybody asks are hypotheses of `BackInUse`.
`auth` assumes that a callback that is due is run, and that plugins answer;
`object_storage` that each request of an upload to the service ends; `search` that the uplinks,
the walk and the indexing go on, each by its own. Where the code never answers the
model does not either: `Answered` and `UploadAnswered` name these cases.

Elsewhere every request ends after a bounded number of steps, so that "every
request is answered" is the absence of deadlock: a final state is `Finished` or
`Over`, where all requests are done (in `LocalStorage` also those whose removal is
never answered, section 5). Deadlock is not checked for `LocalDatabase`: a file
that does not parse stops the server for good, which is what the code does.

The type invariants are in no run: they are theorems (`TypeCorrect`, `SearchTyped`,
`ServersTyped`) or, for `FileLocking`, `LocalDatabase`, `ObjectStorage` and most of
`TarballProxy`, conjuncts of the invariants that are proved.

## 4. Proofs

All theorems hold for arbitrary sets of requests, packages, versions and
uplinks and for arbitrary bounds on accidents. The assumptions are the named
ASSUMEs of each module: kinds of requests are disjoint, some sets are finite, the
marker values differ from the data, versions are natural numbers. TLC evaluates
them in every run.

* **PackageJson_proofs** (`FileLocking` and `ObjectStorage`: `package.json` with a
  lock and without). `LockInv == LockTypeOK /\ LockHasOwner /\ OverlapBound`.
  The bound `|Inside| <= failures + (1 if the owner of the lock is inside)` is what
  is inductive; that mutual exclusion holds without failures is not, because an
  intruder that leaves removes the lock of the rightful holder. An operation that
  enters or leaves changes the cardinality by one (`CountAfterMove`).
  Theorems: `OverlapBounded`, `MutexUnlessFailure`, `LockOwned`, `OwnLockRemoved`.
  Where nothing locks, a change lasts if its call ran alone, because it is then in
  `package.json` and in what every later call has read and may still put
  (`Lasting`); a tarball whose success is told stays until it is deleted, and is
  its own and whole if the call ran alone (`Stored`, `OwnTarball`); and what is in
  the bucket was sent to its end (`Sent`). Theorems: `ChangeIsKept`,
  `SuccessIsStored`.
* **Folders_proofs** (`LocalFS` and `Search`: the folders of packages, and who walks
  them). The acknowledged updates are kept because (`LockHeld`) an
  update inside holds the lock, (`HeldComplete`) what it read has every update
  applied so far, and (`AppliedKept`) so has the file. All three speak of states
  without refused locks and unlocked writes. `LockKeepsFolder` (a lock file keeps
  `rmdir` from succeeding) gives `RemovedStaysRemoved`. Theorems: `TypeCorrect`,
  `UpdatesAreKept`, `EmptyWhileCreating`, `RemovedStaysRemoved`, `EmptyStays`.
  The two refinements are proved step by step. `LockIsFollowed`: every step of an
  update is one of `FileLocking` under the mapping `lockPc` or none; as a lock may
  also fail for want of the folder, which no bound counts, the bound of
  `FileLocking` is `MaxFailures` and one for each update, and each update fails so
  once (`Bounded`). `StoreIsImplemented`, for the case `Quiet` (a lock that never
  fails, one creation, neither saves nor removals): what an update has in memory is
  the package as it is, with its own change or without (`StoreLike`), so that each
  rename is one step of `PackageStore`.
  For a search, `SetToSeq` lists a finite set (`SeqOfSet`) and `removeDuplicates`
  keeps each name once (`Deduplicated`, by the ranks of the first places). What is
  inductive goes stage by stage: what an uplink has sent is in the stream
  (`Collected`), a package that was there all the time is among the folders that
  were walked or in a folder still to be walked (`Walked`), nothing local was found
  that does not match (`Matches`). For the index: each package that is due is in the
  index, has been read, or is at a position of the list still to be read, but for as
  many as were removed at positions already passed (`shifted`). Theorems:
  `SearchIsComplete`, `SearchTyped`, `IndexIsComplete`.
* **LocalStorage_proofs.** The invariant is a conjunction of parts, one for each
  promise and what it rests on: the metadata that an update read under the lock are
  those of the file until it commits, but for the writers that do not lock
  (`Present`, `Carried`); what an unpublish puts back (`TagsBack`) names versions
  that are still there, if nobody else unpublishes; an acknowledged publication
  is in the file and in what each update carries (`Published`); every shasum that
  is recorded or about to be is that of the file (`Filed`); every tarball has
  somebody to answer for it (`Owned`); and after a removal nobody is left who could
  write (`Removed`). Theorems: `TypeCorrect`, `PublishedForGood`,
  `TagsAlwaysResolve`, `AttachmentsAreOnDisk`, `TarballsAreOwned`, `RemovedForGood`.
  Two hypotheses come from attempts to prove more: with two creations, or two
  unpublishes, at once `PublishedOnce`, `NoOrphanTarball` and `TagsResolve` are false
  (section 5).
* **Databases_proofs** (`LocalDatabase`, and `PluginDatabase` with `ServerStart`).
  A call of `_sync` that began alone, and that nothing overlapped or broke
  (`Clean`), is the only one (`OneCall`), its text is the list (`TextIsList`), and it
  writes to a file that it has truncated (`WritesToEmpty`); that a crash leaves
  nobody at work (`DownIsQuiet`) and a start begins alone (`StartsAlone`) lets the
  next call repair what came before. Theorem: `FileIsList`. Of several servers over
  one store: unless two looked for the configuration at once, or one died writing
  it, a file that is half written is read by nobody (`OneLooks`); unless two looked for the secret at once, whoever stores
  one stores the one that is there (`SecretKept`); and while a call has had the
  store for itself one server is up and no other call runs (`AloneAtAll`), so that
  a name it added is in every copy that may be put back, until it is removed
  (`Lasting`); while no addition has failed the copy has nothing that the store
  has not (`CopyStored`). Theorems: `ServersTyped`, `ListensWithConfig`, `OneSecret`,
  `AddedStays`.
* **HTPasswd_proofs.** First what `Parse` makes of a line that is appended and of
  lines that are replaced (`ParseAppend`, `ParseReplace`): the user gets the new
  password and nobody else another one. Then, of states where everybody who wrote
  had the lock and nothing failed: one request at a time is between its lock and
  its answer (`Locked`); outside of a write the file has everybody (`Whole`); what is
  being written has the new password and everybody else (`Written`); and it was
  asked for by somebody new or by the owner (`Owned`). As long as no login has ended that a
  change had overtaken (`NoneStale`), what is in memory comes from the file
  (`Remembers`): it is in force, or of a request about to be answered, and all in
  force while a request rewrites the file, which is when a login finds it empty;
  and the logins that were not overtaken have read nothing else (`SeenFresh`). So
  what a login has read or, failing that, what is in memory is among the passwords
  it may accept (`MayAccept`). Theorems:
  `TypeCorrect`, `RegisteredStay`, `OwnerOnly`, `LoginsAreCurrent`.
* **UplinkSync_proofs.** `HonestBut(p, W)`: the versions that came with each etag of
  `p` are in `p`, but for those in `W`. Each operator of the merge preserves it
  (`MergeHonest`, `UpdateHonest`, `NormalizeHonest`, ...); the invariant says that
  the file and the package in the memory of every request under way are honest but
  for what was unpublished, and (`ReplyAwaited`) that an answer on its way has a
  request that waits for it. This is why no lock is needed for it: whoever stores
  an etag stores its versions too. A request that found nothing so far holds nothing
  (`NothingHeld`). Two requests agree because what was answered is in the file with
  the origin it had, but for what was unpublished, and nobody who saves takes
  anything from the file (`Kept`, `Extends`, `Agreed`). The tag follows because the
  package of each request is not below the content of any etag in it (`Follows`) as
  long as every uplink was asked and answered and nobody published or unpublished
  here (`Clean`). Theorems: `TypeCorrect`, `EtagsHonest`, `AbsenceHonest`,
  `SamePackageForAll`, `LatestNotBehind`.
* **TarballProxy_proofs.** No step leads from an unknown length back to a known one,
  so that a state where all lengths are known has only such states behind it.
  `Placed` says where the savestream may be at each step of its download, `Moved`
  that what the client, the savestream and the temporary file have got keep in step,
  `Wholes` that with all lengths known only whole tarballs reach the rename.
  `Counted` ties `failed_requests` to the breakdowns in a row. Theorems:
  `FetchedAtMostOnce`, `NoTruncation`, `SuccessStored`, `RefusalsJustified`.

* **Auth_proofs.** A step of one request leaves the others alone, but for what only
  grows: the tokens given out, the passwords that were proved, the grants. So the
  invariant is one of each request (`Fits`): where its chain of callbacks may stand
  (`Placed`), one chain at a time (`OneChain`), nothing told before the handler is
  done (`Silent`), tokens given out before they come back (`TokenKnown`), and the
  three properties of one request (`Proved`, `Granted`, `Served`); and, of passwords
  that may change meanwhile, that one that is right has been noticed (`Witnessed`).
  Theorems: `TypeCorrect`, `IdentityIsProved`, `ServedByRules`, `RefusedIsNotServed`.

Some theorems state properties that no run checks, as the proof is the stronger
argument: `MutualExclusion`, `LockHasOwner`, `EmptyOnlyWhileCreating`,
`EmptyIsFinal`, `FetchedOnce` and the type invariants.

Every safety property of the runs, every action property and both refinements are
theorems. Only model-checked: liveness, and fairness with it (`RequestsEnd`,
`BackInUse`, `Answered`, `RequestAnswered`, `UploadAnswered`, `SearchEnds`), which
TLAPS does not do, nor anything with ENABLED; of the specifications with fairness
(`Auth`, `ObjectStorage`, `TarballProxy`, `Search`) the theorems use the initial
states and the steps. No module has a RECURSIVE operator.

## 5. Known gaps of the code

These are behaviours of the code which the models contain, or which were found while
writing them. Properties that they would break name them in their hypotheses.

Package folder and local storage:

* A lock that is refused is ignored (`file-locking/src/utils.ts:52`), and an update
  that was answered with success is lost, though `local-fs.ts:69` says that updates
  are made "thread-safely". A lock taken before a failing parse is not released
  (`local-fs.ts:114`) and delays every other operation until it is stale.
* An empty `package.json` left by a crash or a failing write during a creation is
  final: no operation of the registry can read, replace or remove it.
* Two creations of one package may both succeed: `_createFile` looks at EEXIST only
  and a missing folder is ENOENT (`local-fs.ts:297-303`). The one that writes last
  begins the package anew and loses what was published in between.
* Of two uploads of one tarball at once one publishes its version, then the file of
  the other takes its place: the published shasum is not that of the file
  (`local-fs.ts:196-214`; the check in `local-storage.ts:318` comes too early).
* `updateVersions` writes without the lock (`local-storage.ts:823`): a version
  published in between is lost, and versions of two uplinks may replace each
  other.
* `changePackage` ignores the revision that the client sends: two unpublishes
  at once, or one beside a removal and a new creation, leave a dist-tag that names
  no version.
* An unlink that fails is only logged (`local-storage.ts:516-519`), and so is a
  failing write of a new package (`:122-138`): both are answered with success, and a
  tarball without an attachment, or no package at all, is left.
* `removePackage` throws in a callback (`local-storage.ts:183`): a removal that
  fails half way is never answered.
* An uplink that times out, rather than failing at once, is answered 503 before
  `allow_offline` is looked at (`store/src/storage-utils.ts:190`), against
  `website/docs/config.md:141`.

List, users:

* `_sync` awaits `mkdir` and `writeFile` (`local-database.ts:242`), though line 231
  says that it is synchronous: of two calls the older list may be written last, or
  the file does not parse any more, which stops the next start.
* The first two registrations proceed without a lock when there is no password file
  yet (`htpasswd.ts:155`): one user is lost, or there are more than `max_users`. The
  file is written in place, though `htpasswd.ts:125-126` speaks of `.htpasswd.tmp`:
  a crash may leave it empty.
* A login that read the password file before a change puts the former password
  back in memory; a later login that finds the file empty, because it is being
  rewritten, accepts it (`overtaken` in `LoginCurrent`).

Uplinks, tarballs:

* A synchronization that an uplink answered with 404 or an error may put back an
  older `latest` while the etag of the newer content stays, and 304 answers then
  keep it (`Undisturbed` in `LatestFollows`).
* A body without content-length that is cut short is stored as the whole tarball.
  A failing rename, an abort before the file is open, and a client that does not
  abort after a failing write leave temporary files. The client may get two errors.
* A tarball is fetched through the last uplink of the package, which is charged with
  the failures of whatever host the file is on.
* An uplink whose `auth` is of no use makes `request` throw where nobody catches it,
  and the process ends.

Authentication, middleware:

* `allow_unpublish` asks all plugins at once: with one of its own the callback may
  come twice, and an unpublish that was refused be carried out. A second `next()`
  goes on behind the handler. A request of the web interface with a garbled header
  is answered 400 and goes on. `changePassword` asks every plugin and may call back
  several times.
* With `jwt` in the configuration but no `sign` the tokens that are given out are
  not those that are understood: nobody is recognised by them.
* `middleware.ts:285`: the wrapped `res.write` returns nothing, and the line of the
  log may be written twice; `final` catches "headers already sent" by destroying the
  socket.

Other storages:

* Nothing is locked: calls that overlap lose changes. S3: `removePackage` rejects
  when it succeeded (`s3PackageManager.ts:159-176`), the `deleteObject` of an abort
  is never sent (`:392`), so that the tarball stays when the abort comes after the
  end; in the list, objects put by overlapping calls are stored
  in any order, a second server works on a stale copy, a name whose put failed
  counts as known and is answered with success (`index.ts:82-91`), and
  `add` does not settle when the list cannot be read.
  Google: `removePackage` deletes a key that is not there (`storage.ts:141`), any
  failure of a read is a 404 (`:282`), `get` of the list does not settle when its
  query fails (`data-storage.ts:213`), and the project of the environment is
  ignored (`:58-62`). Memory: a creation overwrites, `deletePackage` deletes another
  key, an abort leaves part of a tarball, and tarballs of two packages may share a
  name.
* Two first loads of the token database lose a token (`token.ts:36`).

Start and stop:

* Two first starts at once, or a crash while `writeFileSync` runs
  (`config-path.ts:61`), leave an empty configuration; two first starts make two
  secrets.
* In production the logger ends the process on a signal before the shutdown
  has run; `server.close` (`node-api/src/server.ts:146`) waits for connections only,
  so that a call whose client has gone is cut; a second signal ends it at
  once; `initServer` does not settle when the application cannot be built (`node-api/src/server.ts:107`). `unlinkAddressPath`
  (`:89`) takes the socket of a server that is running.
* `mergeConfig` leaks the options of one plugin to the next
  (`plugin-loader.ts:29`), and a plugin that lacks a module of its own counts as
  absent (`:21`). `_.merge(defaultSecurity, ..)` changes the default of the module
  (`config/src/config.ts:53`).

Search:

* One uplink that fails fails all; one that sends what is not
  JSON, or a package without versions (`local-storage.ts:732-757`), may end the
  server. A package of an uplink hides the local one of that name. With as many
  uplinks as the streams hold writes, about 32, a search would wait for ever.
* The index is built from the list by position while removals shift it
  (`storage.ts:402-438`, `local-database.ts:158`): a package that is published may be
  skipped, one for each removal behind the reader. A package that is removed while
  the index is built may stay in it.

Not modelled at all: the page cache of `renderHTML.ts` serves the base of
the first host that asked; `crypt` compares eight characters of a password only;
`VersionContextProvider` of the web client does not cancel the request for the
version shown before.

## 6. What is abstracted

* Readme, times, users, deprecations: fields that are carried along and on which no
  control depends. The time that a synchronization compares is the choice in
  `Load` between writing and not writing.
* Names, payloads and contents are model values, or what they stand for: a tarball
  its sender or its amount, a hash the password, a token its claims, a pattern the
  set of packages that it matches, a file of the configuration what becomes of a
  start that reads it.
* An uplink that sends what is not a package is one that fails.
* `SearchAssumption`: no storage of a package has the name of a scope, which one
  folder could not tell apart.
* `LocalStorage` and `UplinkSync` take an update of `package.json` as `LocalFS`
  justifies it; `TarballProxy` takes `_syncUplinksMetadata` as one step;
  `Auth` takes the handler of a request as one. No module is composed of all of
  them: the product would be beyond TLC, and what one part needs of another is
  stated by that other's properties.

## 7. Not modelled, and why

* Notifications (`hooks`): HTTP requests sent after a publication. The caller waits
  for all of them and gets no state from them.
* Web interface, server side: routes and templates; the access of its requests is in
  `Auth`, its index in `Search`.
* Web interface, client side: React components, each of which shows what it fetched
  last and shares no state with another.
* The parsing of YAML, the options of TLS and HTTP proxies, the formatting of the
  log, the command line, URL rewriting, the validation of shapes: pure functions
  or wiring without interaction.
* The token methods of the S3, Google and memory plugins, and search in the last two,
  which the code does not implement; search in S3, which is written for a callback
  that `SearchManager` does not pass.

## 8. Running it

    tlc -workers 2 -config MCFileLocking.cfg MCFileLocking.tla
    tlapm PackageJson_proofs.tla

Each `.cfg` belongs to the `MC` module with the same prefix. The largest runs take
two to three minutes on two cores, the largest proof, `LocalStorage_proofs`, a little
more than two.
