------------------------------ MODULE LocalFS ------------------------------
(***************************************************************************)
(* core/local-storage/src/local-fs.ts: the folder of one package and its    *)
(* package.json, written by concurrent requests.  An update locks the file, *)
(* reads it, runs the caller's handler and replaces it by a temporary file; *)
(* a creation opens it exclusively and then replaces it; a save replaces it *)
(* without any lock (LocalStorage.updateVersions after its own read); a     *)
(* removal unlinks it and removes the folder.                               *)
(*                                                                          *)
(* The content of package.json is the set of requests whose change it       *)
(* holds: a change is lost when a later content does not have its request.  *)
(* Every request is issued once; what survives a crash is what is on disk.  *)
(***************************************************************************)
EXTENDS Naturals, FiniteSets

CONSTANTS
    Updaters,       \* requests that call updatePackage
    Creators,       \* requests that call createPackage
    Savers,         \* requests that call readPackage, then savePackage
    Removers,       \* requests that call deletePackage, then removePackage
    NoLock, Orphan, \* see FileLocking
    Absent,         \* there is no package.json
    Empty,          \* package.json is the empty file that fs.open(.., 'wx') made
    MaxFailures,    \* bound: locks refused or stolen from a live request
    MaxFaults,      \* bound: failing writes and renames
    MaxCrashes      \* bound: crashes of the process

Req == Updaters \cup Creators \cup Savers \cup Removers

ASSUME ReqAssumption ==
    /\ IsFiniteSet(Req)
    /\ Updaters \cap (Creators \cup Savers \cup Removers) = {}
    /\ Creators \cap (Savers \cup Removers) = {}
    /\ Savers \cap Removers = {}
ASSUME MarkAssumption ==
    /\ NoLock # Orphan /\ {NoLock, Orphan} \cap Updaters = {}
    /\ Absent # Empty /\ \A c \in SUBSET Req : c # Absent /\ c # Empty
ASSUME BoundAssumption ==
    MaxFailures \in Nat /\ MaxFaults \in Nat /\ MaxCrashes \in Nat

VARIABLES
    dir,        \* the package folder exists
    json,       \* the content of package.json: Absent, Empty or a set of requests
    temp,       \* the requests whose temporary file is in the folder
    lock,       \* the lock file: NoLock, Orphan or its request
    pc,         \* the progress of each request
    mem,        \* the content each request holds in memory
    acked,      \* the requests answered with success
    bare,       \* the requests that replaced or removed a content without the lock
    failures, faults, crashes

disk == <<dir, json, temp, lock>>
counts == <<failures, faults, crashes>>
vars == <<disk, pc, mem, acked, bare, counts>>

Content == SUBSET Req

Step == {"idle", "locking", "reading", "updating", "writing", "renaming",
         "committed", "failed", "unlinking", "rmdir", "done"}

TypeOK ==
    /\ dir \in BOOLEAN
    /\ json \in {Absent, Empty} \cup Content
    /\ temp \in SUBSET Req
    /\ lock \in Updaters \cup {NoLock, Orphan}
    /\ pc \in [Req -> Step]
    /\ mem \in [Req -> Content]
    /\ acked \in SUBSET Req
    /\ bare \in SUBSET Req
    /\ failures \in Nat /\ faults \in Nat /\ crashes \in Nat

\* package.json is there and parses.
Readable == json # Absent /\ json # Empty

\* The updates between the moment they own package.json and their unlocking.
Inside == {u \in Updaters :
              pc[u] \in {"reading", "updating", "writing", "renaming", "committed", "failed"}}

Goto(r, s) == pc' = [pc EXCEPT ![r] = s]

\* A package that was never published, one whose removal stopped half way or
\* that only has tarballs, and one just created.
Init ==
    /\ \/ dir = FALSE /\ json = Absent
       \/ dir = TRUE /\ json \in {Absent, {}}
    /\ temp = {} /\ lock = NoLock
    /\ pc = [r \in Req |-> "idle"]
    /\ mem = [r \in Req |-> {}]
    /\ acked = {} /\ bare = {}
    /\ failures = 0 /\ faults = 0 /\ crashes = 0

-----------------------------------------------------------------------------
(* updatePackage: _lockAndReadJSON, the handler, onWrite, _unlockJSON *)

\* lockFile stats the folder and the file; ENOENT is answered as not found.
Stat(u) ==
    /\ pc[u] = "idle"
    /\ Goto(u, IF json = Absent THEN "done" ELSE "locking")
    /\ UNCHANGED <<disk, mem, acked, bare, counts>>

\* The lock file is created, or replaces a stale one whose request is gone.
Acquire(u) ==
    /\ pc[u] = "locking" /\ dir
    /\ lock \in {NoLock, Orphan}
    /\ lock' = u
    /\ Goto(u, "reading")
    /\ UNCHANGED <<dir, json, temp, mem, acked, bare, counts>>

\* The lock is stolen from a request that has held it for 5 minutes.
StealLive(u) ==
    /\ pc[u] = "locking" /\ dir
    /\ lock \in Updaters
    /\ failures < MaxFailures
    /\ failures' = failures + 1
    /\ lock' = u
    /\ Goto(u, "reading")
    /\ UNCHANGED <<dir, json, temp, mem, acked, bare, faults, crashes>>

\* locker.lock fails after its retries; lockfile() resolves all the same.
GiveUp(u) ==
    /\ pc[u] = "locking"
    /\ failures < MaxFailures
    /\ failures' = failures + 1
    /\ Goto(u, "reading")
    /\ UNCHANGED <<disk, mem, acked, bare, faults, crashes>>

\* The same, because the folder is gone since the stat.
LockNoDir(u) ==
    /\ pc[u] = "locking" /\ ~dir
    /\ failures' = failures + 1
    /\ Goto(u, "reading")
    /\ UNCHANGED <<disk, mem, acked, bare, faults, crashes>>

\* fs.readFile and JSON.parse succeed: the handler gets the content.
Read(u) ==
    /\ pc[u] = "reading"
    /\ Readable
    /\ mem' = [mem EXCEPT ![u] = json]
    /\ Goto(u, "updating")
    /\ UNCHANGED <<disk, acked, bare, counts>>

\* Mutant: a failed read removes the lock file, though it may be another's.
ReadFailUnlocks(u) ==
    /\ pc[u] = "reading" /\ ~Readable
    /\ lock' = NoLock
    /\ Goto(u, "done")
    /\ UNCHANGED <<dir, json, temp, mem, acked, bare, counts>>

\* Mutant: a failed read is tried again, with the lock taken anew.
ReadFailRetries(u) ==
    /\ pc[u] = "reading" /\ ~Readable
    /\ lock' = IF lock = u THEN NoLock ELSE lock
    /\ Goto(u, "locking")
    /\ UNCHANGED <<dir, json, temp, mem, acked, bare, counts>>

\* package.json is gone or does not parse: `locked` stays false in
\* updatePackage, and unLockCallback leaves the lock file where it is.
ReadFail(u) ==
    /\ pc[u] = "reading"
    /\ ~Readable
    /\ lock' = IF lock = u THEN Orphan ELSE lock
    /\ Goto(u, "done")
    /\ UNCHANGED <<dir, json, temp, mem, acked, bare, counts>>

\* Mutant: the lock is released before the content is written.
HandleUnlocked(u) ==
    /\ pc[u] = "updating"
    /\ mem' = [mem EXCEPT ![u] = @ \cup {u}]
    /\ lock' = NoLock
    /\ Goto(u, "writing")
    /\ UNCHANGED <<dir, json, temp, acked, bare, counts>>

\* updateHandler changes the content; onWrite calls savePackage with it.
Handle(u) ==
    /\ pc[u] = "updating"
    /\ mem' = [mem EXCEPT ![u] = @ \cup {u}]
    /\ Goto(u, "writing")
    /\ UNCHANGED <<disk, acked, bare, counts>>

\* updateHandler refuses the change (version already there, no such tag ...).
HandleFail(u) ==
    /\ pc[u] = "updating"
    /\ Goto(u, "failed")
    /\ UNCHANGED <<disk, mem, acked, bare, counts>>

\* _unlockJSON, then onEnd: the lock file is removed whoever created it.
Unlock(u) ==
    /\ pc[u] \in {"committed", "failed"}
    /\ lock' = NoLock
    /\ acked' = IF pc[u] = "committed" THEN acked \cup {u} ELSE acked
    /\ Goto(u, "done")
    /\ UNCHANGED <<dir, json, temp, mem, bare, counts>>

-----------------------------------------------------------------------------
(* createPackage, savePackage and the writing of package.json *)

\* _createFile: fs.open(name, 'wx').  EEXIST is a conflict; a missing file is
\* made, empty, for this request alone; any other error, ENOENT for a missing
\* folder first of all, is not looked at.
Open(c) ==
    /\ pc[c] = "idle"
    /\ IF dir /\ json # Absent
       THEN Goto(c, "done") /\ UNCHANGED json
       ELSE /\ Goto(c, "writing")
            /\ json' = IF dir THEN Empty ELSE json
    /\ UNCHANGED <<dir, temp, lock, mem, acked, bare, counts>>

\* _readCreatePackage: what is there, a template if there is nothing, an
\* error if it does not parse.
Load(s) ==
    /\ pc[s] = "idle"
    /\ IF json = Empty
       THEN Goto(s, "done") /\ UNCHANGED mem
       ELSE /\ Goto(s, "writing")
            /\ mem' = [mem EXCEPT ![s] = (IF json = Absent THEN {} ELSE json) \cup {s}]
    /\ UNCHANGED <<disk, acked, bare, counts>>

\* _writeFile: the temporary file is written, in a new folder if there is none.
WriteTemp(r) ==
    /\ pc[r] = "writing"
    /\ temp' = temp \cup {r}
    /\ dir' = TRUE
    /\ Goto(r, "renaming")
    /\ UNCHANGED <<json, lock, mem, acked, bare, counts>>

\* renameTmp: package.json is replaced in one step.
Rename(r) ==
    /\ pc[r] = "renaming"
    /\ json' = mem[r]
    /\ temp' = temp \ {r}
    /\ IF r \in Updaters
       THEN Goto(r, "committed") /\ UNCHANGED <<acked, bare>>
       ELSE /\ Goto(r, "done")
            /\ acked' = acked \cup {r}
            /\ bare' = IF Readable THEN bare \cup {r} ELSE bare
    /\ UNCHANGED <<dir, lock, mem, counts>>

\* Writing fails and may leave a part of the temporary file; a rename that
\* fails unlinks it.
WriteFail(r) ==
    /\ pc[r] \in {"writing", "renaming"}
    /\ faults < MaxFaults
    /\ faults' = faults + 1
    /\ IF pc[r] = "writing"
       THEN temp' \in {temp, IF dir THEN temp \cup {r} ELSE temp}
       ELSE temp' = temp \ {r}
    /\ Goto(r, IF r \in Updaters THEN "failed" ELSE "done")
    /\ UNCHANGED <<dir, json, lock, mem, acked, bare, failures, crashes>>

-----------------------------------------------------------------------------
(* deletePackage('package.json') and removePackage *)

\* LocalStorage.removePackage reads the package before it removes anything.
Find(d) ==
    /\ pc[d] = "idle"
    /\ Goto(d, IF Readable THEN "unlinking" ELSE "done")
    /\ UNCHANGED <<disk, mem, acked, bare, counts>>

Unlink(d) ==
    /\ pc[d] = "unlinking"
    /\ json' = Absent
    /\ IF json = Absent
       THEN Goto(d, "done") /\ UNCHANGED bare
       ELSE Goto(d, "rmdir") /\ bare' = bare \cup {d}
    /\ UNCHANGED <<dir, temp, lock, mem, acked, counts>>

\* Mutant: the folder is removed with all it contains.
RmdirRecursive(d) ==
    /\ pc[d] = "rmdir"
    /\ dir' = FALSE /\ temp' = {} /\ json' = Absent
    /\ acked' = acked \cup {d}
    /\ Goto(d, "done")
    /\ UNCHANGED <<lock, mem, bare, counts>>

\* rmdir refuses a folder that is not empty: a package.json written meanwhile,
\* a lock file, or a temporary file, forgotten or in use.
Rmdir(d) ==
    /\ pc[d] = "rmdir"
    /\ IF dir /\ json = Absent /\ lock = NoLock /\ temp = {}
       THEN dir' = FALSE /\ acked' = acked \cup {d}
       ELSE UNCHANGED <<dir, acked>>
    /\ Goto(d, "done")
    /\ UNCHANGED <<json, temp, lock, mem, bare, counts>>

-----------------------------------------------------------------------------
\* The process is killed: the requests under way are never answered; the
\* folder keeps its package.json, its temporary files and its lock file.
Crash ==
    /\ crashes < MaxCrashes
    /\ crashes' = crashes + 1
    /\ pc' = [r \in Req |-> IF pc[r] = "idle" THEN "idle" ELSE "done"]
    /\ lock' = IF lock = NoLock THEN NoLock ELSE Orphan
    /\ UNCHANGED <<dir, json, temp, mem, acked, bare, failures, faults>>

Update(u) ==
    \/ Stat(u) \/ Acquire(u) \/ StealLive(u) \/ GiveUp(u) \/ LockNoDir(u)
    \/ Read(u) \/ ReadFail(u) \/ Handle(u) \/ HandleFail(u) \/ Unlock(u)

\* Every request was answered: the client sends nothing more.
Finished == (\A r \in Req : pc[r] = "done") /\ UNCHANGED vars

Next ==
    \/ \E u \in Updaters : Update(u)
    \/ \E c \in Creators : Open(c)
    \/ \E s \in Savers : Load(s)
    \/ \E r \in Req : WriteTemp(r) \/ Rename(r) \/ WriteFail(r)
    \/ \E d \in Removers : Find(d) \/ Unlink(d) \/ Rmdir(d)
    \/ Crash
    \/ Finished

Spec == Init /\ [][Next]_vars

\* The file system answers every call and a handler calls back; a stale lock
\* is taken over, and 110 s of polling see a lock file come and go.
Fairness ==
    /\ \A u \in Updaters :
        /\ WF_vars(Acquire(u) \/ LockNoDir(u)) /\ WF_vars(Read(u) \/ ReadFail(u))
        /\ WF_vars(Handle(u) \/ HandleFail(u)) /\ WF_vars(Unlock(u))
    /\ \A r \in Req : WF_vars(WriteTemp(r)) /\ WF_vars(Rename(r))
    /\ \A d \in Removers : WF_vars(Unlink(d)) /\ WF_vars(Rmdir(d))

FairSpec == Spec /\ Fairness

-----------------------------------------------------------------------------
\* An update answered with success is in package.json, unless a lock was
\* refused or stolen, or a content was replaced or removed without the lock.
UpdatesSurvive ==
    failures = 0 /\ bare = {} =>
        \A u \in acked \cap Updaters : Readable /\ u \in json

\* Nobody finds package.json empty but while it is being created, or after a
\* creation that a crash or a failing write cut short.
EmptyOnlyWhileCreating ==
    json = Empty =>
        \/ \E c \in Creators : pc[c] \in {"writing", "renaming"}
        \/ faults + crashes > 0

\* A folder that was removed comes back only for a creation or a save: an
\* update that was under way does not bring the package back.
NoResurrection ==
    [][~dir /\ dir' /\ failures = 0 =>
          \E r \in Creators \cup Savers : pc[r] = "writing" /\ pc'[r] = "renaming"]_vars

\* An empty package.json that nobody is about to replace stays: it can be
\* neither created, updated, saved nor removed through the registry.
NoWriter == \A r \in Req : pc[r] \notin {"updating", "writing", "renaming", "unlinking"}
EmptyIsFinal ==
    [][json = Empty /\ NoWriter => json' = Empty /\ NoWriter']_vars

\* Every request that started is answered, or died with the process.
RequestsEnd == \A r \in Req : pc[r] # "idle" ~> pc[r] = "done"


-----------------------------------------------------------------------------
\* updatePackage follows the protocol of core/file-locking, so that what is
\* proved of FileLocking holds of package.json.
lockPc == [u \in Updaters |->
             CASE pc[u] \in {"idle", "done"} -> "idle"
               [] pc[u] \in {"locking", "reading"} -> pc[u]
               [] OTHER -> "holding"]

Locking == INSTANCE FileLocking
           WITH Proc <- Updaters, stage <- lockPc,
                MaxFailures <- MaxFailures + Cardinality(Updaters)

FollowsLocking == Locking!LockSpec

\* With a lock that is never refused or stolen, one creation and neither saves
\* nor removals, the folder is an atomic store.  An empty package.json counts
\* as no package.
Store == INSTANCE PackageStore
         WITH value <- IF json = Empty THEN Absent ELSE json

ImplementsStore == Store!Spec
=============================================================================
