---------------------------- MODULE FileLocking ----------------------------
(***************************************************************************)
(* core/file-locking: advisory locking of one file through a lock file      *)
(* beside it (<name>.lock).  readFile(name, {lock: true}) checks that the   *)
(* file is there, takes the lock, reads and parses; its caller then works   *)
(* on the file and calls unlockFile(name).                                  *)
(*                                                                          *)
(* The lock file is created and removed by the npm module "lockfile", which *)
(* is not in the repository: its outcomes are taken from the options the    *)
(* code passes (retry for about 110 s, a lock older than 5 min is stale)    *)
(* and from the callback the code gives it, which ignores the error.        *)
(*                                                                          *)
(* What the protected file holds is left to the modules that use the lock,  *)
(* so that a stat, a read or a parse may fail at any time here.             *)
(***************************************************************************)
EXTENDS Naturals, FiniteSets

CONSTANTS
    Proc,           \* the operations that lock the file
    NoLock,         \* there is no lock file
    Orphan,         \* the lock file of an operation that will not unlock
    MaxFailures,    \* bound: locks refused or stolen from a live operation
    MaxCrashes      \* bound: crashes of the process

ASSUME ProcAssumption == IsFiniteSet(Proc) /\ NoLock \notin Proc /\ Orphan \notin Proc
ASSUME LockMarkAssumption == NoLock # Orphan
ASSUME BoundAssumption == MaxFailures \in Nat /\ MaxCrashes \in Nat

VARIABLES
    lock,       \* the lock file: NoLock, Orphan, or the operation that created it
    stage,      \* the progress of each operation
    failures,   \* how many locks were refused or stolen so far
    crashes     \* how many times the process died so far

lockVars == <<lock, stage, failures, crashes>>

Stage == {"idle", "locking", "reading", "holding"}

LockTypeOK ==
    /\ lock \in Proc \cup {NoLock, Orphan}
    /\ stage \in [Proc -> Stage]
    /\ failures \in Nat
    /\ crashes \in Nat

\* The operations that believe they own the file.
Inside == {p \in Proc : stage[p] \in {"reading", "holding"}}

LockInit ==
    /\ lock = NoLock
    /\ stage = [p \in Proc |-> "idle"]
    /\ failures = 0
    /\ crashes = 0

-----------------------------------------------------------------------------
\* Mutant: a failing stat is answered by removing the lock file.
StatFailUnlocks(p) ==
    /\ stage[p] = "idle"
    /\ \/ stage' = [stage EXCEPT ![p] = "locking"] /\ UNCHANGED lock
       \/ lock' = NoLock /\ UNCHANGED stage
    /\ UNCHANGED <<failures, crashes>>

\* lockFile: statDir and statfile succeed.  A failing stat reports the error
\* before any lock is taken and leaves everything as it was.
Stat(p) ==
    /\ stage[p] = "idle"
    /\ stage' = [stage EXCEPT ![p] = "locking"]
    /\ UNCHANGED <<lock, failures, crashes>>

\* Mutant: the lock file is opened without the exclusive flag.
AcquireShared(p) ==
    /\ stage[p] = "locking"
    /\ lock' = p
    /\ stage' = [stage EXCEPT ![p] = "reading"]
    /\ UNCHANGED <<failures, crashes>>

\* locker.lock creates the lock file.
Acquire(p) ==
    /\ stage[p] = "locking"
    /\ lock = NoLock
    /\ lock' = p
    /\ stage' = [stage EXCEPT ![p] = "reading"]
    /\ UNCHANGED <<failures, crashes>>

\* locker.lock removes a lock file older than 5 minutes whose operation is
\* gone, and creates its own.
StealOrphan(p) ==
    /\ stage[p] = "locking"
    /\ lock = Orphan
    /\ lock' = p
    /\ stage' = [stage EXCEPT ![p] = "reading"]
    /\ UNCHANGED <<failures, crashes>>

\* The same, but the operation that locked 5 minutes ago is still at work.
StealLive(p) ==
    /\ stage[p] = "locking"
    /\ lock \in Proc
    /\ failures < MaxFailures
    /\ failures' = failures + 1
    /\ lock' = p
    /\ stage' = [stage EXCEPT ![p] = "reading"]
    /\ UNCHANGED crashes

\* locker.lock fails (retries used up, no permission, no directory ...): the
\* callback resolves all the same and the operation goes on without the lock.
GiveUp(p) ==
    /\ stage[p] = "locking"
    /\ failures < MaxFailures
    /\ failures' = failures + 1
    /\ stage' = [stage EXCEPT ![p] = "reading"]
    /\ UNCHANGED <<lock, crashes>>

\* fs.readFile and JSON.parse succeed: the caller's callback runs.
Read(p) ==
    /\ stage[p] = "reading"
    /\ stage' = [stage EXCEPT ![p] = "holding"]
    /\ UNCHANGED <<lock, failures, crashes>>

\* fs.readFile or JSON.parse fails after the lock was taken: the caller gets
\* an error, believes it has no lock, and nobody unlocks.
ReadFail(p) ==
    /\ stage[p] = "reading"
    /\ stage' = [stage EXCEPT ![p] = "idle"]
    /\ lock' = IF lock = p THEN Orphan ELSE lock
    /\ UNCHANGED <<failures, crashes>>

\* unlockFile: the lock file is removed, whoever created it.
Unlock(p) ==
    /\ stage[p] = "holding"
    /\ stage' = [stage EXCEPT ![p] = "idle"]
    /\ lock' = NoLock
    /\ UNCHANGED <<failures, crashes>>

\* The process is killed: its operations are gone, the lock file stays.
Crash ==
    /\ crashes < MaxCrashes
    /\ crashes' = crashes + 1
    /\ stage' = [p \in Proc |-> "idle"]
    /\ lock' = IF lock = NoLock THEN NoLock ELSE Orphan
    /\ UNCHANGED failures

LockNext ==
    \/ \E p \in Proc :
        \/ Stat(p) \/ Acquire(p) \/ StealOrphan(p) \/ StealLive(p)
        \/ GiveUp(p) \/ Read(p) \/ ReadFail(p) \/ Unlock(p)
    \/ Crash

LockSpec == LockInit /\ [][LockNext]_lockVars

-----------------------------------------------------------------------------
\* The number of operations that own the file together is bounded by the
\* failures of the lock: one more for each lock that was refused (and the
\* refusal ignored) or stolen from a live operation, plus the one whose lock
\* file is there.  An intruder that leaves removes the lock of the rightful
\* holder and lets another one in, and still the overlap does not grow.
OverlapBound ==
    Cardinality(Inside) <= failures + (IF lock \in Inside THEN 1 ELSE 0)

\* lockfile.ts promises "locks a file": while no lock was refused or stolen,
\* two operations never own the file at once.
MutualExclusion ==
    failures = 0 => \A p, q \in Inside : p = q

\* A lock file that an operation created and that is not stale stands for an
\* operation still at work: nothing but a crash or a failed read leaves it behind.
LockHasOwner == lock \in Proc => lock \in Inside

\* As long as no lock was refused or stolen, a lock file disappears only
\* because its own operation leaves (unlocks, fails to read, or dies).
RemovedByOwner ==
    [][failures' = 0 /\ lock \in Proc /\ lock' # lock => lock \notin Inside']_lockVars
=============================================================================
