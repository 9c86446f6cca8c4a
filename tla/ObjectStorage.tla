---------------------------- MODULE ObjectStorage ----------------------------
(***************************************************************************)
(* The storage plugins that keep a package elsewhere than in a folder:      *)
(* plugins/aws-storage (S3PackageManager), plugins/google-cloud-storage      *)
(* (GoogleCloudStorageHandler) and plugins/memory (MemoryHandler).  None of  *)
(* them locks: an update reads package.json and puts it back, a creation     *)
(* looks whether it is there and puts it.  One package and one tarball.      *)
(*                                                                          *)
(* A call is one method of the plugin called by LocalStorage.  package.json  *)
(* is the set of the calls whose change it holds; the objects of a bucket    *)
(* are read and put at once, and the service may fail, before it has done    *)
(* what it was asked or after.                                               *)
(***************************************************************************)
EXTENDS Naturals, FiniteSets

CONSTANTS
    Call,       \* the calls, in the order in which they begin
    MaxFaults,  \* how often the service fails
    None

ASSUME ObjectStorageAssumption ==
    /\ Call \subseteq Nat /\ MaxFaults \in Nat
    /\ (\A S \in SUBSET Call : S # None) /\ \A c \in Call, w \in BOOLEAN : [by |-> c, whole |-> w] # None

VARIABLES
    plugin,     \* "s3", "google" or "memory"
    metadata,   \* package.json: None, or the changes it holds
    tarball,    \* None, or who wrote it and whether it is whole
    op, pc,     \* the method of each call, and where it stands
    snap,       \* the package.json that an update has read
    listed,     \* the objects that removePackage has found
    asked,      \* what the client asked of an upload: done, abort, or a late
                \* abort after done
    told,       \* what each call answered, or the last event of its stream
    faults,
    alone       \* history: calls that no other one overlaps

vars == <<plugin, metadata, tarball, op, pc, snap, listed, asked, told, faults, alone>>
fixed == <<plugin, op, asked, alone>>   \* what a step of a plugin leaves alone

Plugins == {"s3", "google", "memory"}
Methods == {"createPackage", "updatePackage", "readPackage", "deletePackage", "removePackage",
            "deleteTarball", "writeTarball", "readTarball"}
Objects == {"package.json", "tarball"}
DeleteOf == [o \in Objects |-> IF o = "tarball" THEN "deleteTarball" ELSE "deletePackage"]
Tarball == [by : Call, whole : BOOLEAN]

TypeOK ==
    /\ plugin \in Plugins
    /\ metadata \in (SUBSET Call) \cup {None} /\ tarball \in Tarball \cup {None}
    /\ op \in [Call -> Methods \cup {"none"}]
    /\ pc \in [Call -> {"idle", "called", "put", "delete", "open", "flowing", "stored", "over"}]
    /\ snap \in [Call -> SUBSET Call] /\ listed \in [Call -> SUBSET Objects]
    /\ asked \in [Call -> {"nothing", "done", "abort", "late"}]
    /\ told \in [Call -> {"nothing", "ok", "error", "conflict", "missing", "rejected", "truncated"}]
    /\ faults \in 0..MaxFaults /\ alone \subseteq Call

Init ==
    /\ plugin \in Plugins /\ metadata = None /\ tarball = None
    /\ op = [c \in Call |-> "none"] /\ pc = [c \in Call |-> "idle"]
    /\ snap = [c \in Call |-> {}] /\ listed = [c \in Call |-> {}]
    /\ asked = [c \in Call |-> "nothing"] /\ told = [c \in Call |-> "nothing"]
    /\ faults = 0 /\ alone = Call

-----------------------------------------------------------------------------
Running == {c \in Call : pc[c] \notin {"idle", "over"}}

\* A method is called.
Begin(c, m) ==
    /\ pc[c] = "idle" /\ \A d \in Call : d < c => pc[d] # "idle"
    /\ pc' = [pc EXCEPT ![c] = "called"] /\ op' = [op EXCEPT ![c] = m]
    /\ alone' = IF Running = {} THEN alone ELSE alone \ (Running \cup {c})
    /\ UNCHANGED <<plugin, metadata, tarball, snap, listed, asked, told, faults>>

Calls(c, p, m, at) == plugin = p /\ op[c] = m /\ pc[c] = at
To(c, at) == pc' = [pc EXCEPT ![c] = at] /\ UNCHANGED told
Answer(c, x) == pc' = [pc EXCEPT ![c] = "over"] /\ told' = [told EXCEPT ![c] = x]

Aborted(c) == asked[c] \in {"abort", "late"}

\* The service fails, and the method answers x.
FailsWith(c, x) == faults < MaxFaults /\ faults' = faults + 1 /\ Answer(c, x)
Fails(c) == FailsWith(c, "error")

-----------------------------------------------------------------------------
(* S3PackageManager *)

\* Mutant: what is there already is put over.
S3CreateOver(c) ==
    /\ Calls(c, "s3", "createPackage", "called") /\ To(c, "put")
    /\ UNCHANGED <<fixed, metadata, tarball, snap, listed, faults>>

\* createPackage: headObject, and putObject if it is not there.
S3Create(c) ==
    /\ Calls(c, "s3", "createPackage", "called")
    /\ \/ Fails(c)
       \/ (IF metadata # None THEN Answer(c, "conflict") ELSE To(c, "put")) /\ UNCHANGED faults
    /\ UNCHANGED <<fixed, metadata, tarball, snap, listed>>

\* updatePackage reads package.json, and its handler may refuse.
S3Update(c) ==
    /\ Calls(c, "s3", "updatePackage", "called")
    /\ \/ Fails(c) /\ UNCHANGED snap
       \/ metadata = None /\ Answer(c, "missing") /\ UNCHANGED <<snap, faults>>
       \/ metadata # None /\ Answer(c, "error") /\ UNCHANGED <<snap, faults>>
       \/ metadata # None /\ To(c, "put") /\ snap' = [snap EXCEPT ![c] = metadata] /\ UNCHANGED faults
    /\ UNCHANGED <<fixed, metadata, tarball, listed>>

\* The answer of a service that fails does not say whether it has stored.
Put(c) ==
    /\ \/ metadata' = snap[c] \cup {c} /\ Answer(c, "ok") /\ UNCHANGED faults
       \/ Fails(c) /\ metadata' \in {metadata, snap[c] \cup {c}}
    /\ snap' = [snap EXCEPT ![c] = {}]
    /\ UNCHANGED <<fixed, tarball, listed>>

S3Save(c) == plugin = "s3" /\ pc[c] = "put" /\ Put(c)

S3ReadPackage(c) ==
    /\ Calls(c, "s3", "readPackage", "called")
    /\ Fails(c) \/ (Answer(c, IF metadata = None THEN "missing" ELSE "ok") /\ UNCHANGED faults)
    /\ UNCHANGED <<fixed, metadata, tarball, snap, listed>>

\* deletePackage deletes an object, and does not mind that it is not there.
Deletes(o) ==
    /\ metadata' = IF o = "package.json" THEN None ELSE metadata
    /\ tarball' = IF o = "tarball" THEN None ELSE tarball

S3Delete(c, o) ==
    /\ Calls(c, "s3", DeleteOf[o], "called")
    /\ \/ Deletes(o) /\ Answer(c, "ok") /\ UNCHANGED faults
       \/ Fails(c) /\ (Deletes(o) \/ UNCHANGED <<metadata, tarball>>)
    /\ UNCHANGED <<fixed, snap, listed>>

\* removePackage: deleteKeyPrefix lists the objects of the package, ...
S3List(c) ==
    LET there == (IF metadata # None THEN {"package.json"} ELSE {})
                 \cup (IF tarball # None THEN {"tarball"} ELSE {})
    IN
    /\ Calls(c, "s3", "removePackage", "called")
    /\ \/ Fails(c) /\ UNCHANGED listed
       \/ there = {} /\ Answer(c, "ok") /\ UNCHANGED <<listed, faults>>
       \/ there # {} /\ To(c, "delete") /\ listed' = [listed EXCEPT ![c] = there] /\ UNCHANGED faults
    /\ UNCHANGED <<fixed, metadata, tarball, snap>>

\* ... and deletes what was listed, or a part of it when the service fails;
\* removePackage then rejects, with no error, unlike when nothing was there.
S3RemoveListed(c) ==
    /\ Calls(c, "s3", "removePackage", "delete")
    /\ \/ /\ metadata' = IF "package.json" \in listed[c] THEN None ELSE metadata
          /\ tarball' = IF "tarball" \in listed[c] THEN None ELSE tarball
          /\ Answer(c, "rejected") /\ UNCHANGED faults
       \/ /\ Fails(c)
          /\ metadata' = metadata \/ ("package.json" \in listed[c] /\ metadata' = None)
          /\ tarball' = tarball \/ ("tarball" \in listed[c] /\ tarball' = None)
    /\ listed' = [listed EXCEPT ![c] = {}]
    /\ UNCHANGED <<fixed, snap>>

\* writeTarball: the tarball must not be there (headObject, exists).
Checks(c) ==
    /\ \/ Fails(c)
       \/ (IF tarball # None THEN Answer(c, "conflict") ELSE To(c, "open")) /\ UNCHANGED faults
    /\ UNCHANGED <<fixed, metadata, tarball, snap, listed>>

S3Check(c) == Calls(c, "s3", "writeTarball", "called") /\ Checks(c)

\* What the service may have stored when the upload ends otherwise than well:
\* nothing before the end of the data.
MayStore(c) ==
    \/ UNCHANGED tarball
    \/ pc[c] = "flowing" /\ asked[c] # "abort" /\ tarball' = [by |-> c, whole |-> TRUE]

\* Mutant: done does not wait for the answer of the service.
S3StoreUnheard(c) ==
    /\ Calls(c, "s3", "writeTarball", "flowing") /\ asked[c] = "done" /\ To(c, "stored")
    /\ \/ tarball' = [by |-> c, whole |-> TRUE] /\ UNCHANGED faults
       \/ faults < MaxFaults /\ faults' = faults + 1 /\ UNCHANGED tarball
    /\ UNCHANGED <<fixed, metadata, snap, listed>>

\* Mutant: an upload that fails only leaves its promise pending.
S3StoreSilent(c) ==
    /\ Calls(c, "s3", "writeTarball", "flowing") /\ asked[c] = "done"
    /\ \/ tarball' = [by |-> c, whole |-> TRUE] /\ To(c, "stored") /\ UNCHANGED faults
       \/ FailsWith(c, "nothing") /\ UNCHANGED tarball
    /\ UNCHANGED <<fixed, metadata, snap, listed>>

\* All data are there: the object is stored, or the service fails.
S3Store(c) ==
    /\ Calls(c, "s3", "writeTarball", "flowing") /\ asked[c] = "done"
    /\ \/ tarball' = [by |-> c, whole |-> TRUE] /\ To(c, "stored") /\ UNCHANGED faults
       \/ Fails(c) /\ MayStore(c)
    /\ UNCHANGED <<fixed, metadata, snap, listed>>

\* abort cancels the upload, and builds a request to delete the object that is
\* never sent: what the service has stored by then stays.
S3Abort(c) ==
    /\ \E at \in {"open", "flowing"} : Calls(c, "s3", "writeTarball", at)
    /\ Aborted(c) /\ Answer(c, "error") /\ MayStore(c)
    /\ UNCHANGED <<fixed, metadata, snap, listed, faults>>

\* readTarball: the object is streamed as it is when it is opened.
Streams(c) == Answer(c, IF tarball = None THEN "missing" ELSE IF tarball.whole THEN "ok" ELSE "truncated")

S3ReadTarball(c) ==
    /\ Calls(c, "s3", "readTarball", "called")
    /\ Fails(c) \/ (Streams(c) /\ UNCHANGED faults)
    /\ UNCHANGED <<fixed, metadata, tarball, snap, listed>>

-----------------------------------------------------------------------------
(* GoogleCloudStorageHandler *)

GoogleCreate(c) ==
    /\ Calls(c, "google", "createPackage", "called")
    /\ \/ Fails(c)
       \/ (IF metadata # None THEN Answer(c, "conflict") ELSE To(c, "put")) /\ UNCHANGED faults
    /\ UNCHANGED <<fixed, metadata, tarball, snap, listed>>

\* updatePackage: a package that is not there is an internal error.
GoogleUpdate(c) ==
    /\ Calls(c, "google", "updatePackage", "called")
    /\ \/ Fails(c) /\ UNCHANGED snap
       \/ Answer(c, "error") /\ UNCHANGED <<snap, faults>>
       \/ metadata # None /\ To(c, "put") /\ snap' = [snap EXCEPT ![c] = metadata] /\ UNCHANGED faults
    /\ UNCHANGED <<fixed, metadata, tarball, listed>>

GoogleSave(c) == plugin = "google" /\ pc[c] = "put" /\ Put(c)

\* _readPackage: whatever goes wrong, the package is said to be missing.
GoogleReadPackage(c) ==
    /\ Calls(c, "google", "readPackage", "called")
    /\ FailsWith(c, "missing") \/ (Answer(c, IF metadata = None THEN "missing" ELSE "ok") /\ UNCHANGED faults)
    /\ UNCHANGED <<fixed, metadata, tarball, snap, listed>>

\* An object that is not there cannot be deleted.
GoogleDelete(c, o) ==
    LET absent == IF o = "package.json" THEN metadata = None ELSE tarball = None IN
    /\ Calls(c, "google", DeleteOf[o], "called")
    /\ \/ Deletes(o) /\ Answer(c, IF absent THEN "error" ELSE "ok") /\ UNCHANGED faults
       \/ Fails(c) /\ (Deletes(o) \/ UNCHANGED <<metadata, tarball>>)
    /\ UNCHANGED <<fixed, snap, listed>>

\* removePackage deletes an object with the name of the package: there is none.
GoogleRemove(c) ==
    /\ Calls(c, "google", "removePackage", "called")
    /\ Fails(c) \/ (Answer(c, "error") /\ UNCHANGED faults)
    /\ UNCHANGED <<fixed, metadata, tarball, snap, listed>>

GoogleCheck(c) == Calls(c, "google", "writeTarball", "called") /\ Checks(c)

\* done: the stream has ended, and then the service has answered.
GoogleStore(c) ==
    /\ Calls(c, "google", "writeTarball", "flowing") /\ asked[c] = "done"
    /\ \/ tarball' = [by |-> c, whole |-> TRUE] /\ To(c, "stored") /\ UNCHANGED faults
       \/ Fails(c) /\ MayStore(c)
    /\ UNCHANGED <<fixed, metadata, snap, listed>>

\* abort destroys the stream, and nobody is told.
GoogleAbort(c) ==
    /\ \E at \in {"open", "flowing"} : Calls(c, "google", "writeTarball", at)
    /\ Aborted(c) /\ Answer(c, "nothing") /\ MayStore(c)
    /\ UNCHANGED <<fixed, metadata, snap, listed, faults>>

GoogleReadTarball(c) ==
    /\ Calls(c, "google", "readTarball", "called")
    /\ Fails(c) \/ (Streams(c) /\ UNCHANGED faults)
    /\ UNCHANGED <<fixed, metadata, tarball, snap, listed>>

-----------------------------------------------------------------------------
(* MemoryHandler: a call on package.json is synchronous *)

\* createPackage does not look whether the package is there.
MemoryCreate(c) ==
    /\ Calls(c, "memory", "createPackage", "called")
    /\ metadata' = {c} /\ Answer(c, "ok")
    /\ UNCHANGED <<fixed, tarball, snap, listed, faults>>

MemoryUpdate(c) ==
    /\ Calls(c, "memory", "updatePackage", "called")
    /\ \/ Answer(c, "error") /\ UNCHANGED metadata
       \/ metadata # None /\ metadata' = metadata \cup {c} /\ Answer(c, "ok")
    /\ UNCHANGED <<fixed, tarball, snap, listed, faults>>

MemoryReadPackage(c) ==
    /\ Calls(c, "memory", "readPackage", "called")
    /\ Answer(c, IF metadata = None THEN "missing" ELSE "ok")
    /\ UNCHANGED <<fixed, metadata, tarball, snap, listed, faults>>

\* package.json is kept by the name of the package, tarballs in a file system of
\* their own: deletePackage deletes neither.
MemoryDelete(c) ==
    /\ \E o \in Objects : Calls(c, "memory", DeleteOf[o], "called")
    /\ Answer(c, "ok")
    /\ UNCHANGED <<fixed, metadata, tarball, snap, listed, faults>>

MemoryRemove(c) ==
    /\ Calls(c, "memory", "removePackage", "called") /\ Answer(c, "ok")
    /\ UNCHANGED <<fixed, metadata, tarball, snap, listed, faults>>

\* writeTarball: stat on the next tick.
MemoryCheck(c) ==
    /\ Calls(c, "memory", "writeTarball", "called")
    /\ IF tarball # None THEN Answer(c, "conflict") ELSE To(c, "open")
    /\ UNCHANGED <<fixed, metadata, tarball, snap, listed, faults>>

MemoryStore(c) ==
    /\ Calls(c, "memory", "writeTarball", "flowing") /\ asked[c] = "done"
    /\ tarball' = [by |-> c, whole |-> TRUE] /\ To(c, "stored")
    /\ UNCHANGED <<fixed, metadata, snap, listed, faults>>

\* abort ends the file where it is.
MemoryAbort(c) ==
    /\ \E at \in {"open", "flowing"} : Calls(c, "memory", "writeTarball", at)
    /\ Aborted(c) /\ Answer(c, "error")
    /\ \E w \in BOOLEAN : (w => asked[c] = "late") /\ tarball' = [by |-> c, whole |-> w]
    /\ UNCHANGED <<fixed, metadata, snap, listed, faults>>

MemoryReadTarball(c) ==
    /\ Calls(c, "memory", "readTarball", "called") /\ Streams(c)
    /\ UNCHANGED <<fixed, metadata, tarball, snap, listed, faults>>

-----------------------------------------------------------------------------
(* UploadTarball *)

\* The client ends its data and calls done, or aborts, at any time: before the
\* handlers are there the stream keeps the call for them.
Ask(c, x) ==
    /\ op[c] = "writeTarball" /\ pc[c] # "over"
    /\ asked[c] = "nothing" \/ (asked[c] = "done" /\ x = "abort")
    /\ asked' = [asked EXCEPT ![c] = IF @ = "done" THEN "late" ELSE x]
    /\ UNCHANGED <<plugin, metadata, tarball, op, pc, snap, listed, told, faults, alone>>

\* Data flow.  In memory they are in the file at once.
Flow(c) ==
    /\ op[c] = "writeTarball" /\ pc[c] = "open" /\ ~Aborted(c) /\ To(c, "flowing")
    /\ tarball' = IF plugin = "memory" THEN [by |-> c, whole |-> FALSE] ELSE tarball
    /\ UNCHANGED <<fixed, metadata, snap, listed, faults>>

\* "success", once the upload has answered.
Success(c) ==
    /\ op[c] = "writeTarball" /\ pc[c] = "stored" /\ Answer(c, "ok")
    /\ UNCHANGED <<fixed, metadata, tarball, snap, listed, faults>>

-----------------------------------------------------------------------------
S3Step(c) ==
    \/ S3Create(c) \/ S3Update(c) \/ S3Save(c) \/ S3ReadPackage(c)
    \/ S3List(c) \/ S3RemoveListed(c) \/ \E o \in Objects : S3Delete(c, o)
    \/ S3Check(c) \/ S3Store(c) \/ S3Abort(c) \/ S3ReadTarball(c)

GoogleStep(c) ==
    \/ GoogleCreate(c) \/ GoogleUpdate(c) \/ GoogleSave(c) \/ GoogleReadPackage(c)
    \/ GoogleRemove(c) \/ \E o \in Objects : GoogleDelete(c, o)
    \/ GoogleCheck(c) \/ GoogleStore(c) \/ GoogleAbort(c) \/ GoogleReadTarball(c)

MemoryStep(c) ==
    \/ MemoryCreate(c) \/ MemoryUpdate(c) \/ MemoryReadPackage(c) \/ MemoryDelete(c) \/ MemoryRemove(c)
    \/ MemoryCheck(c) \/ MemoryStore(c) \/ MemoryAbort(c) \/ MemoryReadTarball(c)

Step(c) == S3Step(c) \/ GoogleStep(c) \/ MemoryStep(c) \/ Flow(c) \/ Success(c)

Over == (\A c \in Call : pc[c] = "over" \/ (op[c] = "writeTarball" /\ asked[c] = "nothing")) /\ UNCHANGED vars

Next ==
    \/ \E c \in Call : (\E m \in Methods : Begin(c, m)) \/ (\E x \in {"done", "abort"} : Ask(c, x)) \/ Step(c)
    \/ Over

\* The service answers, and data that have come flow on.
Spec == Init /\ [][Next]_vars /\ \A c \in Call : WF_vars(op[c] = "writeTarball" /\ Step(c))

-----------------------------------------------------------------------------
\* Without a lock a change is lost to a call that overlaps it; but only so.  A
\* change made by a call that ran alone stays until the package is removed,
\* whatever calls overlap each other before and after.
Removing(c) == op[c] \in {"deletePackage", "removePackage"} /\ pc[c] # "called"

AloneIsKept ==
    \A c \in alone :
        /\ plugin # "memory" /\ op[c] \in {"createPackage", "updatePackage"} /\ told[c] = "ok"
        /\ ~ \E d \in Call : Removing(d)
        => metadata # None /\ c \in metadata

\* A tarball whose upload is reported stored is there until it is deleted, and
\* if no call overlapped that upload it is whole and the one that was sent,
\* whatever uploads overlap each other afterwards.  A bucket has the tarball of
\* nobody who aborted before the end of the data; after it, and when the service
\* fails, a tarball may be there though the upload was told an error.
Deleted == \E d \in Call : op[d] \in {"removePackage", "deleteTarball"} /\ pc[d] = "over"

UploadHonest ==
    /\ \A c \in Call : op[c] = "writeTarball" /\ told[c] = "ok" =>
        Deleted \/ (tarball # None /\ (c \in alone => tarball = [by |-> c, whole |-> TRUE]))
    /\ plugin # "memory" /\ tarball # None => asked[tarball.by] \in {"done", "late"}

\* An upload that the client has ended gets its answer, also when done is called
\* before the plugin is ready for it; an abort may stay without one.
UploadAnswered == \A c \in Call : asked[c] = "done" ~> (told[c] # "nothing" \/ Aborted(c))
=============================================================================
