-------------------------- MODULE PackageJson_proofs --------------------------
(***************************************************************************)
(* What changes of package.json can rely on, without a lock and with one.   *)
(*                                                                          *)
(* The storage plugins have no lock: there a change lasts if it was made by *)
(* a call that ran alone.  Then every package.json that was read since has  *)
(* it, and so has every one that may still be put.                          *)
(*                                                                          *)
(* core/file-locking guarantees its bound for any number of operations,     *)
(* refused or stolen locks, and crashes.  The bound on the overlap is       *)
(* inductive together with LockHasOwner, which tells an operation that      *)
(* leaves whether the lock file it removes was its own.                     *)
(***************************************************************************)
EXTENDS FileLocking, ObjectStorage, FiniteSetTheorems, TLAPS

-----------------------------------------------------------------------------
(* ObjectStorage *)

\* Where a call of the method m may be.
Fits(m, at) ==
    /\ at = "put" => m \in {"createPackage", "updatePackage"}
    /\ at \in {"open", "flowing", "stored"} => m = "writeTarball"
    /\ at = "delete" => m = "removePackage"
    /\ at = "idle" => m = "none"

Placed == \A c \in Call : Fits(op[c], pc[c])

Unanswered == \A c \in Call : pc[c] # "over" => told[c] = "nothing"

\* A call that still counts as alone runs with no other.
AloneRuns == \A c \in alone, d \in Running : c \in Running => c = d

\* The change of c is in package.json, and stays when what was read is put.
Settled(c) == metadata # None /\ c \in metadata /\ \A d \in Call : pc[d] = "put" => c \in snap[d]

Changed(c) == op[c] \in {"createPackage", "updatePackage"} /\ told[c] = "ok"

Lasting ==
    plugin # "memory" /\ (\A d \in Call : ~Removing(d)) => \A c \in alone : Changed(c) => Settled(c)

\* An upload that the service has answered, or of which success was told.
Uploaded(c) == op[c] = "writeTarball" /\ (pc[c] = "stored" \/ told[c] = "ok")

Writing == {"open", "flowing", "stored"}

\* A tarball that is stored is there when its success is told.
Stored == \A c \in Call : Uploaded(c) => tarball # None \/ Deleted

\* The upload of a call that ran alone is there as it was sent, and no other has
\* passed the check for a tarball that exists.
OwnTarball ==
    \A c \in alone : Uploaded(c) =>
        Deleted \/ (tarball = [by |-> c, whole |-> TRUE] /\ \A d \in Call \ {c} : pc[d] \notin Writing)

\* Only memory keeps what was aborted before its end.
Sent == plugin # "memory" /\ tarball # None => asked[tarball.by] \in {"done", "late"}

Calling == TypeOK /\ Placed /\ Unanswered /\ AloneRuns

StoreInv == Calling /\ Lasting /\ Stored /\ OwnTarball /\ Sent

LEMMA StoreInit == Init => StoreInv
<1> SUFFICES ASSUME Init PROVE StoreInv
    OBVIOUS
<1>1. TypeOK
    BY ObjectStorageAssumption DEF Init, TypeOK
<1>2. Running = {} /\ \A c \in Call : ~Changed(c)
    BY DEF Init, Running, Changed
<1> QED
    BY <1>1, <1>2 DEF StoreInv, Calling, Init, Placed, Fits, Unanswered, AloneRuns, Lasting,
       Stored, OwnTarball, Sent, Uploaded

At == {"put", "delete", "open", "flowing", "stored", "over"}
Told == {"nothing", "ok", "error", "conflict", "missing", "rejected", "truncated"}

\* A step of a plugin moves its call, and answers it at the end.
Moved(c) ==
    /\ UNCHANGED fixed /\ c \in Running
    /\ pc' = [pc EXCEPT ![c] = pc'[c]] /\ pc'[c] \in At /\ Fits(op[c], pc'[c])
    /\ told' = [told EXCEPT ![c] = told'[c]] /\ told'[c] \in Told
    /\ pc'[c] # "over" => told'[c] = told[c]

LEMMA S3Moves ==
    ASSUME TypeOK, NEW c \in Call, S3Step(c)
    PROVE  Moved(c)
<1> USE DEF At, Told, Fits, Moved, fixed, Running, Calls, To, Answer, Fails, FailsWith, TypeOK
<1>1. CASE S3Create(c) \/ S3Update(c) \/ S3Save(c) \/ S3ReadPackage(c)
    BY <1>1 DEF S3Create, S3Update, S3Save, Put, S3ReadPackage
<1>2. CASE S3List(c) \/ S3RemoveListed(c) \/ \E o \in Objects : S3Delete(c, o)
    BY <1>2 DEF S3List, S3RemoveListed, S3Delete
<1>3. CASE S3Check(c) \/ S3Store(c) \/ S3Abort(c) \/ S3ReadTarball(c)
    BY <1>3 DEF S3Check, Checks, S3Store, S3Abort, S3ReadTarball, Streams
<1> QED
    BY <1>1, <1>2, <1>3 DEF S3Step

LEMMA GoogleMoves ==
    ASSUME TypeOK, NEW c \in Call, GoogleStep(c)
    PROVE  Moved(c)
<1> USE DEF At, Told, Fits, Moved, fixed, Running, Calls, To, Answer, Fails, FailsWith, TypeOK
<1>1. CASE GoogleCreate(c) \/ GoogleUpdate(c) \/ GoogleSave(c) \/ GoogleReadPackage(c)
    BY <1>1 DEF GoogleCreate, GoogleUpdate, GoogleSave, Put, GoogleReadPackage
<1>2. CASE GoogleRemove(c) \/ \E o \in Objects : GoogleDelete(c, o)
    BY <1>2 DEF GoogleRemove, GoogleDelete
<1>3. CASE GoogleCheck(c) \/ GoogleStore(c) \/ GoogleAbort(c) \/ GoogleReadTarball(c)
    BY <1>3 DEF GoogleCheck, Checks, GoogleStore, GoogleAbort, GoogleReadTarball, Streams
<1> QED
    BY <1>1, <1>2, <1>3 DEF GoogleStep

LEMMA MemoryMoves ==
    ASSUME TypeOK, NEW c \in Call, MemoryStep(c)
    PROVE  Moved(c)
<1> USE DEF At, Told, Fits, Moved, fixed, Running, Calls, To, Answer, TypeOK
<1>1. CASE MemoryCreate(c) \/ MemoryUpdate(c) \/ MemoryReadPackage(c)
    BY <1>1 DEF MemoryCreate, MemoryUpdate, MemoryReadPackage
<1>2. CASE MemoryDelete(c) \/ MemoryRemove(c)
    BY <1>2 DEF MemoryDelete, MemoryRemove
<1>3. CASE MemoryCheck(c) \/ MemoryStore(c) \/ MemoryAbort(c) \/ MemoryReadTarball(c)
    BY <1>3 DEF MemoryCheck, MemoryStore, MemoryAbort, MemoryReadTarball, Streams
<1> QED
    BY <1>1, <1>2, <1>3 DEF MemoryStep

LEMMA StepMoves ==
    ASSUME TypeOK, NEW c \in Call, Step(c)
    PROVE  Moved(c)
<1>1. CASE Flow(c) \/ Success(c)
    BY <1>1 DEF Flow, Success, At, Told, Fits, Moved, fixed, Running, To, Answer, TypeOK
<1> QED
    BY <1>1, S3Moves, GoogleMoves, MemoryMoves DEF Step

\* The objects that the steps leave behind.
LEMMA StepTyped ==
    ASSUME TypeOK, NEW c \in Call, Step(c)
    PROVE  TypeOK'
<1>1. Moved(c)
    BY StepMoves
<1>2. faults' = faults \/ (faults < MaxFaults /\ faults' = faults + 1)
    <2> USE DEF Fails, FailsWith
    <2>1. CASE S3Step(c)
        BY <2>1 DEF S3Step, S3Create, S3Update, S3Save, Put, S3ReadPackage, S3List, S3RemoveListed, S3Delete, S3Check,
                    Checks, S3Store, S3Abort, S3ReadTarball
    <2>2. CASE GoogleStep(c)
        BY <2>2 DEF GoogleStep, GoogleCreate, GoogleUpdate, GoogleSave, Put, GoogleReadPackage, GoogleRemove,
                    GoogleDelete, GoogleCheck, Checks, GoogleStore, GoogleAbort, GoogleReadTarball
    <2>3. CASE MemoryStep(c)
        BY <2>3 DEF MemoryStep, MemoryCreate, MemoryUpdate, MemoryReadPackage, MemoryDelete, MemoryRemove, MemoryCheck,
                    MemoryStore, MemoryAbort, MemoryReadTarball
    <2> QED
        BY <2>1, <2>2, <2>3 DEF Step, Flow, Success
<1>3. metadata' \in {metadata, None, {c}, snap[c] \cup {c}} \/ (metadata # None /\ metadata' = metadata \cup {c})
    <2>1. CASE S3Step(c)
        BY <2>1 DEF S3Step, S3Create, S3Update, S3Save, Put, S3ReadPackage, S3List, S3RemoveListed, S3Delete, S3Check,
                    Checks, S3Store, S3Abort, S3ReadTarball, Deletes
    <2>2. CASE GoogleStep(c)
        BY <2>2 DEF GoogleStep, GoogleCreate, GoogleUpdate, GoogleSave, Put, GoogleReadPackage, GoogleRemove,
                    GoogleDelete, GoogleCheck, Checks, GoogleStore, GoogleAbort, GoogleReadTarball, Deletes
    <2>3. CASE MemoryStep(c)
        BY <2>3 DEF MemoryStep, MemoryCreate, MemoryUpdate, MemoryReadPackage, MemoryDelete, MemoryRemove, MemoryCheck,
                    MemoryStore, MemoryAbort, MemoryReadTarball
    <2> QED
        BY <2>1, <2>2, <2>3 DEF Step, Flow, Success
<1>4. tarball' \in {tarball, None} \cup {[by |-> c, whole |-> w] : w \in BOOLEAN}
    <2>1. CASE S3Step(c)
        BY <2>1 DEF S3Step, S3Create, S3Update, S3Save, Put, S3ReadPackage, S3List, S3RemoveListed, S3Delete, S3Check,
                    Checks, S3Store, S3Abort, S3ReadTarball, Deletes, MayStore
    <2>2. CASE GoogleStep(c)
        BY <2>2 DEF GoogleStep, GoogleCreate, GoogleUpdate, GoogleSave, Put, GoogleReadPackage, GoogleRemove,
                    GoogleDelete, GoogleCheck, Checks, GoogleStore, GoogleAbort, GoogleReadTarball, Deletes, MayStore
    <2>3. CASE MemoryStep(c)
        BY <2>3 DEF MemoryStep, MemoryCreate, MemoryUpdate, MemoryReadPackage, MemoryDelete, MemoryRemove, MemoryCheck,
                    MemoryStore, MemoryAbort, MemoryReadTarball
    <2> QED
        BY <2>1, <2>2, <2>3 DEF Step, Flow, Success
<1>5. \/ UNCHANGED snap \/ snap' = [snap EXCEPT ![c] = {}]
      \/ metadata # None /\ snap' = [snap EXCEPT ![c] = metadata]
    <2>1. CASE S3Step(c)
        BY <2>1 DEF S3Step, S3Create, S3Update, S3Save, Put, S3ReadPackage, S3List, S3RemoveListed, S3Delete, S3Check,
                    Checks, S3Store, S3Abort, S3ReadTarball
    <2>2. CASE GoogleStep(c)
        BY <2>2 DEF GoogleStep, GoogleCreate, GoogleUpdate, GoogleSave, Put, GoogleReadPackage, GoogleRemove,
                    GoogleDelete, GoogleCheck, Checks, GoogleStore, GoogleAbort, GoogleReadTarball
    <2>3. CASE MemoryStep(c)
        BY <2>3 DEF MemoryStep, MemoryCreate, MemoryUpdate, MemoryReadPackage, MemoryDelete, MemoryRemove, MemoryCheck,
                    MemoryStore, MemoryAbort, MemoryReadTarball
    <2> QED
        BY <2>1, <2>2, <2>3 DEF Step, Flow, Success
<1>6. UNCHANGED listed \/ \E os \in SUBSET Objects : listed' = [listed EXCEPT ![c] = os]
    <2>1. CASE S3Step(c) /\ ~S3List(c) /\ ~S3RemoveListed(c)
        BY <2>1 DEF S3Step, S3Create, S3Update, S3Save, Put, S3ReadPackage, S3Delete, S3Check,
                    Checks, S3Store, S3Abort, S3ReadTarball
    <2>2. CASE S3List(c)
        BY <2>2 DEF S3List, Objects
    <2>3. CASE S3RemoveListed(c)
        BY <2>3 DEF S3RemoveListed
    <2>4. CASE GoogleStep(c)
        BY <2>4 DEF GoogleStep, GoogleCreate, GoogleUpdate, GoogleSave, Put, GoogleReadPackage, GoogleRemove,
                    GoogleDelete, GoogleCheck, Checks, GoogleStore, GoogleAbort, GoogleReadTarball
    <2>5. CASE MemoryStep(c)
        BY <2>5 DEF MemoryStep, MemoryCreate, MemoryUpdate, MemoryReadPackage, MemoryDelete, MemoryRemove, MemoryCheck,
                    MemoryStore, MemoryAbort, MemoryReadTarball
    <2> QED
        BY <2>1, <2>2, <2>3, <2>4, <2>5 DEF Step, Flow, Success
<1>7. /\ pc' \in [Call -> {"idle", "called", "put", "delete", "open", "flowing", "stored", "over"}]
      /\ told' \in [Call -> {"nothing", "ok", "error", "conflict", "missing", "rejected", "truncated"}]
    BY <1>1 DEF TypeOK, Moved, At, Told
<1>8. faults' \in 0..MaxFaults
    BY <1>2, ObjectStorageAssumption DEF TypeOK
<1>9. metadata' \in (SUBSET Call) \cup {None} /\ snap' \in [Call -> SUBSET Call] /\ listed' \in [Call -> SUBSET Objects]
    BY <1>3, <1>5, <1>6 DEF TypeOK
<1>10. tarball' \in Tarball \cup {None}
    BY <1>4 DEF TypeOK, Tarball
<1> QED
    BY <1>1, <1>7, <1>8, <1>9, <1>10 DEF TypeOK, Moved, fixed

\* Calls that a step moves are still where their method may be, and alone.
LEMMA CallingNext == Calling /\ [Next]_vars => Calling'
<1> SUFFICES ASSUME Calling, [Next]_vars
             PROVE  Calling'
    OBVIOUS
<1> USE DEF Calling
<1>1. CASE \E c \in Call : Step(c)
    <2>1. PICK c \in Call : Step(c)
        BY <1>1
    <2>2. Moved(c) /\ TypeOK'
        BY <2>1, StepMoves, StepTyped
    <2>3. Placed'
        BY <2>2 DEF Moved, fixed, Placed, TypeOK
    <2>4. Unanswered' /\ Running' \subseteq Running /\ alone' = alone
        BY <2>2 DEF Moved, fixed, Unanswered, Running, TypeOK
    <2> QED
        BY <2>2, <2>3, <2>4 DEF AloneRuns
<1>2. CASE \E c \in Call, m \in Methods : Begin(c, m)
    <2>1. PICK c \in Call, m \in Methods : Begin(c, m)
        BY <1>2
    <2>2. TypeOK' /\ Placed' /\ Unanswered'
        BY <2>1 DEF Begin, TypeOK, Placed, Fits, Unanswered
    <2>3. Running' = Running \cup {c} /\ c \notin Running
        BY <2>1 DEF Begin, Running, TypeOK
    <2>4. alone' = IF Running = {} THEN alone ELSE alone \ (Running \cup {c})
        BY <2>1 DEF Begin
    <2>5. AloneRuns'
        BY <2>3, <2>4 DEF AloneRuns
    <2> QED
        BY <2>2, <2>5
<1>3. CASE \E c \in Call, x \in {"done", "abort"} : Ask(c, x)
    BY <1>3 DEF Ask, TypeOK, Placed, Unanswered, AloneRuns, Running
<1>4. CASE UNCHANGED vars
    BY <1>4 DEF vars, TypeOK, Placed, Unanswered, AloneRuns, Running
<1> QED
    BY <1>1, <1>2, <1>3, <1>4 DEF Next, Over

\* Outside of memory a call that removes nothing leaves package.json alone, or
\* puts what it has read with its own change; what it reads is there.
LEMMA StepPuts ==
    ASSUME Calling, NEW c \in Call, Step(c), plugin # "memory", ~Removing(c)'
    PROVE  /\ metadata' = metadata \/ (pc[c] = "put" /\ metadata' = snap[c] \cup {c})
           /\ pc'[c] = "put" => pc[c] # "put" /\ metadata' = metadata /\ (metadata = None \/ snap'[c] = metadata)
           /\ Changed(c)' => pc[c] = "put" /\ metadata' = snap[c] \cup {c}
           /\ \A d \in Call \ {c} : snap'[d] = snap[d]
<1> USE DEF Calling, TypeOK
<1>1. Moved(c) /\ op' = op /\ told[c] = "nothing" /\ Fits(op[c], pc[c])
    BY StepMoves DEF Moved, fixed, Unanswered, Placed, Running
<1>2. ~(op[c] \in {"deletePackage", "removePackage"} /\ pc'[c] # "called")
    BY <1>1 DEF Removing
<1>3. pc'[c] # "called"
    BY <1>1 DEF Moved, At
<1>4. Changed(c)' => pc'[c] = "over" /\ told'[c] = "ok" /\ op[c] \in {"createPackage", "updatePackage"}
    BY <1>1 DEF Changed, Moved
<1> USE DEF Calls, To, Answer, Fails, FailsWith, fixed
<1>5. CASE S3Create(c) \/ S3Update(c) \/ GoogleCreate(c) \/ GoogleUpdate(c)
    BY <1>4, <1>5 DEF S3Create, S3Update, GoogleCreate, GoogleUpdate
<1>6. CASE S3Save(c) \/ GoogleSave(c)
    BY <1>4, <1>6 DEF S3Save, GoogleSave, Put
<1>7. CASE S3ReadPackage(c) \/ GoogleReadPackage(c)
    BY <1>4, <1>7 DEF S3ReadPackage, GoogleReadPackage
<1>8. CASE S3List(c) \/ S3RemoveListed(c) \/ GoogleRemove(c)
    BY <1>2, <1>3, <1>8 DEF S3List, S3RemoveListed, GoogleRemove
<1>9. CASE \E o \in Objects : S3Delete(c, o) \/ GoogleDelete(c, o)
    BY <1>2, <1>3, <1>4, <1>9 DEF S3Delete, GoogleDelete, Deletes, DeleteOf, Objects
<1>10. CASE S3Check(c) \/ S3Store(c) \/ S3Abort(c) \/ S3ReadTarball(c)
    BY <1>4, <1>10 DEF S3Check, Checks, S3Store, S3Abort, S3ReadTarball, Streams
<1>11. CASE GoogleCheck(c) \/ GoogleStore(c) \/ GoogleAbort(c) \/ GoogleReadTarball(c)
    BY <1>4, <1>11 DEF GoogleCheck, Checks, GoogleStore, GoogleAbort, GoogleReadTarball, Streams
<1>12. CASE Flow(c) \/ Success(c)
    BY <1>4, <1>12 DEF Flow, Success
<1>13. ~MemoryStep(c)
    BY DEF MemoryStep, MemoryCreate, MemoryUpdate, MemoryReadPackage, MemoryDelete, MemoryRemove, MemoryCheck,
           MemoryStore, MemoryAbort, MemoryReadTarball
<1> QED
    BY <1>5, <1>6, <1>7, <1>8, <1>9, <1>10, <1>11, <1>12, <1>13 DEF Step, S3Step, GoogleStep

LEMMA LastingStep ==
    ASSUME Calling, Lasting, NEW c \in Call, Step(c)
    PROVE  Lasting'
<1> SUFFICES ASSUME plugin' # "memory", \A d \in Call : ~Removing(d)', NEW e \in alone', Changed(e)'
             PROVE  Settled(e)'
    BY DEF Lasting
<1>1. Moved(c) /\ plugin # "memory" /\ e \in alone /\ alone \subseteq Call
    BY StepMoves DEF Calling, Moved, fixed, TypeOK
<1>2. /\ metadata' = metadata \/ (pc[c] = "put" /\ metadata' = snap[c] \cup {c})
      /\ pc'[c] = "put" => pc[c] # "put" /\ metadata' = metadata /\ (metadata = None \/ snap'[c] = metadata)
      /\ Changed(c)' => pc[c] = "put" /\ metadata' = snap[c] \cup {c}
      /\ \A d \in Call \ {c} : snap'[d] = snap[d]
    BY <1>1, StepPuts
<1>3. \A d \in Call \ {c} : pc'[d] = pc[d] /\ told'[d] = told[d]
    BY <1>1 DEF Moved, Calling, TypeOK
<1>4. snap[c] \cup {c} # None
    BY ObjectStorageAssumption DEF Calling, TypeOK
<1>5. CASE e # c
    <2>1. Changed(e)
        BY <1>1, <1>3, <1>5 DEF Changed, Moved, fixed
    <2>2. \A d \in Call : ~Removing(d)
        <3>1. op' = op /\ pc'[c] # "called"
            BY <1>1 DEF Moved, fixed, At
        <3>2. \A d \in Call : Removing(d) => Removing(d)'
            BY <1>3, <3>1 DEF Removing
        <3> QED
            BY <3>2
    <2>3. Settled(e)
        BY <1>1, <2>1, <2>2 DEF Lasting
    <2> QED
        BY <1>2, <1>3, <1>4, <2>3 DEF Settled
<1>6. CASE e = c
    <2>1. pc[c] = "put" /\ metadata' = snap[c] \cup {c} /\ pc'[c] # "put"
        BY <1>2, <1>6
    <2>2. \A d \in Call \ {c} : pc[d] # "put"
        BY <1>1, <1>6, <2>1 DEF Calling, AloneRuns, Running
    <2> QED
        BY <1>3, <1>4, <1>6, <2>1, <2>2 DEF Settled
<1> QED
    BY <1>5, <1>6

LEMMA LastingNext == Calling /\ Lasting /\ [Next]_vars => Lasting'
<1> SUFFICES ASSUME Calling, Lasting, [Next]_vars
             PROVE  Lasting'
    OBVIOUS
<1>1. CASE \E c \in Call, m \in Methods : Begin(c, m)
    <2>1. PICK c \in Call, m \in Methods : Begin(c, m)
        BY <1>1
    <2>2. /\ UNCHANGED <<plugin, metadata, snap, told>> /\ alone' \subseteq alone
          /\ pc[c] = "idle" /\ pc' = [pc EXCEPT ![c] = "called"] /\ op' = [op EXCEPT ![c] = m]
        BY <2>1 DEF Begin
    <2>3. told[c] = "nothing" /\ pc'[c] = "called"
        BY <2>2 DEF Calling, Unanswered, TypeOK
    <2>4. \A d \in Call \ {c} : pc'[d] = pc[d] /\ op'[d] = op[d]
        BY <2>2 DEF Calling, TypeOK
    <2>5. \A d \in Call : Changed(d)' => d # c /\ Changed(d)
        BY <2>2, <2>3, <2>4 DEF Changed
    <2>6. (\A d \in Call : ~Removing(d)') => \A d \in Call : ~Removing(d)
        BY <2>2, <2>4 DEF Removing, Calling, Placed, Fits
    <2>7. \A d \in Call : Settled(d) => Settled(d)'
        BY <2>2, <2>3, <2>4 DEF Settled
    <2> QED
        BY <2>2, <2>5, <2>6, <2>7 DEF Lasting, Calling, TypeOK
<1>2. CASE \E c \in Call, x \in {"done", "abort"} : Ask(c, x)
    BY <1>2 DEF Ask, Lasting, Removing, Changed, Settled
<1>3. CASE UNCHANGED vars
    BY <1>3 DEF vars, Lasting, Removing, Changed, Settled
<1> QED
    BY <1>1, <1>2, <1>3, LastingStep DEF Next, Over

\* What a step does to the tarball.  One that takes it away is a call that ends;
\* one that replaces it is an upload that found none; and one that ends an upload
\* with success found it stored.
LEMMA TarballStep ==
    ASSUME Calling, NEW c \in Call, Step(c)
    PROVE  /\ tarball' = tarball \/ pc[c] \in {"open", "flowing"} \/ Deleted'
           /\ tarball # None => tarball' # None \/ Deleted'
           /\ pc'[c] \in Writing => pc[c] \in Writing \/ tarball = None
           /\ Uploaded(c)' => \/ pc[c] = "stored" /\ tarball' = tarball
                             \/ tarball' = [by |-> c, whole |-> TRUE]
           /\ plugin # "memory" =>
                \/ tarball' \in {tarball, None}
                \/ tarball' = [by |-> c, whole |-> TRUE] /\ asked[c] \in {"done", "late"}
<1>1. Moved(c) /\ op' = op /\ asked' = asked /\ told[c] = "nothing" /\ Fits(op[c], pc[c])
    BY StepMoves DEF Moved, fixed, Calling, Unanswered, Placed, Running
<1>2. op[c] \in {"removePackage", "deleteTarball"} /\ pc'[c] = "over" => Deleted'
    BY <1>1 DEF Deleted
<1>3. CASE op[c] # "writeTarball"
    <2>1. tarball' = tarball \/ (tarball' = None /\ Deleted')
        <3> USE DEF Calls
        <3>1. CASE S3Delete(c, "tarball") \/ GoogleDelete(c, "tarball")
            BY <1>1, <1>2, <3>1 DEF S3Delete, GoogleDelete, Deletes, DeleteOf, Objects, Moved, Answer, Fails, FailsWith,
                                    Calling, TypeOK
        <3>2. CASE S3Delete(c, "package.json") \/ GoogleDelete(c, "package.json")
            BY <3>2 DEF S3Delete, GoogleDelete, Deletes
        <3>3. CASE S3RemoveListed(c)
            BY <1>1, <1>2, <3>3 DEF S3RemoveListed, Moved, Answer, Fails, FailsWith, Calling, TypeOK
        <3>4. CASE S3Create(c) \/ S3Update(c) \/ S3Save(c) \/ S3ReadPackage(c) \/ S3List(c) \/ S3ReadTarball(c)
            BY <3>4 DEF S3Create, S3Update, S3Save, Put, S3ReadPackage, S3List, S3ReadTarball
        <3>5. CASE \/ GoogleCreate(c) \/ GoogleUpdate(c) \/ GoogleSave(c) \/ GoogleReadPackage(c)
                   \/ GoogleRemove(c) \/ GoogleReadTarball(c)
            BY <3>5 DEF GoogleCreate, GoogleUpdate, GoogleSave, Put, GoogleReadPackage, GoogleRemove, GoogleReadTarball
        <3>6. CASE \/ MemoryCreate(c) \/ MemoryUpdate(c) \/ MemoryReadPackage(c) \/ MemoryDelete(c)
                   \/ MemoryRemove(c) \/ MemoryReadTarball(c)
            BY <3>6 DEF MemoryCreate, MemoryUpdate, MemoryReadPackage, MemoryDelete, MemoryRemove, MemoryReadTarball
        <3> QED
            BY <1>3, <3>1, <3>2, <3>3, <3>4, <3>5, <3>6
               DEF Step, S3Step, GoogleStep, MemoryStep, Objects, S3Check, S3Store, S3Abort, GoogleCheck, GoogleStore,
                   GoogleAbort, MemoryCheck, MemoryStore, MemoryAbort, Flow, Success
    <2>2. pc'[c] \notin Writing /\ ~Uploaded(c)'
        BY <1>1, <1>3 DEF Moved, Fits, Writing, Uploaded
    <2> QED
        BY <2>1, <2>2
<1>4. CASE op[c] = "writeTarball"
    <2> USE DEF To, Answer, Fails, FailsWith, Calling, TypeOK, Writing, Uploaded, Aborted, MayStore, Calls
    <2>1. CASE S3Store(c) \/ S3Abort(c)
        BY <1>1, <2>1, ObjectStorageAssumption DEF S3Store, S3Abort
    <2>2. CASE GoogleStore(c) \/ GoogleAbort(c)
        BY <1>1, <2>2, ObjectStorageAssumption DEF GoogleStore, GoogleAbort
    <2>3. CASE MemoryStore(c) \/ MemoryAbort(c)
        BY <1>1, <2>3, ObjectStorageAssumption DEF MemoryStore, MemoryAbort
    <2>4. CASE Flow(c) \/ Success(c)
        BY <1>1, <2>4, ObjectStorageAssumption DEF Flow, Success
    <2>5. CASE S3Check(c) \/ GoogleCheck(c) \/ MemoryCheck(c)
        BY <1>1, <2>5 DEF S3Check, GoogleCheck, Checks, MemoryCheck
    <2> HIDE DEF To, Answer, Fails, FailsWith, Calling, TypeOK, Writing, Uploaded, Aborted, MayStore
    <2>6. CASE S3Save(c) \/ GoogleSave(c)
        BY <1>1, <1>4, <2>6 DEF S3Save, GoogleSave, Fits
    <2> QED
        BY <1>4, <2>1, <2>2, <2>3, <2>4, <2>5, <2>6
           DEF Step, S3Step, GoogleStep, MemoryStep, Objects, DeleteOf, S3Create, S3Update, S3ReadPackage, S3List,
               S3RemoveListed, S3Delete, S3ReadTarball, GoogleCreate, GoogleUpdate, GoogleReadPackage, GoogleRemove,
               GoogleDelete, GoogleReadTarball, MemoryCreate, MemoryUpdate, MemoryReadPackage, MemoryDelete,
               MemoryRemove, MemoryReadTarball
<1> QED
    BY <1>3, <1>4

\* What was uploaded is kept by a step of any call.
LEMMA UploadStep ==
    ASSUME Calling, Stored, OwnTarball, Sent, NEW c \in Call, Step(c)
    PROVE  Stored' /\ OwnTarball' /\ Sent'
<1>1. Moved(c) /\ op' = op /\ asked' = asked /\ alone' = alone /\ plugin' = plugin
    BY StepMoves DEF Moved, fixed, Calling
<1>2. \A d \in Call \ {c} : pc'[d] = pc[d] /\ (Uploaded(d)' <=> Uploaded(d))
    BY <1>1 DEF Moved, Calling, TypeOK, Uploaded
<1>3. Deleted => Deleted'
    BY <1>1, <1>2 DEF Moved, Running, Deleted
<1>4. [by |-> c, whole |-> TRUE] # None
    BY ObjectStorageAssumption
<1>5. Stored'
    <2>1. ASSUME NEW d \in Call, Uploaded(d)'
          PROVE  tarball' # None \/ Deleted'
        <3>1. CASE d = c /\ tarball' = [by |-> c, whole |-> TRUE]
            BY <1>4, <3>1
        <3>2. CASE d # c \/ (pc[c] = "stored" /\ tarball' = tarball)
            <4>1. Uploaded(d)
                BY <1>1, <1>2, <2>1, <3>2 DEF Uploaded
            <4> QED
                BY <1>3, <4>1, TarballStep DEF Stored
        <3> QED
            BY <2>1, <3>1, <3>2, TarballStep
    <2> QED
        BY <2>1 DEF Stored
<1>6. OwnTarball'
    <2> SUFFICES ASSUME NEW e \in alone, Uploaded(e)', ~Deleted'
                 PROVE  tarball' = [by |-> e, whole |-> TRUE] /\ \A d \in Call \ {e} : pc'[d] \notin Writing
        BY <1>1 DEF OwnTarball
    <2>1. e \in Call /\ ~Deleted
        BY <1>3 DEF Calling, TypeOK
    <2>2. CASE e = c /\ pc[c] # "stored"
        <3>1. tarball' = [by |-> c, whole |-> TRUE]
            BY <2>2, TarballStep
        <3>2. \A d \in Call \ {c} : pc[d] \notin Writing
            BY <1>1, <2>2 DEF Calling, AloneRuns, Moved, Running, Writing
        <3> QED
            BY <1>2, <2>2, <3>1, <3>2
    <2>3. CASE e # c \/ pc[c] = "stored"
        <3>1. Uploaded(e)
            BY <1>1, <1>2, <2>1, <2>3 DEF Uploaded, Calling, Placed, Fits
        <3>2. tarball = [by |-> e, whole |-> TRUE] /\ \A d \in Call \ {e} : pc[d] \notin Writing
            BY <2>1, <3>1 DEF OwnTarball
        <3>3. tarball # None
            BY <2>1, <3>2, ObjectStorageAssumption
        <3>4. e # c => tarball' = tarball /\ pc'[c] \notin Writing
            BY <3>2, <3>3, TarballStep DEF Writing
        <3>5. e = c => tarball' = tarball
            BY <2>3, TarballStep
        <3> QED
            BY <1>2, <3>2, <3>4, <3>5
    <2> QED
        BY <2>2, <2>3
<1>7. Sent'
    <2> SUFFICES ASSUME plugin # "memory", tarball' # None
                 PROVE  asked[tarball'.by] \in {"done", "late"}
        BY <1>1 DEF Sent
    <2> QED
        BY TarballStep DEF Sent
<1> QED
    BY <1>5, <1>6, <1>7

LEMMA StoreNext == StoreInv /\ [Next]_vars => StoreInv'
<1> SUFFICES ASSUME StoreInv, [Next]_vars
             PROVE  Stored' /\ OwnTarball' /\ Sent'
    BY CallingNext, LastingNext DEF StoreInv
<1>1. CASE \E c \in Call : Step(c)
    BY <1>1, UploadStep DEF StoreInv
<1>2. CASE \E c \in Call, m \in Methods : Begin(c, m)
    <2>1. PICK c \in Call, m \in Methods : Begin(c, m)
        BY <1>2
    <2>2. /\ UNCHANGED <<plugin, tarball, asked, told>> /\ alone' \subseteq alone
          /\ pc[c] = "idle" /\ pc' = [pc EXCEPT ![c] = "called"] /\ op' = [op EXCEPT ![c] = m]
        BY <2>1 DEF Begin
    <2>3. told[c] = "nothing" /\ pc'[c] = "called" /\ \A d \in Call \ {c} : pc'[d] = pc[d] /\ op'[d] = op[d]
        BY <2>2 DEF StoreInv, Calling, Unanswered, TypeOK
    <2>4. \A d \in Call : Uploaded(d)' => Uploaded(d)
        BY <2>2, <2>3 DEF Uploaded
    <2>5. Deleted => Deleted'
        BY <2>2, <2>3 DEF Deleted
    <2>6. \A d \in Call : pc'[d] \in Writing => pc[d] \in Writing
        BY <2>3 DEF Writing
    <2>7. Stored'
        BY <2>2, <2>4, <2>5 DEF StoreInv, Stored
    <2>8. OwnTarball'
        BY <2>2, <2>4, <2>5, <2>6 DEF StoreInv, OwnTarball, Calling, TypeOK
    <2>9. Sent'
        BY <2>2 DEF StoreInv, Sent
    <2> QED
        BY <2>7, <2>8, <2>9
<1>3. CASE \E c \in Call, x \in {"done", "abort"} : Ask(c, x)
    <2>1. PICK c \in Call, x \in {"done", "abort"} : Ask(c, x)
        BY <1>3
    <2>2. /\ UNCHANGED <<plugin, tarball, op, pc, told, alone>>
          /\ asked' = [asked EXCEPT ![c] = IF @ = "done" THEN "late" ELSE x]
          /\ asked[c] \in {"nothing", "done"}
        BY <2>1 DEF Ask
    <2>3. \A d \in Call : asked[d] \in {"done", "late"} => asked'[d] \in {"done", "late"}
        BY <2>2 DEF StoreInv, Calling, TypeOK
    <2>4. tarball # None => tarball.by \in Call
        BY DEF StoreInv, Calling, TypeOK, Tarball
    <2> QED
        BY <2>2, <2>3, <2>4 DEF StoreInv, Stored, OwnTarball, Sent, Uploaded, Deleted
<1>4. CASE UNCHANGED vars
    BY <1>4 DEF vars, StoreInv, Stored, OwnTarball, Sent, Uploaded, Deleted
<1> QED
    BY <1>1, <1>2, <1>3, <1>4 DEF Next, Over

THEOREM StoreInvHolds == Spec => []StoreInv
    BY StoreInit, StoreNext, PTL DEF Spec

\* In a bucket a change made by a call that no other overlapped is in package.json
\* until the package is removed, whatever calls overlap each other before and after
\* and whatever the service fails to do.
THEOREM ChangeIsKept == Spec => []AloneIsKept
<1>1. StoreInv => AloneIsKept
    BY DEF StoreInv, Lasting, AloneIsKept, Changed, Settled
<1> QED
    BY <1>1, StoreInvHolds, PTL

\* Success is told of a tarball that is there until it is deleted, and if no call
\* overlapped its upload it is that one, whole; a bucket has nothing of an upload
\* that was aborted before its end.  For any number of calls and failures.
THEOREM SuccessIsStored == Spec => []UploadHonest
<1>1. StoreInv => UploadHonest
    BY ObjectStorageAssumption DEF StoreInv, Calling, TypeOK, Stored, OwnTarball, Sent, Uploaded, UploadHonest
<1> QED
    BY <1>1, StoreInvHolds, PTL

-----------------------------------------------------------------------------
(* FileLocking *)

USE ProcAssumption, LockMarkAssumption, BoundAssumption

\* The inductive invariant.
LockInv == LockTypeOK /\ LockHasOwner /\ OverlapBound

\* The operations inside after a step that puts p at s and moves nobody else:
\* p is added or removed according to s.
LEMMA InsideAfterMove ==
    ASSUME LockTypeOK, NEW p \in Proc, NEW s \in Stage,
           stage' = [stage EXCEPT ![p] = s]
    PROVE  /\ s \in {"reading", "holding"} => Inside' = Inside \cup {p}
           /\ s \notin {"reading", "holding"} => Inside' = Inside \ {p}
  BY DEF LockTypeOK, Stage, Inside

\* The operations inside are finitely many, so that they can be counted.
LEMMA InsideFinite ==
    IsFiniteSet(Inside) /\ Cardinality(Inside) \in Nat
  <1>1. Inside \in SUBSET Proc  BY DEF Inside
  <1>2. IsFiniteSet(Inside)  BY <1>1, FS_Subset
  <1> QED  BY <1>2, FS_CardinalityType

\* One operation enters or leaves: the count changes by one at most.
LEMMA CountAfterMove ==
    ASSUME LockTypeOK, NEW p \in Proc, NEW s \in Stage,
           stage' = [stage EXCEPT ![p] = s]
    PROVE  /\ s \in {"reading", "holding"} =>
                 Cardinality(Inside') = Cardinality(Inside) + (IF p \in Inside THEN 0 ELSE 1)
           /\ s \notin {"reading", "holding"} =>
                 Cardinality(Inside') = Cardinality(Inside) - (IF p \in Inside THEN 1 ELSE 0)
  <1>1. Cardinality(Inside \cup {p}) =
          IF p \in Inside THEN Cardinality(Inside) ELSE Cardinality(Inside) + 1
    BY InsideFinite, FS_AddElement
  <1>2. Cardinality(Inside \ {p}) =
          IF p \in Inside THEN Cardinality(Inside) - 1 ELSE Cardinality(Inside)
    BY InsideFinite, FS_RemoveElement
  <1>3. CASE s \in {"reading", "holding"}
    <2>1. Inside' = Inside \cup {p}  BY <1>3, InsideAfterMove
    <2>2. Cardinality(Inside') = Cardinality(Inside \cup {p})  BY <2>1
    <2> QED  BY <1>3, <1>1, <2>2, InsideFinite
  <1>4. CASE s \notin {"reading", "holding"}
    <2>1. Inside' = Inside \ {p}  BY <1>4, InsideAfterMove
    <2>2. Cardinality(Inside') = Cardinality(Inside \ {p})  BY <2>1
    <2> QED  BY <1>4, <1>2, <2>2, InsideFinite
  <1> QED  BY <1>3, <1>4

\* Nobody is inside at first.
LEMMA LockInitInv == LockInit => LockInv
  <1> SUFFICES ASSUME LockInit PROVE LockInv  OBVIOUS
  <1>1. Inside = {}  BY DEF LockInit, Inside
  <1>2. Cardinality(Inside) = 0  BY <1>1, FS_EmptySet
  <1> QED  BY <1>1, <1>2 DEF LockInit, LockInv, LockTypeOK, Stage, LockHasOwner, OverlapBound

\* An operation that enters: by creating the lock file, by stealing it, or
\* without it.
LEMMA EnterInv ==
    ASSUME LockInv, NEW p \in Proc,
           Acquire(p) \/ StealOrphan(p) \/ StealLive(p) \/ GiveUp(p)
    PROVE  LockInv'
  <1> DEFINE n == Cardinality(Inside)
  <1>1. stage' = [stage EXCEPT ![p] = "reading"] /\ p \notin Inside
    BY DEF Acquire, StealOrphan, StealLive, GiveUp, Inside
  <1>2. LockTypeOK'
    BY DEF LockInv, LockTypeOK, Stage, Acquire, StealOrphan, StealLive, GiveUp
  <1>3. Inside' = Inside \cup {p} /\ Cardinality(Inside') = n + 1
    BY <1>1, InsideAfterMove, CountAfterMove, InsideFinite DEF LockInv, Stage
  <1>4. n \in Nat  BY InsideFinite
  <1>5. CASE Acquire(p) \/ StealOrphan(p)
    <2>1. lock \notin Inside /\ lock' = p /\ failures' = failures
      BY <1>5 DEF Acquire, StealOrphan, Inside
    <2> QED  BY <2>1, <1>2, <1>3, <1>4 DEF LockInv, LockHasOwner, OverlapBound, LockTypeOK
  <1>6. CASE StealLive(p)
    <2>1. lock' = p /\ failures' = failures + 1
      BY <1>6 DEF StealLive
    <2> QED  BY <2>1, <1>2, <1>3, <1>4 DEF LockInv, LockHasOwner, OverlapBound, LockTypeOK
  <1>7. CASE GiveUp(p)
    <2>1. lock' = lock /\ failures' = failures + 1
      BY <1>7 DEF GiveUp
    <2> QED  BY <2>1, <1>2, <1>3, <1>4 DEF LockInv, LockHasOwner, OverlapBound, LockTypeOK
  <1> QED  BY <1>5, <1>6, <1>7

\* An operation that stays outside or stays inside.
LEMMA StayInv ==
    ASSUME LockInv, NEW p \in Proc, Stat(p) \/ Read(p)
    PROVE  LockInv'
  <1>1. lock' = lock /\ failures' = failures /\ Inside' = Inside
    BY DEF LockInv, LockTypeOK, Stage, Stat, Read, Inside
  <1>2. LockTypeOK'  BY DEF LockInv, LockTypeOK, Stage, Stat, Read
  <1> QED  BY <1>1, <1>2 DEF LockInv, LockHasOwner, OverlapBound

\* An operation that leaves, with or without removing the lock file.
LEMMA LeaveInv ==
    ASSUME LockInv, NEW p \in Proc, ReadFail(p) \/ Unlock(p)
    PROVE  LockInv'
  <1> DEFINE n == Cardinality(Inside)
  <1>1. stage' = [stage EXCEPT ![p] = "idle"] /\ p \in Inside /\ failures' = failures
    BY DEF ReadFail, Unlock, Inside
  <1>2. LockTypeOK'  BY DEF LockInv, LockTypeOK, Stage, ReadFail, Unlock
  <1>3. Inside' = Inside \ {p} /\ Cardinality(Inside') = n - 1
    BY <1>1, InsideAfterMove, CountAfterMove, InsideFinite DEF LockInv, Stage
  <1>4. n \in Nat  BY InsideFinite
  <1>5. CASE ReadFail(p)
    <2>1. lock' = IF lock = p THEN Orphan ELSE lock  BY <1>5 DEF ReadFail
    <2> QED  BY <2>1, <1>1, <1>2, <1>3, <1>4 DEF LockInv, LockHasOwner, OverlapBound, LockTypeOK, Inside
  <1>6. CASE Unlock(p)
    <2>1. lock' = NoLock  BY <1>6 DEF Unlock
    <2> QED  BY <2>1, <1>1, <1>2, <1>3, <1>4 DEF LockInv, LockHasOwner, OverlapBound, LockTypeOK, Inside
  <1> QED  BY <1>5, <1>6

\* A crash leaves nobody inside.
LEMMA CrashInv == ASSUME LockInv, Crash PROVE LockInv'
  <1>1. Inside' = {}  BY DEF Crash, Inside
  <1>2. Cardinality(Inside') = 0  BY <1>1, FS_EmptySet
  <1>3. lock' \in {NoLock, Orphan}  BY DEF Crash
  <1>4. LockTypeOK'  BY DEF LockInv, LockTypeOK, Stage, Crash
  <1> QED  BY <1>1, <1>2, <1>3, <1>4 DEF LockInv, LockHasOwner, OverlapBound, LockTypeOK, Crash

\* Every reachable state satisfies the invariant.
THEOREM LockInvHolds == LockSpec => []LockInv
  <1>1. LockInv /\ [LockNext]_lockVars => LockInv'
    <2> SUFFICES ASSUME LockInv, [LockNext]_lockVars PROVE LockInv'  OBVIOUS
    <2>1. CASE UNCHANGED lockVars
      BY <2>1 DEF LockInv, LockTypeOK, LockHasOwner, OverlapBound, Inside, lockVars
    <2>2. CASE Crash  BY <2>2, CrashInv
    <2>3. ASSUME NEW p \in Proc,
                 Stat(p) \/ Acquire(p) \/ StealOrphan(p) \/ StealLive(p)
                 \/ GiveUp(p) \/ Read(p) \/ ReadFail(p) \/ Unlock(p)
          PROVE  LockInv'
      BY <2>3, EnterInv, StayInv, LeaveInv
    <2> QED  BY <2>1, <2>2, <2>3 DEF LockNext
  <1> QED  BY <1>1, LockInitInv, PTL DEF LockSpec

\* The overlap of operations inside the lock never exceeds the number of locks
\* that were refused or stolen, plus one.
THEOREM OverlapBounded == LockSpec => []OverlapBound
  BY LockInvHolds, PTL DEF LockInv

\* A lock file created by an operation belongs to one that is still at work.
THEOREM LockOwned == LockSpec => []LockHasOwner
  BY LockInvHolds, PTL DEF LockInv

\* Two operations are inside at once only after a lock was refused or stolen.
THEOREM MutexUnlessFailure == LockSpec => []MutualExclusion
  <1>1. LockInv => MutualExclusion
    <2> SUFFICES ASSUME LockInv, failures = 0, NEW p \in Inside, NEW q \in Inside, p # q
                 PROVE  FALSE
      BY DEF MutualExclusion
    <2>1. Cardinality(Inside) <= 1
      BY InsideFinite DEF LockInv, OverlapBound
    <2>2. Cardinality(Inside \ {p}) = Cardinality(Inside) - 1 /\ IsFiniteSet(Inside \ {p})
      BY InsideFinite, FS_RemoveElement
    <2>3. Cardinality(Inside \ {p}) = 0
      BY <2>1, <2>2, InsideFinite, FS_CardinalityType
    <2>4. Inside \ {p} = {}  BY <2>2, <2>3, FS_EmptySet
    <2> QED  BY <2>4
  <1> QED  BY <1>1, LockInvHolds, PTL

\* A lock file that is there disappears or changes hands only when its own
\* operation leaves, until a lock is refused or stolen.
THEOREM OwnLockRemoved == LockSpec => RemovedByOwner
  <1>1. LockInv /\ LockInv' /\ MutualExclusion /\ [LockNext]_lockVars
          => [failures' = 0 /\ lock \in Proc /\ lock' # lock => lock \notin Inside']_lockVars
    <2> SUFFICES ASSUME LockInv, LockInv', MutualExclusion, LockNext,
                        failures' = 0, lock \in Proc, lock' # lock
                 PROVE  lock \notin Inside'
      OBVIOUS
    <2>1. lock \in Inside  BY DEF LockInv, LockHasOwner
    <2>2. CASE Crash  BY <2>2 DEF Crash, Inside
    <2>3. ASSUME NEW p \in Proc, ReadFail(p) \/ Unlock(p)
          PROVE  lock \notin Inside'
      <3>1. p \in Inside /\ failures = 0  BY <2>3 DEF ReadFail, Unlock, Inside
      <3>2. p = lock  BY <3>1, <2>1 DEF MutualExclusion
      <3> QED  BY <2>3, <3>2 DEF ReadFail, Unlock, Inside, LockInv, LockTypeOK
    <2>4. ASSUME NEW p \in Proc,
                 Stat(p) \/ Acquire(p) \/ StealOrphan(p) \/ StealLive(p) \/ GiveUp(p) \/ Read(p)
          PROVE  FALSE
      BY <2>4 DEF Stat, Acquire, StealOrphan, StealLive, GiveUp, Read, LockInv, LockTypeOK
    <2> QED  BY <2>2, <2>3, <2>4 DEF LockNext
  <1> QED  BY <1>1, LockInvHolds, MutexUnlessFailure, PTL DEF LockSpec, RemovedByOwner
=============================================================================
