--------------------------- MODULE TarballStreams ---------------------------
(***************************************************************************)
(* How one tarball gets into the storage: addTarball of                     *)
(* store/src/local-storage.ts over writeTarball of                          *)
(* core/local-storage/src/local-fs.ts, with the streams of                  *)
(* core/streams/src/index.ts.                                               *)
(*                                                                          *)
(* Several streams may be about to store the same tarball.  Each writes a   *)
(* temporary file of its own, which is renamed when done() was called and   *)
(* everything is written; then the shasum is recorded in package.json.      *)
(* done and abort are recorded while writeTarball still looks whether the   *)
(* file exists, and replayed once.  Of the data only the amount is kept:    *)
(* 0 (nothing), 1 (a part), Whole.                                          *)
(***************************************************************************)
EXTENDS Integers, FiniteSets

CONSTANTS
    Stream,         \* calls of addTarball
    Client,         \* those of them that clients feed (npm publish)
    NoFile,
    MaxFaults       \* bound: operations on files that fail

ASSUME StreamAssumption == Client \subseteq Stream /\ NoFile \notin Nat

Whole == 2

VARIABLES
    tarball,        \* what stands under the final name, or NoFile
    shasum,         \* the content recorded in _attachments, or NoFile
    folder,         \* whether the folder of the package exists
    stage,          \* the progress of each stream
    called,         \* the methods that were called: done, abort
    len,            \* how much each stream has got
    tmp,            \* the streams whose temporary file exists
    verdict,        \* history: success or error, as the caller was told
    faults

streamVars == <<tarball, shasum, folder, stage, called, len, tmp, verdict, faults>>

Stages == {"none", "access", "opening", "open", "renaming", "recording", "missing", "over"}

StreamTypeOK ==
    /\ tarball \in (0..Whole) \cup {NoFile} /\ shasum \in (0..Whole) \cup {NoFile}
    /\ folder \in BOOLEAN
    /\ stage \in [Stream -> Stages]
    /\ called \in [Stream -> SUBSET {"done", "abort"}]
    /\ len \in [Stream -> 0..Whole]
    /\ tmp \subseteq Stream
    /\ verdict \in [Stream -> {"none", "success", "error"}]
    /\ faults \in Nat

StreamInit ==
    /\ tarball = NoFile /\ shasum = NoFile /\ folder \in BOOLEAN
    /\ stage = [s \in Stream |-> "none"] /\ called = [s \in Stream |-> {}]
    /\ len = [s \in Stream |-> 0] /\ tmp = {}
    /\ verdict = [s \in Stream |-> "none"] /\ faults = 0

Stage(s, x) == stage' = [stage EXCEPT ![s] = x]
Tell(s, x) == verdict' = [verdict EXCEPT ![s] = x]
Fault == faults < MaxFaults /\ faults' = faults + 1

\* addTarball; writeTarball looks for the file.
AddTarball(s) ==
    /\ stage[s] = "none" /\ Stage(s, "access")
    /\ UNCHANGED <<tarball, shasum, folder, called, len, tmp, verdict, faults>>

\* The file exists: a conflict.  What was called before is never replayed.
Conflict(s) ==
    /\ stage[s] = "access" /\ tarball # NoFile
    /\ Stage(s, "over") /\ Tell(s, "error")
    /\ UNCHANGED <<tarball, shasum, folder, called, len, tmp, faults>>

\* The abort before the file is open: it may be removed before it appears.
AbortOpening(s) ==
    /\ Stage(s, "over")
    /\ \/ UNCHANGED tmp
       \/ folder /\ tmp' = tmp \cup {s}

\* No such file: the temporary file is being created, and the setters of done
\* and abort replay what was called.
Access(s) ==
    /\ stage[s] = "access" /\ tarball = NoFile
    /\ IF "abort" \in called[s] THEN AbortOpening(s) ELSE Stage(s, "opening") /\ UNCHANGED tmp
    /\ UNCHANGED <<tarball, shasum, folder, called, len, verdict, faults>>

Open(s) ==
    /\ stage[s] = "opening" /\ folder
    /\ Stage(s, "open") /\ tmp' = tmp \cup {s}
    /\ UNCHANGED <<tarball, shasum, folder, called, len, verdict, faults>>

\* ENOENT: the package is looked for before the error is told.
OpenMissing(s) ==
    /\ stage[s] = "opening" /\ ~folder /\ Stage(s, "missing")
    /\ UNCHANGED <<tarball, shasum, folder, called, len, tmp, verdict, faults>>

\* Mutant: the lookup that finds no package tells nobody.
TellNobody(s) ==
    /\ stage[s] = "missing" /\ Stage(s, "over")
    /\ UNCHANGED <<tarball, shasum, folder, called, len, tmp, verdict, faults>>

TellMissing(s) ==
    /\ stage[s] = "missing" /\ Stage(s, "over") /\ Tell(s, "error")
    /\ UNCHANGED <<tarball, shasum, folder, called, len, tmp, faults>>

OpenFail(s) ==
    /\ stage[s] = "opening" /\ Fault
    /\ Stage(s, "over") /\ Tell(s, "error")
    /\ UNCHANGED <<tarball, shasum, folder, called, len, tmp>>

\* A write fails.  Who aborts on the error has the temporary file removed when
\* it is closed; a client that does not leaves it.
WriteFail(s) ==
    /\ stage[s] = "open" /\ Fault
    /\ Stage(s, "over") /\ Tell(s, "error")
    /\ \/ tmp' = tmp \ {s}
       \/ s \in Client /\ UNCHANGED tmp
    /\ UNCHANGED <<tarball, shasum, folder, called, len>>

\* More data comes.
Feed(s, n) ==
    /\ len' = [len EXCEPT ![s] = n]
    /\ UNCHANGED <<tarball, shasum, folder, stage, called, tmp, verdict, faults>>

\* done, at the end of the data.  Nothing at all is refused, and aborted.
Done(s) ==
    IF len[s] = 0
    THEN /\ Tell(s, "error")
         /\ called' = [called EXCEPT ![s] = @ \cup {"abort"}]
         /\ CASE stage[s] = "open"    -> Stage(s, "over") /\ tmp' = tmp \ {s}
              [] stage[s] = "opening" -> AbortOpening(s)
              [] OTHER                -> UNCHANGED <<stage, tmp>>
         /\ UNCHANGED <<tarball, shasum, folder, len, faults>>
    ELSE /\ called' = [called EXCEPT ![s] = @ \cup {"done"}]
         /\ UNCHANGED <<tarball, shasum, folder, stage, len, tmp, verdict, faults>>

\* abort: the temporary file goes when it is closed.
Abort(s) ==
    /\ called' = [called EXCEPT ![s] = @ \cup {"abort"}]
    /\ CASE stage[s] = "open"    -> Stage(s, "over") /\ tmp' = tmp \ {s}
         [] stage[s] = "opening" -> AbortOpening(s)
         [] OTHER                -> UNCHANGED <<stage, tmp>>
    /\ UNCHANGED <<tarball, shasum, folder, len, verdict, faults>>

\* Mutant: the file is closed before all of the data is there.
CloseEarly(s) ==
    /\ stage[s] = "open" /\ len[s] > 0 /\ Stage(s, "renaming")
    /\ UNCHANGED <<tarball, shasum, folder, called, len, tmp, verdict, faults>>

\* done was called, everything is written and the file is closed.
Close(s) ==
    /\ stage[s] = "open" /\ "done" \in called[s] /\ Stage(s, "renaming")
    /\ UNCHANGED <<tarball, shasum, folder, called, len, tmp, verdict, faults>>

Rename(s) ==
    /\ stage[s] = "renaming"
    /\ tarball' = len[s] /\ tmp' = tmp \ {s} /\ Stage(s, "recording")
    /\ UNCHANGED <<shasum, folder, called, len, verdict, faults>>

\* An abort cannot remove the temporary file any more: it waits for a "close"
\* that has been.
RenameFail(s) ==
    /\ stage[s] = "renaming" /\ Fault
    /\ Stage(s, "over") /\ Tell(s, "error")
    /\ UNCHANGED <<tarball, shasum, folder, called, len, tmp>>

\* updatePackage: the shasum of what went through the stream.
Record(s) ==
    /\ stage[s] = "recording"
    /\ shasum' = len[s] /\ Stage(s, "over") /\ Tell(s, "success")
    /\ UNCHANGED <<tarball, folder, called, len, tmp, faults>>

RecordFail(s) ==
    /\ stage[s] = "recording" /\ Fault
    /\ Stage(s, "over") /\ Tell(s, "error")
    /\ UNCHANGED <<tarball, shasum, folder, called, len, tmp>>

\* Steps that succeed and those that end in the event 'error'.
Progress(s) == Access(s) \/ OpenMissing(s) \/ Close(s) \/ Rename(s) \/ Record(s)
ErrorEvent(s) == Conflict(s) \/ TellMissing(s) \/ OpenFail(s) \/ WriteFail(s) \/ RenameFail(s) \/ RecordFail(s)

-----------------------------------------------------------------------------
(* A client that uploads: at any time it sends more, ends or goes away *)

Uploading(s) ==
    stage[s] \in {"access", "opening", "open"} /\ called[s] = {} /\ verdict[s] = "none"

Upload(s) == AddTarball(s)
Send(s) == Uploading(s) /\ len[s] = 0 /\ Feed(s, Whole)
Finish(s) == Uploading(s) /\ Done(s)
GoAway(s) == Uploading(s) /\ Abort(s)

StreamStep(s) == Progress(s) \/ Open(s) \/ ErrorEvent(s)
ClientStep(s) == Upload(s) \/ Send(s) \/ Finish(s) \/ GoAway(s)

-----------------------------------------------------------------------------

\* A client that is told that its upload succeeded has sent all of it, without
\* going away, and the tarball and its shasum are there.
SuccessMeansStored ==
    \A s \in Client : verdict[s] = "success" =>
        /\ called[s] = {"done"} /\ len[s] = Whole
        /\ tarball # NoFile /\ shasum # NoFile
=============================================================================
