------------------------- MODULE TarballProxy_proofs -------------------------
(***************************************************************************)
(* Theorems about TarballProxy, for any number of uplinks, downloads,       *)
(* uploads and failures: what is stored and what a client gets.             *)
(*                                                                          *)
(* No step leads back: a download that does not know the length of its      *)
(* tarball never learns it, so that whoever assumes that all are known may  *)
(* assume it of every state before.                                         *)
(***************************************************************************)
EXTENDS TarballProxy, FiniteSetTheorems, WellFoundedInduction, TLAPS

Typed ==
    /\ pc \in [Download -> Steps] /\ save \in [Download -> {"none", "live", "null"}]
    /\ got \in [Download -> 0..Whole] /\ sent \in [Download -> 0..Whole]
    /\ sized \in [Download -> BOOLEAN] /\ asks \in [Download -> Nat]
    /\ answer \in [Download -> {"none", "end", "error"}]
    /\ tarball \in (0..Whole) \cup {NoFile} /\ shasum \in (0..Whole) \cup {NoFile}
    /\ stage \in [Stream -> Stages] /\ called \in [Stream -> SUBSET {"done", "abort"}]
    /\ len \in [Stream -> 0..Whole]

\* The steps of a download before the response, and those before it is asked for.
Before == Steps \ {"streaming", "done"}
Unasked == Before \ {"asking"}

\* Where a download stands, and how far its savestream is.
Placed ==
    \A d \in Download :
        /\ pc[d] \in {"idle", "reading", "lookup", "sync"} => stage[d] = "none"
        /\ stage[d] \in {"access", "opening", "missing"} => pc[d] = "opening"
        /\ asks[d] <= 1 /\ (pc[d] \in Unasked => asks[d] = 0)

\* How much of the tarball has gone where.
Moved ==
    \A d \in Download :
        /\ pc[d] \in Before => sized[d] /\ got[d] = 0 /\ len[d] = 0
        /\ pc[d] \in Before \ {"reading"} => sent[d] = 0
        /\ pc[d] \in Before \ {"opening", "asking"} => save[d] = "none"
        /\ pc[d] = "streaming" => got[d] = sent[d]
        /\ save[d] = "live" /\ pc[d] # "done" => len[d] = sent[d]
        /\ answer[d] = "end" \/ "done" \in called[d] => pc[d] = "done"

Uploads ==
    \A s \in Client :
        /\ len[s] \in {0, Whole}
        /\ called[s] \in {{}, {"done"}, {"abort"}}
        /\ "done" \in called[s] => len[s] = Whole

Closed == \A s \in Stream : stage[s] \in {"renaming", "recording"} => "done" \in called[s]

\* What is whole when every length is known.
Wholes ==
    (\A d \in Download : sized[d]) =>
        /\ tarball \in {NoFile, Whole} /\ shasum \in {NoFile, Whole}
        /\ \A d \in Download :
            /\ answer[d] = "end" => got[d] = Whole
            /\ pc[d] = "reading" => sent[d] = Whole
            /\ "done" \in called[d] => len[d] = Whole

Inv == Typed /\ Placed /\ Moved /\ Uploads /\ Closed /\ Wholes

THEOREM TarballInit == Init => Inv
  BY DownloadAssumption, StreamAssumption
  DEF Init, StatusInit, StreamInit, Inv, Typed, Placed, Moved, Uploads, Closed, Wholes, Steps, Stages, Before, Unasked, Whole

LEMMA AccessInv ==
  ASSUME Inv, NEW s \in Stream, Access(s), UNCHANGED proxyVars
  PROVE  Inv'
  BY DownloadAssumption, StreamAssumption
  DEF Inv, Typed, Placed, Moved, Uploads, Closed, Wholes, Steps, Stages, Before, Unasked, Whole, Access, AbortOpening, proxyVars, Stage, Tell, Fault

LEMMA OpenMissingInv ==
  ASSUME Inv, NEW s \in Stream, OpenMissing(s), UNCHANGED proxyVars
  PROVE  Inv'
  BY DownloadAssumption, StreamAssumption
  DEF Inv, Typed, Placed, Moved, Uploads, Closed, Wholes, Steps, Stages, Before, Unasked, Whole, OpenMissing, AbortOpening, proxyVars, Stage, Tell, Fault

LEMMA CloseInv ==
  ASSUME Inv, NEW s \in Stream, Close(s), UNCHANGED proxyVars
  PROVE  Inv'
  BY DownloadAssumption, StreamAssumption
  DEF Inv, Typed, Placed, Moved, Uploads, Closed, Wholes, Steps, Stages, Before, Unasked, Whole, Close, AbortOpening, proxyVars, Stage, Tell, Fault

LEMMA RenameInv ==
  ASSUME Inv, NEW s \in Stream, Rename(s), UNCHANGED proxyVars
  PROVE  Inv'
  BY DownloadAssumption, StreamAssumption
  DEF Inv, Typed, Placed, Moved, Uploads, Closed, Wholes, Steps, Stages, Before, Unasked, Whole, Rename, AbortOpening, proxyVars, Stage, Tell, Fault

LEMMA RecordInv ==
  ASSUME Inv, NEW s \in Stream, Record(s), UNCHANGED proxyVars
  PROVE  Inv'
  BY DownloadAssumption, StreamAssumption
  DEF Inv, Typed, Placed, Moved, Uploads, Closed, Wholes, Steps, Stages, Before, Unasked, Whole, Record, AbortOpening, proxyVars, Stage, Tell, Fault

LEMMA ClientOpenInv ==
  ASSUME Inv, NEW s \in Client, Open(s), UNCHANGED proxyVars
  PROVE  Inv'
  BY DownloadAssumption, StreamAssumption
  DEF Inv, Typed, Placed, Moved, Uploads, Closed, Wholes, Steps, Stages, Before, Unasked, Whole, Open, AbortOpening, proxyVars, Stage, Tell, Fault

LEMMA ClientConflictInv ==
  ASSUME Inv, NEW s \in Client, Conflict(s), UNCHANGED proxyVars
  PROVE  Inv'
  BY DownloadAssumption, StreamAssumption
  DEF Inv, Typed, Placed, Moved, Uploads, Closed, Wholes, Steps, Stages, Before, Unasked, Whole, Conflict, AbortOpening, proxyVars, Stage, Tell, Fault

LEMMA ClientTellMissingInv ==
  ASSUME Inv, NEW s \in Client, TellMissing(s), UNCHANGED proxyVars
  PROVE  Inv'
  BY DownloadAssumption, StreamAssumption
  DEF Inv, Typed, Placed, Moved, Uploads, Closed, Wholes, Steps, Stages, Before, Unasked, Whole, TellMissing, AbortOpening, proxyVars, Stage, Tell, Fault

LEMMA ClientOpenFailInv ==
  ASSUME Inv, NEW s \in Client, OpenFail(s), UNCHANGED proxyVars
  PROVE  Inv'
  BY DownloadAssumption, StreamAssumption
  DEF Inv, Typed, Placed, Moved, Uploads, Closed, Wholes, Steps, Stages, Before, Unasked, Whole, OpenFail, AbortOpening, proxyVars, Stage, Tell, Fault

LEMMA ClientWriteFailInv ==
  ASSUME Inv, NEW s \in Client, WriteFail(s), UNCHANGED proxyVars
  PROVE  Inv'
  BY DownloadAssumption, StreamAssumption
  DEF Inv, Typed, Placed, Moved, Uploads, Closed, Wholes, Steps, Stages, Before, Unasked, Whole, WriteFail, AbortOpening, proxyVars, Stage, Tell, Fault

LEMMA ClientRenameFailInv ==
  ASSUME Inv, NEW s \in Client, RenameFail(s), UNCHANGED proxyVars
  PROVE  Inv'
  BY DownloadAssumption, StreamAssumption
  DEF Inv, Typed, Placed, Moved, Uploads, Closed, Wholes, Steps, Stages, Before, Unasked, Whole, RenameFail, AbortOpening, proxyVars, Stage, Tell, Fault

LEMMA ClientRecordFailInv ==
  ASSUME Inv, NEW s \in Client, RecordFail(s), UNCHANGED proxyVars
  PROVE  Inv'
  BY DownloadAssumption, StreamAssumption
  DEF Inv, Typed, Placed, Moved, Uploads, Closed, Wholes, Steps, Stages, Before, Unasked, Whole, RecordFail, AbortOpening, proxyVars, Stage, Tell, Fault

\* What a client does.

LEMMA UploadInv ==
  ASSUME Inv, NEW s \in Client, Upload(s), UNCHANGED proxyVars
  PROVE  Inv'
  BY DownloadAssumption, StreamAssumption
  DEF Inv, Typed, Placed, Moved, Uploads, Closed, Wholes, Steps, Stages, Before, Unasked, Whole, Upload, Uploading, AddTarball, Feed, Done, Abort, AbortOpening, proxyVars, Stage, Tell, Fault

LEMMA SendInv ==
  ASSUME Inv, NEW s \in Client, Send(s), UNCHANGED proxyVars
  PROVE  Inv'
  BY DownloadAssumption, StreamAssumption
  DEF Inv, Typed, Placed, Moved, Uploads, Closed, Wholes, Steps, Stages, Before, Unasked, Whole, Send, Uploading, AddTarball, Feed, Done, Abort, AbortOpening, proxyVars, Stage, Tell, Fault

LEMMA FinishInv ==
  ASSUME Inv, NEW s \in Client, Finish(s), UNCHANGED proxyVars
  PROVE  Inv'
  BY DownloadAssumption, StreamAssumption
  DEF Inv, Typed, Placed, Moved, Uploads, Closed, Wholes, Steps, Stages, Before, Unasked, Whole, Finish, Uploading, AddTarball, Feed, Done, Abort, AbortOpening, proxyVars, Stage, Tell, Fault

LEMMA GoAwayInv ==
  ASSUME Inv, NEW s \in Client, GoAway(s), UNCHANGED proxyVars
  PROVE  Inv'
  BY DownloadAssumption, StreamAssumption
  DEF Inv, Typed, Placed, Moved, Uploads, Closed, Wholes, Steps, Stages, Before, Unasked, Whole, GoAway, Uploading, AddTarball, Feed, Done, Abort, AbortOpening, proxyVars, Stage, Tell, Fault

\* The steps of a download.

LEMMA ReadLocalInv ==
  ASSUME Inv, NEW d \in Download, ReadLocal(d)
  PROVE  Inv'
  BY DownloadAssumption, StreamAssumption
  DEF Inv, Typed, Placed, Moved, Uploads, Closed, Wholes, Steps, Stages, Before, Unasked, Whole, ReadLocal, Goto, Save, Answer, Stage, Tell, Fault, streamVars

LEMMA ServeLocalInv ==
  ASSUME Inv, NEW d \in Download, ServeLocal(d)
  PROVE  Inv'
  BY DownloadAssumption, StreamAssumption
  DEF Inv, Typed, Placed, Moved, Uploads, Closed, Wholes, Steps, Stages, Before, Unasked, Whole, ServeLocal, Goto, Save, Answer, Stage, Tell, Fault, streamVars

LEMMA MissInv ==
  ASSUME Inv, NEW d \in Download, Miss(d)
  PROVE  Inv'
  BY DownloadAssumption, StreamAssumption
  DEF Inv, Typed, Placed, Moved, Uploads, Closed, Wholes, Steps, Stages, Before, Unasked, Whole, Miss, Goto, Save, Answer, Stage, Tell, Fault, streamVars

LEMMA LookupInv ==
  ASSUME Inv, NEW d \in Download, Lookup(d)
  PROVE  Inv'
  BY DownloadAssumption, StreamAssumption
  DEF Inv, Typed, Placed, Moved, Uploads, Closed, Wholes, Steps, Stages, Before, Unasked, Whole, Lookup, ServeFile, OnOpen, AddTarball, Goto, Save, Answer, Stage, Tell, Fault, streamVars

LEMMA SyncedInv ==
  ASSUME Inv, NEW d \in Download, Synced(d)
  PROVE  Inv'
  BY DownloadAssumption, StreamAssumption
  DEF Inv, Typed, Placed, Moved, Uploads, Closed, Wholes, Steps, Stages, Before, Unasked, Whole, Synced, OnOpen, Goto, Save, Answer, Stage, Tell, Fault, streamVars

LEMMA NotSyncedInv ==
  ASSUME Inv, NEW d \in Download, NotSynced(d)
  PROVE  Inv'
  BY DownloadAssumption, StreamAssumption
  DEF Inv, Typed, Placed, Moved, Uploads, Closed, Wholes, Steps, Stages, Before, Unasked, Whole, NotSynced, Goto, Save, Answer, Stage, Tell, Fault, streamVars

LEMMA SaveOpenInv ==
  ASSUME Inv, NEW d \in Download, SaveOpen(d)
  PROVE  Inv'
  BY DownloadAssumption, StreamAssumption
  DEF Inv, Typed, Placed, Moved, Uploads, Closed, Wholes, Steps, Stages, Before, Unasked, Whole, SaveOpen, Open, OnOpen, Goto, Save, Answer, Stage, Tell, Fault, streamVars

LEMMA StartedInv ==
  ASSUME Inv, NEW d \in Download, Started(d)
  PROVE  Inv'
  BY DownloadAssumption, StreamAssumption
  DEF Inv, Typed, Placed, Moved, Uploads, Closed, Wholes, Steps, Stages, Before, Unasked, Whole, Started, Goto, Save, Answer, Stage, Tell, Fault, streamVars

LEMMA FetchErrorInv ==
  ASSUME Inv, NEW d \in Download, pc[d] \in {"asking", "streaming"}, FetchError(d), Goto(d, "done"),
         UNCHANGED <<got, sent, sized, asks>>
  PROVE  Inv'
<1> USE DownloadAssumption, StreamAssumption DEF Inv, Steps, Stages, Before, Unasked, Whole, FetchError, Goto, Save, Answer
<1>1. CASE save[d] = "live"
  <2>1. Typed'
    BY <1>1 DEF Typed, Abort, AbortOpening, Stage
  <2>2. Placed'
    BY <1>1 DEF Typed, Placed, Abort, AbortOpening, Stage
  <2>3. Moved'
    BY <1>1 DEF Typed, Placed, Moved, Abort, AbortOpening, Stage
  <2>4. Uploads'
    BY <1>1 DEF Typed, Uploads, Abort, AbortOpening, Stage
  <2>5. Closed'
    BY <1>1 DEF Typed, Closed, Abort, AbortOpening, Stage
  <2>6. Wholes'
    BY <1>1 DEF Typed, Wholes, Abort, AbortOpening, Stage
  <2> QED
    BY <2>1, <2>2, <2>3, <2>4, <2>5, <2>6
<1>2. CASE save[d] # "live"
  BY <1>2 DEF Typed, Placed, Moved, Uploads, Closed, Wholes, streamVars
<1> QED
  BY <1>1, <1>2

LEMMA RefusedInv ==
  ASSUME Inv, NEW d \in Download, Refused(d)
  PROVE  Inv'
  BY FetchErrorInv DEF Refused

LEMMA BrokenInv ==
  ASSUME Inv, NEW d \in Download, Broken(d)
  PROVE  Inv'
  BY FetchErrorInv DEF Broken

LEMMA ChunkInv ==
  ASSUME Inv, NEW d \in Download, Chunk(d)
  PROVE  Inv'
  BY DownloadAssumption, StreamAssumption
  DEF Inv, Typed, Placed, Moved, Uploads, Closed, Wholes, Steps, Stages, Before, Unasked, Whole, Chunk, Feed, Goto, Save, Answer, Stage, Tell, Fault, streamVars

LEMMA EndInv ==
  ASSUME Inv, NEW d \in Download, End(d)
  PROVE  Inv'
  BY SMTT(60), DownloadAssumption, StreamAssumption
  DEF Inv, Typed, Placed, Moved, Uploads, Closed, Wholes, Steps, Stages, Before, Unasked, Whole, End, FetchError, Abort, AbortOpening, Done, Goto, Save, Answer, Stage, Tell, Fault, streamVars

LEMMA SaveConflictInv ==
  ASSUME Inv, NEW d \in Download, save[d] = "live", Conflict(d), Save(d, "null"),
         IF pc[d] = "opening" THEN OnOpen(d) ELSE UNCHANGED <<statusVars, pc, asks>>,
         UNCHANGED <<access, cached, origin, known, got, sent, sized, answer>>
  PROVE  Inv'
<1>1. pc[d] = "opening" /\ pc' = [pc EXCEPT ![d] = "asking"]
  BY StreamAssumption, DownloadAssumption DEF Inv, Typed, Placed, Conflict, OnOpen, Goto
<1>2. asks' = [asks EXCEPT ![d] = @ + 1]
  BY <1>1 DEF OnOpen
<1> QED
  BY SMTT(60), <1>1, <1>2, DownloadAssumption, StreamAssumption
  DEF Inv, Typed, Placed, Moved, Uploads, Closed, Wholes, Steps, Stages, Before, Unasked, Whole, Conflict, Save, Answer, Stage, Tell, Fault, streamVars

LEMMA SaveTellMissingInv ==
  ASSUME Inv, NEW d \in Download, save[d] = "live", TellMissing(d), Save(d, "null"),
         IF pc[d] = "opening" THEN OnOpen(d) ELSE UNCHANGED <<statusVars, pc, asks>>,
         UNCHANGED <<access, cached, origin, known, got, sent, sized, answer>>
  PROVE  Inv'
<1>1. pc[d] = "opening" /\ pc' = [pc EXCEPT ![d] = "asking"]
  BY StreamAssumption, DownloadAssumption DEF Inv, Typed, Placed, TellMissing, OnOpen, Goto
<1>2. asks' = [asks EXCEPT ![d] = @ + 1]
  BY <1>1 DEF OnOpen
<1> QED
  BY <1>1, <1>2, DownloadAssumption, StreamAssumption
  DEF Inv, Typed, Placed, Moved, Uploads, Closed, Wholes, Steps, Stages, Before, Unasked, Whole, TellMissing, Save, Answer, Stage, Tell, Fault, streamVars

LEMMA SaveOpenFailInv ==
  ASSUME Inv, NEW d \in Download, save[d] = "live", OpenFail(d), Save(d, "null"),
         IF pc[d] = "opening" THEN OnOpen(d) ELSE UNCHANGED <<statusVars, pc, asks>>,
         UNCHANGED <<access, cached, origin, known, got, sent, sized, answer>>
  PROVE  Inv'
  BY SMTT(60), DownloadAssumption, StreamAssumption
  DEF Inv, Typed, Placed, Moved, Uploads, Closed, Wholes, Steps, Stages, Before, Unasked, Whole, OpenFail, OnOpen, Goto, Save, Answer, Stage, Tell, Fault, streamVars

LEMMA SaveWriteFailInv ==
  ASSUME Inv, NEW d \in Download, save[d] = "live", WriteFail(d), Save(d, "null"),
         IF pc[d] = "opening" THEN OnOpen(d) ELSE UNCHANGED <<statusVars, pc, asks>>,
         UNCHANGED <<access, cached, origin, known, got, sent, sized, answer>>
  PROVE  Inv'
  BY DownloadAssumption, StreamAssumption
  DEF Inv, Typed, Placed, Moved, Uploads, Closed, Wholes, Steps, Stages, Before, Unasked, Whole, WriteFail, OnOpen, Goto, Save, Answer, Stage, Tell, Fault, streamVars

LEMMA SaveRenameFailInv ==
  ASSUME Inv, NEW d \in Download, save[d] = "live", RenameFail(d), Save(d, "null"),
         IF pc[d] = "opening" THEN OnOpen(d) ELSE UNCHANGED <<statusVars, pc, asks>>,
         UNCHANGED <<access, cached, origin, known, got, sent, sized, answer>>
  PROVE  Inv'
  BY DownloadAssumption, StreamAssumption
  DEF Inv, Typed, Placed, Moved, Uploads, Closed, Wholes, Steps, Stages, Before, Unasked, Whole, RenameFail, OnOpen, Goto, Save, Answer, Stage, Tell, Fault, streamVars

LEMMA SaveRecordFailInv ==
  ASSUME Inv, NEW d \in Download, save[d] = "live", RecordFail(d), Save(d, "null"),
         IF pc[d] = "opening" THEN OnOpen(d) ELSE UNCHANGED <<statusVars, pc, asks>>,
         UNCHANGED <<access, cached, origin, known, got, sent, sized, answer>>
  PROVE  Inv'
  BY DownloadAssumption, StreamAssumption
  DEF Inv, Typed, Placed, Moved, Uploads, Closed, Wholes, Steps, Stages, Before, Unasked, Whole, RecordFail, OnOpen, Goto, Save, Answer, Stage, Tell, Fault, streamVars

LEMMA SaveErrorInv ==
  ASSUME Inv, NEW d \in Download, SaveError(d)
  PROVE  Inv'
  BY SaveConflictInv, SaveTellMissingInv, SaveOpenFailInv, SaveWriteFailInv, SaveRenameFailInv, SaveRecordFailInv DEF SaveError, ErrorEvent

LEMMA StoreInv ==
  ASSUME Inv, NEW s \in Stream, Progress(s), UNCHANGED proxyVars
  PROVE  Inv'
  BY AccessInv, OpenMissingInv, CloseInv, RenameInv, RecordInv DEF Progress

LEMMA ClientInv ==
  ASSUME Inv, NEW s \in Client, StreamStep(s) \/ ClientStep(s), UNCHANGED proxyVars
  PROVE  Inv'
<1>1. CASE Progress(s)
  BY <1>1, StoreInv, StreamAssumption
<1>2. CASE Open(s) \/ ErrorEvent(s)
  BY <1>2, ClientOpenInv, ClientConflictInv, ClientTellMissingInv, ClientOpenFailInv, ClientWriteFailInv, ClientRenameFailInv, ClientRecordFailInv DEF ErrorEvent
<1>3. CASE ClientStep(s)
  BY <1>3, UploadInv, SendInv, FinishInv, GoAwayInv DEF ClientStep
<1> QED
  BY <1>1, <1>2, <1>3 DEF StreamStep

LEMMA DownloadInv ==
  ASSUME Inv, NEW d \in Download, Local(d) \/ Work(d)
  PROVE  Inv'
  BY ReadLocalInv, MissInv, ServeLocalInv, LookupInv, SyncedInv, NotSyncedInv, SaveOpenInv, SaveErrorInv,
     StartedInv, RefusedInv, BrokenInv, ChunkInv, EndInv
  DEF Local, Work

LEMMA StillInv ==
  ASSUME Inv, UNCHANGED <<streamVars, proxyVars>>
  PROVE  Inv'
  BY DEF Inv, Typed, Placed, Moved, Uploads, Closed, Wholes, streamVars, proxyVars

THEOREM TarballStep == Inv /\ [Next]_vars => Inv'
<1> SUFFICES ASSUME Inv, [Next]_vars PROVE Inv'
  OBVIOUS
<1>1. CASE StatusNext /\ UNCHANGED <<streamVars, proxyVars>>
  BY <1>1, StillInv
<1>2. CASE \E s \in Client : (StreamStep(s) \/ ClientStep(s)) /\ UNCHANGED <<statusVars, proxyVars>>
  BY <1>2, ClientInv
<1>3. CASE \E d \in Download : Local(d) \/ Work(d) \/ Store(d)
  BY <1>3, DownloadInv, StoreInv, DownloadAssumption DEF Store
<1>4. CASE UNCHANGED vars
  BY <1>4, StillInv DEF vars
<1> QED
  BY <1>1, <1>2, <1>3, <1>4 DEF Next

THEOREM TarballInv == Spec => []Inv
  BY TarballInit, TarballStep, PTL DEF Spec

-----------------------------------------------------------------------------
\* A download is fetched once: on_open is called by the savestream's "open" and
\* by its "error", and takes effect the first time only.
THEOREM FetchedAtMostOnce == Spec => []FetchedOnce
<1>1. Inv => FetchedOnce
  BY DEF Inv, Placed, FetchedOnce
<1> QED
  BY <1>1, TarballInv, PTL

\* No part of a tarball passes for the whole, in the storage or at a client, as
\* long as the uplinks tell the length.
THEOREM NoTruncation == Spec => []NoSilentTruncation
<1>1. Inv => NoSilentTruncation
  BY DEF Inv, Wholes, NoSilentTruncation
<1> QED
  BY <1>1, TarballInv, PTL

-----------------------------------------------------------------------------
\* What an upload was told, and what it left.
Told ==
    /\ verdict \in [Stream -> {"none", "success", "error"}]
    /\ \A s \in Client :
        /\ stage[s] = "recording" => tarball # NoFile
        /\ verdict[s] = "success" =>
            called[s] = {"done"} /\ len[s] = Whole /\ tarball # NoFile /\ shasum # NoFile

\* A step of a download itself leaves the uploads alone, and what is stored.
Apart(d) ==
    /\ \A s \in Stream \ {d} :
        stage'[s] = stage[s] /\ called'[s] = called[s] /\ len'[s] = len[s] /\ verdict'[s] = verdict[s]
    /\ tarball' = tarball /\ shasum' = shasum
    /\ verdict' \in [Stream -> {"none", "success", "error"}]

LEMMA DownloadApart ==
  ASSUME Typed, Told, NEW d \in Download, Local(d) \/ Work(d)
  PROVE  Apart(d)
<1> USE DownloadAssumption, StreamAssumption
    DEF Typed, Told, Apart, streamVars, Stage, Tell, Fault
<1>1. CASE ReadLocal(d)
  BY <1>1 DEF ReadLocal
<1>2. CASE ServeLocal(d)
  BY <1>2 DEF ServeLocal
<1>3. CASE Miss(d)
  BY <1>3 DEF Miss
<1>4. CASE Lookup(d)
  BY <1>4 DEF Lookup, ServeFile, OnOpen, AddTarball
<1>5. CASE Synced(d)
  BY <1>5 DEF Synced, OnOpen
<1>6. CASE NotSynced(d)
  BY <1>6 DEF NotSynced
<1>7. CASE SaveOpen(d)
  BY <1>7 DEF SaveOpen, Open, OnOpen
<1>8. CASE SaveError(d)
  BY <1>8 DEF SaveError, ErrorEvent, Conflict, TellMissing, OpenFail, WriteFail, RenameFail, RecordFail
<1>9. CASE Started(d)
  BY <1>9 DEF Started
<1>10. CASE Refused(d)
  BY <1>10 DEF Refused, FetchError, Abort, AbortOpening
<1>11. CASE Broken(d)
  BY <1>11 DEF Broken, FetchError, Abort, AbortOpening
<1>12. CASE Chunk(d)
  BY <1>12 DEF Chunk, Feed
<1>13. CASE End(d)
  BY <1>13 DEF End, FetchError, Abort, AbortOpening, Done
<1> QED
  BY <1>1, <1>2, <1>3, <1>4, <1>5, <1>6, <1>7, <1>8, <1>9, <1>10, <1>11, <1>12, <1>13 DEF Local, Work

LEMMA DownloadTold ==
  ASSUME Typed, Told, NEW d \in Download, Local(d) \/ Work(d)
  PROVE  Told'
  BY DownloadApart, DownloadAssumption DEF Told, Apart

LEMMA StoreTold ==
  ASSUME Inv, Told, NEW s \in Stream, Progress(s)
  PROVE  Told'
<1> USE StreamAssumption DEF Inv, Typed, Told, Stage, Tell, Whole
<1>1. CASE Access(s)
  BY <1>1 DEF Access, AbortOpening
<1>2. CASE OpenMissing(s)
  BY <1>2 DEF OpenMissing
<1>3. CASE Close(s)
  BY <1>3 DEF Close
<1>4. CASE Rename(s)
  BY <1>4 DEF Rename
<1>5. CASE Record(s)
  BY <1>5 DEF Record, Closed, Uploads
<1> QED
  BY <1>1, <1>2, <1>3, <1>4, <1>5 DEF Progress

LEMMA ClientTold ==
  ASSUME Inv, Told, NEW s \in Client, StreamStep(s) \/ ClientStep(s)
  PROVE  Told'
<1> USE StreamAssumption DEF Inv, Typed, Told, Stage, Tell, Fault, Whole
<1>1. CASE Progress(s)
  BY <1>1, StoreTold
<1>2. CASE Open(s)
  BY <1>2 DEF Open
<1>3. CASE ErrorEvent(s)
  BY <1>3 DEF ErrorEvent, Conflict, TellMissing, OpenFail, WriteFail, RenameFail, RecordFail
<1>4. CASE Upload(s)
  BY <1>4 DEF Upload, AddTarball
<1>5. CASE Send(s)
  BY <1>5 DEF Send, Uploading, Feed
<1>6. CASE Finish(s)
  BY <1>6 DEF Finish, Uploading, Done, AbortOpening
<1>7. CASE GoAway(s)
  BY <1>7 DEF GoAway, Uploading, Abort, AbortOpening
<1> QED
  BY <1>1, <1>2, <1>3, <1>4, <1>5, <1>6, <1>7 DEF StreamStep, ClientStep

LEMMA ToldStep == Inv /\ Told /\ [Next]_vars => Told'
<1> SUFFICES ASSUME Inv, Told, [Next]_vars PROVE Told'
  OBVIOUS
<1>1. CASE StatusNext /\ UNCHANGED <<streamVars, proxyVars>>
  BY <1>1 DEF Told, streamVars
<1>2. CASE \E s \in Client : (StreamStep(s) \/ ClientStep(s)) /\ UNCHANGED <<statusVars, proxyVars>>
  BY <1>2, ClientTold
<1>3. CASE \E d \in Download : Local(d) \/ Work(d) \/ Store(d)
  BY <1>3, DownloadTold, StoreTold, DownloadAssumption DEF Store, Inv
<1>4. CASE UNCHANGED vars
  BY <1>4 DEF vars, Told, streamVars
<1> QED
  BY <1>1, <1>2, <1>3, <1>4 DEF Next

\* An upload that is told "success" has sent everything, and the tarball and its
\* shasum are there: over done() before the file is looked for, failing files
\* and downloads that store the same tarball.
THEOREM SuccessStored == Spec => []SuccessMeansStored
<1>1. Init => Told
  BY StreamAssumption DEF Init, StreamInit, Told
<1>2. Told => SuccessMeansStored
  BY DEF Told, SuccessMeansStored
<1> QED
  BY <1>1, <1>2, ToldStep, TarballInv, PTL DEF Spec

-----------------------------------------------------------------------------
\* The counter of an uplink is the number of its requests that broke down since
\* one was answered.
Counted ==
    /\ failed_requests = streak /\ streak \in [Uplink -> 0..MaxFails]
    /\ call \in [Call -> {"idle", "thrown"} \cup Calling]
    /\ via \in [Call -> Uplink \cup {NoUplink}]
    /\ access \subseteq Uplink

\* A step refuses only what it may, and keeps the count.
Justified ==
    \A c \in Call : call[c] # "refused" /\ call'[c] = "refused" =>
        via'[c] \in Uplink /\ streak[via'[c]] = MaxFails

\* A set of numbers has a least one.
LEMMA LeastNatural ==
    ASSUME NEW T \in SUBSET Nat, T # {}
    PROVE  \E x \in T : \A y \in T : x <= y
<1> DEFINE R == OpToRel(<, Nat)
<1>1. \A a, b \in Nat : <<a, b>> \in R <=> a < b
    BY DEF OpToRel
<1>2. IsWellFoundedOn(R, Nat)
    BY NatLessThanWellFounded
<1> HIDE DEF R
<1>3. PICK x \in T : \A y \in T : ~(<<y, x>> \in R)
    BY <1>2, WFMin
<1>4. ASSUME NEW y \in T PROVE x <= y
    <2>1. x \in Nat /\ y \in Nat
        OBVIOUS
    <2>2. ~(y < x)
        BY <2>1, <1>1, <1>3
    <2> QED
        BY <2>1, <2>2
<1> QED
    BY <1>4

\* The maximum of a finite set of numbers is one of its elements, and none is
\* above it: the element with the fewest others above it.
LEMMA MaxIsIn ==
    ASSUME NEW S \in SUBSET Nat, IsFiniteSet(S), S # {}
    PROVE  Max(S) \in S /\ \A y \in S : Max(S) >= y
<1> DEFINE Above(x) == {y \in S : y > x}
           R == OpToRel(<, Nat)
           N == {Cardinality(Above(x)) : x \in S}
<1>1. \A x \in S : IsFiniteSet(Above(x)) /\ Cardinality(Above(x)) \in Nat
    BY FS_Subset, FS_CardinalityType
<1>2. \A a, b \in Nat : a < b => <<a, b>> \in R
    BY DEF OpToRel
<1> HIDE DEF R
<1>3. PICK x \in S : \A y \in S : <<Cardinality(Above(y)), Cardinality(Above(x))>> \notin R
    <2>1. N \subseteq Nat /\ N # {}
        BY <1>1
    <2>2. IsWellFoundedOn(R, Nat)
        BY NatLessThanWellFounded DEF R
    <2> HIDE DEF N
    <2>3. PICK n \in N : \A k \in N : ~(<<k, n>> \in R)
        BY <2>1, <2>2, WFMin
    <2> QED
        BY <2>3, Zenon DEF N
<1>4. ASSUME NEW y \in S, y > x PROVE FALSE
    <2>1. x \in Int /\ y \in Int /\ \A z \in S : z \in Int
        OBVIOUS
    <2>2. ~(y > y) /\ \A z \in S : z > y => z > x
        BY <1>4, <2>1
    <2>3. Above(y) \in SUBSET Above(x) /\ y \in Above(x) /\ y \notin Above(y)
        BY <1>4, <2>2
    <2>4. Cardinality(Above(y)) <= Cardinality(Above(x)) /\ Cardinality(Above(y)) # Cardinality(Above(x))
        BY <1>1, <2>3, FS_Subset
    <2>5. <<Cardinality(Above(y)), Cardinality(Above(x))>> \in R
        BY <1>1, <1>2, <2>4
    <2> QED
        BY <1>3, <2>5
<1>5. \E m \in S : \A y \in S : m >= y
    BY <1>4
<1> QED
    BY <1>5 DEF Max

LEMMA BoundedNumber == \A n \in Nat : Bounded(n) \in 0..MaxFails
<1> SUFFICES ASSUME NEW n \in Nat PROVE Bounded(n) \in 0..MaxFails
  OBVIOUS
<1>1. {n, MaxFails} \in SUBSET Nat
  BY StatusAssumption
<1>2. \E x \in {n, MaxFails} : \A y \in {n, MaxFails} : x <= y
  BY <1>1
<1>3. Min({n, MaxFails}) \in {n, MaxFails} /\ \A y \in {n, MaxFails} : Min({n, MaxFails}) <= y
  BY <1>2 DEF Min
<1> QED
  BY <1>1, <1>3 DEF Bounded

LEMMA ChosenUplink == access \subseteq Uplink => Chosen \in Uplink \cup {NoUplink}
  BY StatusAssumption, MaxIsIn, FS_Subset DEF Chosen

LEMMA LeastUplink ==
  ASSUME NEW S \in SUBSET Uplink, S # {}
  PROVE  Min(S) \in Uplink
  BY StatusAssumption, LeastNatural DEF Min

LEMMA RequestCounted ==
  ASSUME Counted, NEW c \in Call, NEW u \in Uplink \cup {NoUplink}, NEW h, Request(c, u, h), UNCHANGED access
  PROVE  Counted' /\ Justified
  BY StatusAssumption DEF Counted, Justified, Request, IfRequestFailure, Calling

LEMMA OnOpenCounted ==
  ASSUME Counted, NEW d \in Download, OnOpen(d), UNCHANGED access
  PROVE  Counted' /\ Justified
  BY ChosenUplink, RequestCounted, DownloadAssumption DEF Counted, OnOpen

\* The answers of an uplink, and its silence, are counted together.
LEMMA ReportCounted ==
  ASSUME Counted, NEW c \in Call, NEW b \in BOOLEAN, StatusCheck(via[c], b), Streak(via[c], b),
         NEW x \in {"idle", "answered"}, call' = [call EXCEPT ![c] = x], UNCHANGED <<via, access>>
  PROVE  Counted' /\ Justified
<1> DEFINE u == via[c]
<1>1. u \in Uplink \cup {NoUplink}
  BY DEF Counted
<1>2. call' \in [Call -> {"idle", "thrown"} \cup Calling] /\ Justified
  BY DEF Counted, Justified, Calling
<1>3. CASE u = NoUplink
  BY <1>2, <1>3 DEF Counted, StatusCheck, Streak
<1>4. CASE u # NoUplink
  <2>0. u \in Uplink /\ streak \in [Uplink -> 0..MaxFails] /\ MaxFails \in Nat
    BY <1>1, <1>4, StatusAssumption DEF Counted
  <2> HIDE DEF u
  <2>1. streak[u] \in 0..MaxFails
    BY <2>0
  <2> USE DEF u
  <2>3. streak[u] + 1 \in Nat
    BY <2>0, <2>1
  <2>2. Bounded(streak[u] + 1) \in 0..MaxFails /\ 0 \in 0..MaxFails
    BY <2>0, <2>3, BoundedNumber
  <2> QED
    BY <1>1, <1>2, <1>4, <2>2 DEF Counted, StatusCheck, Streak
<1> QED
  BY <1>3, <1>4

LEMMA CallCounted ==
  ASSUME Counted, NEW c \in Call, Respond(c) \/ Break(c) \/ Refuse(c) \/ EndCall(c), UNCHANGED access
  PROVE  Counted' /\ Justified
<1>1. CASE Respond(c)
  BY <1>1, ReportCounted DEF Respond
<1>2. CASE Break(c)
  <2>1. CASE call[c] = "pending"
    BY <1>2, <2>1, ReportCounted DEF Break
  <2>2. CASE call[c] # "pending"
    BY <1>2, <2>2 DEF Break, Counted, Justified
  <2> QED
    BY <2>1, <2>2
<1>3. CASE Refuse(c) \/ EndCall(c)
  BY <1>3 DEF Refuse, EndCall, Counted, Justified
<1> QED
  BY <1>1, <1>2, <1>3

LEMMA StatusCounted ==
  ASSUME Counted, StatusNext, UNCHANGED access
  PROVE  Counted' /\ Justified
<1>1. CASE \E m \in Meta : MetaStep(m)
  BY <1>1, CallCounted, StatusAssumption DEF MetaStep
<1>2. CASE \E m \in Meta : \E u \in Uplink : GetRemoteMetadata(m, u)
  BY <1>2, RequestCounted, StatusAssumption DEF GetRemoteMetadata
<1>3. CASE \E u \in Uplink : GoDown(u) \/ ComeBack(u)
  BY <1>3 DEF GoDown, ComeBack, Counted, Justified
<1>4. CASE Tick
  BY <1>4 DEF Tick, Counted, Justified
<1> QED
  BY <1>1, <1>2, <1>3, <1>4 DEF StatusNext

LEMMA DownloadCounted ==
  ASSUME Counted, NEW d \in Download, Local(d) \/ Work(d)
  PROVE  Counted' /\ Justified
<1>0. d \in Call /\ UNCHANGED access
  BY DownloadAssumption
  DEF Local, Work, ReadLocal, ServeLocal, Miss, Lookup, Synced, NotSynced, SaveOpen, SaveError,
      Started, Refused, Broken, Chunk, End
<1>1. ASSUME UNCHANGED statusVars PROVE Counted' /\ Justified
  BY <1>0, <1>1 DEF statusVars, Counted, Justified
<1>2. CASE ReadLocal(d) \/ ServeLocal(d) \/ Miss(d) \/ NotSynced(d) \/ Chunk(d)
  BY <1>1, <1>2 DEF ReadLocal, ServeLocal, Miss, NotSynced, Chunk
<1>3. CASE Lookup(d)
  <2>1. CASE known
    BY <1>0, <1>1, <1>3, <2>1, OnOpenCounted DEF Lookup, ServeFile
  <2>2. CASE ~known /\ access \cap broken = {}
    BY <1>1, <1>3, <2>2 DEF Lookup
  <2>3. CASE ~known /\ access \cap broken # {}
    <3>1. Min(access \cap broken) \in Uplink
      BY <2>3, LeastUplink DEF Counted
    <3>2. Request(d, Min(access \cap broken), origin)
      BY <1>3, <2>3 DEF Lookup
    <3> QED
      BY <1>0, <3>1, <3>2, RequestCounted
  <2> QED
    BY <2>1, <2>2, <2>3
<1>4. CASE Synced(d)
  BY <1>0, <1>1, <1>4, OnOpenCounted DEF Synced
<1>5. CASE SaveOpen(d)
  BY <1>0, <1>5, OnOpenCounted DEF SaveOpen
<1>6. CASE SaveError(d)
  BY <1>0, <1>1, <1>6, OnOpenCounted DEF SaveError
<1>7. CASE Started(d) \/ Broken(d) \/ End(d)
  BY <1>0, <1>7, CallCounted DEF Started, Broken, End
<1>8. CASE Refused(d)
  BY <1>0, <1>8, ReportCounted DEF Refused
<1> QED
  BY <1>2, <1>3, <1>4, <1>5, <1>6, <1>7, <1>8 DEF Local, Work

LEMMA CountedStep == Counted /\ [Next]_vars => Counted' /\ Justified
<1> SUFFICES ASSUME Counted, [Next]_vars PROVE Counted' /\ Justified
  OBVIOUS
<1>1. ASSUME UNCHANGED <<statusVars, access>> PROVE Counted' /\ Justified
  BY <1>1 DEF statusVars, Counted, Justified
<1>2. CASE StatusNext /\ UNCHANGED <<streamVars, proxyVars>>
  BY <1>2, StatusCounted DEF proxyVars
<1>3. CASE \E s \in Client : (StreamStep(s) \/ ClientStep(s)) /\ UNCHANGED <<statusVars, proxyVars>>
  BY <1>1, <1>3 DEF proxyVars
<1>4. CASE \E d \in Download : Local(d) \/ Work(d)
  BY <1>4, DownloadCounted
<1>5. CASE \E d \in Download : Store(d)
  BY <1>1, <1>5 DEF Store, proxyVars
<1>6. CASE UNCHANGED vars
  BY <1>1, <1>6 DEF vars, proxyVars
<1> QED
  BY <1>2, <1>3, <1>4, <1>5, <1>6 DEF Next

\* An uplink is refused only after max_fails requests through it broke down in a
\* row, whatever the order in which they report.
THEOREM RefusalsJustified == Spec => RefusalJustified
<1>1. Init => Counted
  BY StatusAssumption DEF Init, StatusInit, Counted, Calling
<1>2. Counted /\ [Next]_vars => [Justified]_vars
  BY CountedStep
<1> QED
  BY <1>1, <1>2, CountedStep, PTL DEF Spec, RefusalJustified, Justified
=============================================================================
