---------------------------- MODULE TarballProxy ----------------------------
(***************************************************************************)
(* store/src/storage.ts, getTarball: a tarball is read from the storage, or *)
(* fetched from an uplink and given to the client and to the storage at     *)
(* once.  Each download is a request of UplinkStatus and, where the uplink  *)
(* is cached, a stream of TarballStreams.                                   *)
(***************************************************************************)
EXTENDS UplinkStatus, TarballStreams

CONSTANTS
    Download        \* calls of getTarball

ASSUME DownloadAssumption ==
    /\ Call = Download \cup Meta
    /\ Stream = Download \cup Client /\ Download \cap Client = {}

VARIABLES
    access,         \* the uplinks the package may be fetched from (hasProxyTo)
    cached,         \* those of them with the option "cache"
    origin,         \* the host of the file's url
    known,          \* whether _distfiles of package.json has the file
    pc,             \* the progress of each download
    save,           \* savestream: none, live, or null after it failed
    got,            \* how much the client has got
    sent,           \* how much has come from the uplink
    sized,          \* whether the uplink told the length
    asks,           \* how often the tarball was fetched
    answer          \* how the client's stream ended, at first

proxyVars == <<access, cached, origin, known, pc, save, got, sent, sized, asks, answer>>
vars == <<statusVars, streamVars, proxyVars>>

Steps == {"idle", "reading", "lookup", "sync", "opening", "asking", "streaming", "done"}

TypeOK ==
    /\ StatusTypeOK /\ StreamTypeOK
    /\ access \subseteq Uplink /\ cached \subseteq access /\ origin \in Uplink /\ known \in BOOLEAN
    /\ pc \in [Download -> Steps]
    /\ save \in [Download -> {"none", "live", "null"}]
    /\ got \in [Download -> 0..Whole] /\ sent \in [Download -> 0..Whole]
    /\ sized \in [Download -> BOOLEAN] /\ asks \in [Download -> Nat]
    /\ answer \in [Download -> {"none", "end", "error"}]

Init ==
    /\ StatusInit /\ StreamInit
    /\ access \in SUBSET Uplink /\ cached \in SUBSET access /\ origin \in Uplink /\ known \in BOOLEAN
    /\ folder = known /\ (origin \notin access => known)
    /\ pc = [d \in Download |-> "idle"] /\ save = [d \in Download |-> "none"]
    /\ got = [d \in Download |-> 0] /\ sent = [d \in Download |-> 0]
    /\ sized = [d \in Download |-> TRUE] /\ asks = [d \in Download |-> 0]
    /\ answer = [d \in Download |-> "none"]

Goto(d, s) == pc' = [pc EXCEPT ![d] = s]
Save(d, s) == save' = [save EXCEPT ![d] = s]
\* The client's stream ends or emits an error; what comes later is too late.
Answer(d, a) == answer' = [answer EXCEPT ![d] = IF @ = "none" THEN a ELSE @]

-----------------------------------------------------------------------------
(* The storage first *)

\* The tarball is here, and opened; or the file could not be read.
ReadLocal(d) ==
    /\ pc[d] = "idle" /\ tarball # NoFile
    /\ \/ Goto(d, "reading") /\ UNCHANGED <<answer, faults>>
       \/ Fault /\ Goto(d, "done") /\ Answer(d, "error")
    /\ sent' = [sent EXCEPT ![d] = tarball]
    /\ UNCHANGED <<statusVars, tarball, shasum, folder, stage, called, len, tmp, verdict>>
    /\ UNCHANGED <<access, cached, origin, known, save, got, sized, asks>>

\* The file is given to the client, or breaks off.
ServeLocal(d) ==
    /\ pc[d] = "reading" /\ Goto(d, "done")
    /\ \/ got' = [got EXCEPT ![d] = sent[d]] /\ Answer(d, "end") /\ UNCHANGED faults
       \/ Fault /\ Answer(d, "error") /\ UNCHANGED got
    /\ UNCHANGED <<statusVars, tarball, shasum, folder, stage, called, len, tmp, verdict>>
    /\ UNCHANGED <<access, cached, origin, known, save, sent, sized, asks>>

\* 404 of the storage.
Miss(d) ==
    /\ pc[d] = "idle" /\ tarball = NoFile /\ Goto(d, "lookup")
    /\ UNCHANGED <<statusVars, streamVars, access, cached, origin, known, save, got, sent, sized, asks, answer>>

-----------------------------------------------------------------------------
(* serveFile *)

\* The last uplink of the configuration that the package may use, wherever the
\* file is; else one of its own.
Chosen == IF access = {} THEN NoUplink ELSE Max(access)
Caches == Chosen \in cached \cup {NoUplink}

\* on_open: the tarball is fetched.
OnOpen(d) ==
    /\ Request(d, Chosen, origin)
    /\ Goto(d, "asking") /\ asks' = [asks EXCEPT ![d] = @ + 1]

ServeFile(d) ==
    IF Caches
    THEN AddTarball(d) /\ Save(d, "live") /\ Goto(d, "opening") /\ UNCHANGED <<statusVars, asks>>
    ELSE OnOpen(d) /\ UNCHANGED <<streamVars, save>>

\* getPackageMetadata: the file is known, or every uplink is asked.  What is
\* thrown then reaches its callback as an error, which asks again.
Lookup(d) ==
    /\ pc[d] = "lookup"
    /\ CASE known                    -> ServeFile(d)
         [] access \cap broken = {}  -> Goto(d, "sync") /\ UNCHANGED <<statusVars, streamVars, save, asks>>
         [] OTHER                    ->
               /\ Request(d, Min(access \cap broken), origin)
               /\ UNCHANGED <<streamVars, pc, save, asks>>
    /\ UNCHANGED <<access, cached, origin, known, got, sent, sized, answer>>

\* _syncUplinksMetadata (UplinkSync) found the file and stored the package.
Synced(d) ==
    /\ pc[d] = "sync" /\ access # {}
    /\ known' = TRUE
    /\ IF Caches
       THEN /\ folder' = TRUE /\ stage[d] = "none" /\ Stage(d, "access")
            /\ Save(d, "live") /\ Goto(d, "opening")
            /\ UNCHANGED <<statusVars, tarball, shasum, called, len, tmp, verdict, faults, asks>>
       ELSE /\ OnOpen(d) /\ folder' = TRUE
            /\ UNCHANGED <<tarball, shasum, stage, called, len, tmp, verdict, faults, save>>
    /\ UNCHANGED <<access, cached, origin, got, sent, sized, answer>>

\* It failed, or nobody knows the file: the 404 of the storage.
NotSynced(d) ==
    /\ pc[d] = "sync" /\ Goto(d, "done") /\ Answer(d, "error")
    /\ UNCHANGED <<statusVars, streamVars, access, cached, origin, known, save, got, sent, sized, asks>>

\* The savestream is open.
SaveOpen(d) ==
    /\ Open(d) /\ OnOpen(d)
    /\ UNCHANGED <<access, cached, origin, known, save, got, sent, sized, answer>>

\* The event 'error' of the savestream: it is aborted, and the client gets the
\* tarball without it.  The fetch is begun only if it was not before.
SaveError(d) ==
    /\ save[d] = "live" /\ ErrorEvent(d) /\ Save(d, "null")
    /\ IF pc[d] = "opening" THEN OnOpen(d) ELSE UNCHANGED <<statusVars, pc, asks>>
    /\ UNCHANGED <<access, cached, origin, known, got, sent, sized, answer>>

-----------------------------------------------------------------------------
(* fetchTarball and the pipes *)

\* The savestream is aborted if it is there, and the client gets the error.
FetchError(d) ==
    /\ Answer(d, "error")
    /\ IF save[d] = "live" THEN Abort(d) /\ Save(d, "null") ELSE UNCHANGED <<streamVars, save>>

\* The response, with a length or without.
Started(d) ==
    /\ pc[d] = "asking" /\ Respond(d) /\ Goto(d, "streaming")
    /\ \E b \in BOOLEAN : sized' = [sized EXCEPT ![d] = b]
    /\ UNCHANGED <<streamVars, access, cached, origin, known, save, got, sent, asks, answer>>

\* A status that is no success: nothing is piped.
Refused(d) ==
    /\ pc[d] = "asking" /\ call[d] = "pending" /\ up[host[d]]
    /\ call' = [call EXCEPT ![d] = "idle"] /\ doomed' = doomed \ {d}
    /\ StatusCheck(via[d], TRUE) /\ Streak(via[d], TRUE)
    /\ UNCHANGED <<broken, up, via, host, outages>>
    /\ FetchError(d) /\ Goto(d, "done")
    /\ UNCHANGED <<access, cached, origin, known, got, sent, sized, asks>>

\* The uplink is offline, or the connection breaks, before the response or after.
Broken(d) ==
    /\ pc[d] \in {"asking", "streaming"} /\ (Break(d) \/ Refuse(d))
    /\ FetchError(d) /\ Goto(d, "done")
    /\ UNCHANGED <<access, cached, origin, known, got, sent, sized, asks>>

\* A chunk goes to the client and to the savestream.
Chunk(d) ==
    /\ pc[d] = "streaming" /\ sent[d] < Whole
    /\ sent' = [sent EXCEPT ![d] = @ + 1]
    /\ got' = [got EXCEPT ![d] = @ + 1]
    /\ IF save[d] = "live" THEN Feed(d, len[d] + 1) ELSE UNCHANGED streamVars
    /\ UNCHANGED <<statusVars, access, cached, origin, known, pc, save, sized, asks, answer>>

\* Mutant: the length is not compared.
EndUnchecked(d) ==
    /\ pc[d] = "streaming" /\ EndCall(d) /\ Goto(d, "done")
    /\ sent[d] = Whole \/ d \in doomed
    /\ Answer(d, "end")
    /\ IF save[d] = "live" THEN Done(d) /\ (IF len[d] = 0 THEN Save(d, "null") ELSE UNCHANGED save)
       ELSE UNCHANGED <<streamVars, save>>
    /\ UNCHANGED <<access, cached, origin, known, got, sent, sized, asks>>

\* The end of the body; a connection that was cut may look like it.  A length
\* that does not match makes an error of it, before the end.
End(d) ==
    /\ pc[d] = "streaming" /\ EndCall(d) /\ Goto(d, "done")
    /\ sent[d] = Whole \/ d \in doomed
    /\ IF sized[d] /\ sent[d] # Whole THEN FetchError(d)
       ELSE /\ Answer(d, "end")
            /\ IF save[d] = "live"
               THEN Done(d) /\ (IF len[d] = 0 THEN Save(d, "null") ELSE UNCHANGED save)
               ELSE UNCHANGED <<streamVars, save>>
    /\ UNCHANGED <<access, cached, origin, known, got, sent, sized, asks>>

-----------------------------------------------------------------------------
Local(d) == ReadLocal(d) \/ Miss(d)
Work(d) ==
    \/ ServeLocal(d) \/ Lookup(d) \/ Synced(d) \/ NotSynced(d)
    \/ SaveOpen(d) \/ SaveError(d)
    \/ Started(d) \/ Refused(d) \/ Broken(d) \/ Chunk(d) \/ End(d)

\* The rest of a savestream's way into the storage; its errors are SaveError.
Store(d) == Progress(d) /\ UNCHANGED <<statusVars, proxyVars>>

Next ==
    \/ /\ ~Fatal
       /\ \/ StatusNext /\ UNCHANGED <<streamVars, proxyVars>>
          \/ \E s \in Client : (StreamStep(s) \/ ClientStep(s)) /\ UNCHANGED <<statusVars, proxyVars>>
          \/ \E d \in Download : Local(d) \/ Work(d) \/ Store(d)
    \/ Fatal /\ UNCHANGED vars

Serving == ~Fatal /\ \E d \in Download : Work(d) \/ Store(d)
Storing == ~Fatal /\ (\E s \in Client : StreamStep(s)) /\ UNCHANGED <<statusVars, proxyVars>>
Asking == ~Fatal /\ (\E m \in Meta : MetaStep(m)) /\ UNCHANGED <<streamVars, proxyVars>>

\* Every request and every operation on a file comes to an end, and the clock
\* goes on.
Fairness ==
    /\ WF_vars(Serving \/ Storing) /\ WF_vars(Asking)
    /\ WF_vars(~Fatal /\ Tick /\ UNCHANGED <<streamVars, proxyVars>>)

Spec == Init /\ [][Next]_vars /\ Fairness

-----------------------------------------------------------------------------
\* A request to an uplink is refused only when max_fails requests through it
\* broke down, with no answer to any in between: neither a download that broke
\* off after its response nor a request that was itself refused counts.
RefusalJustified ==
    [][\A c \in Call : call[c] # "refused" /\ call'[c] = "refused" =>
            via'[c] \in Uplink /\ streak[via'[c]] = MaxFails]_vars

\* An uplink whose host stays up is used again, however many requests that were
\* sent before break down late, as long as somebody asks for it.
BackInUse ==
    \A u \in Uplink :
        []~Fatal /\ <>[]up[u] /\ []<>(\E m \in Meta : via[m] = u /\ call[m] \in Calling)
            => []<>(\E m \in Meta : via[m] = u /\ call[m] = "answered")

\* A download is fetched once, whatever becomes of the savestream, before it is
\* open and after.
FetchedOnce == \A d \in Download : asks[d] <= 1

\* A client is not given a part of a tarball as the whole, and no part is
\* stored: an uplink that does not tell the length is the only way to it.
NoSilentTruncation ==
    (\A d \in Download : sized[d]) =>
        /\ tarball \in {NoFile, Whole} /\ shasum \in {NoFile, Whole}
        /\ \A d \in Download : answer[d] = "end" => got[d] = Whole

\* Every download comes to an end or an error, whatever becomes of the storage
\* and of the uplink; and so does an upload, though done() may be called before
\* the file is looked for.  Only an uplink whose "auth" is of no use takes the
\* server with it, when it is asked.
Unanswered ==
    \/ \E d \in Download : pc[d] # "idle" /\ answer[d] = "none"
    \/ \E s \in Client : called[s] = {"done"} /\ verdict[s] = "none"

Answered == Unanswered ~> ~Unanswered \/ (Fatal /\ broken # {})
=============================================================================
