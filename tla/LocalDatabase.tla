--------------------------- MODULE LocalDatabase ---------------------------
(***************************************************************************)
(* core/local-storage/src/local-database.ts: the list of private packages,  *)
(* kept in memory and written as a whole, after each change, to one JSON    *)
(* file.  _sync makes the folder, then calls fs.writeFile, which truncates  *)
(* the file and writes it: calls that overlap mix these steps.              *)
(*                                                                          *)
(* A content of the file is the list it was made from and its length, which *)
(* grows with the list: a shorter text written over a longer one leaves the *)
(* end of the longer one, and the file does not parse.                      *)
(***************************************************************************)
EXTENDS Naturals, FiniteSets

CONSTANTS
    Listed,     \* packages
    SyncCall,   \* calls that may be under way at once
    NoFile,     \* the list of a file that is not there
    Torn,       \* the list of a file that does not parse
    MaxSyncFaults, \* bound: failing mkdir and writeFile calls
    MaxCrashes  \* bound: crashes of the process

ASSUME NameAssumption == IsFiniteSet(Listed)
ASSUME MarkAssumption ==
    NoFile # Torn /\ \A l \in SUBSET Listed : l # NoFile /\ l # Torn

VARIABLES
    listed,     \* this.data.list
    phase,      \* "down", "starting" (init) or "up"
    file,       \* the database file
    sync,       \* the progress of each call
    text,       \* the list each call turned into JSON
    spoilt,     \* history: since a call last began alone, another one began
                \* beside it, or one failed, or the process was killed
    syncFaults, crashes

listVars == <<listed, phase, file, sync, text, spoilt, syncFaults, crashes>>

Missing == [len |-> 0, list |-> NoFile]
Empty == [len |-> 0, list |-> Torn]
Json(l) == [len |-> Cardinality(l) + 1, list |-> l]

Parses == file.list # NoFile /\ file.list # Torn
IsTorn == file.list = Torn

ListTypeOK ==
    /\ listed \in SUBSET Listed
    /\ phase \in {"down", "starting", "up"}
    /\ file \in [len : 0 .. Cardinality(Listed) + 1, list : {NoFile, Torn} \cup SUBSET Listed]
    /\ sync \in [SyncCall -> {"idle", "mkdir", "open", "write"}]
    /\ text \in [SyncCall -> SUBSET Listed]
    /\ spoilt \in BOOLEAN /\ syncFaults \in Nat /\ crashes \in Nat

ListInit ==
    /\ listed = {} /\ phase = "down"
    /\ file \in {Missing} \cup {Json(l) : l \in SUBSET Listed}
    /\ sync = [k \in SyncCall |-> "idle"] /\ text = [k \in SyncCall |-> {}]
    /\ spoilt = FALSE /\ syncFaults = 0 /\ crashes = 0

Quiet == \A k \in SyncCall : sync[k] = "idle"

-----------------------------------------------------------------------------
(* _sync: mkdir, JSON.stringify, writeFile *)

\* Mutant: a call that finds another one under way leaves the writing to it.
SyncMerged(k) ==
    /\ sync' = IF Quiet THEN [sync EXCEPT ![k] = "mkdir"] ELSE sync
    /\ spoilt' = (~Quiet /\ spoilt)

Sync(k) ==
    /\ sync' = [sync EXCEPT ![k] = "mkdir"]
    /\ spoilt' = ~Quiet

\* The folder is there: the list, as it is by now, is turned into text.
Stringify(k) ==
    /\ sync[k] = "mkdir"
    /\ text' = [text EXCEPT ![k] = listed]
    /\ sync' = [sync EXCEPT ![k] = "open"]
    /\ UNCHANGED <<listed, phase, file, spoilt, syncFaults, crashes>>

\* writeFile opens the file, which truncates it ...
Truncate(k) ==
    /\ sync[k] = "open"
    /\ file' = Empty
    /\ sync' = [sync EXCEPT ![k] = "write"]
    /\ UNCHANGED <<listed, phase, text, spoilt, syncFaults, crashes>>

\* The call returns; the first one ends the initialization.
Return(k) ==
    /\ sync' = [sync EXCEPT ![k] = "idle"]
    /\ phase' = IF phase = "starting" THEN "up" ELSE phase

\* ... and writes from its beginning, over what another call wrote meanwhile.
Write(k) ==
    /\ sync[k] = "write"
    /\ LET old == file.len
           new == Json(text[k])
       IN  file' = IF old <= new.len THEN new ELSE [len |-> old, list |-> Torn]
    /\ Return(k)
    /\ UNCHANGED <<listed, text, spoilt, syncFaults, crashes>>

\* mkdir or writeFile fails: the caller gets an error, the list keeps the
\* change.  A failing init ends the process.
SyncFail(k) ==
    /\ sync[k] # "idle" /\ syncFaults < MaxSyncFaults
    /\ syncFaults' = syncFaults + 1
    /\ sync' = [sync EXCEPT ![k] = "idle"]
    /\ phase' = IF phase = "starting" THEN "down" ELSE phase
    /\ spoilt' = TRUE
    /\ UNCHANGED <<listed, file, text, crashes>>

-----------------------------------------------------------------------------
(* init, add, remove, setSecret and clean *)

\* init: a file that is not there is an empty list.  One that does not parse
\* sets this.locked: _sync throws, init fails and the server does not start.
InitDatabase(k) ==
    /\ phase = "down"
    /\ ~IsTorn
    /\ listed' = IF Parses THEN file.list ELSE {}
    /\ phase' = "starting"
    /\ Sync(k)
    /\ UNCHANGED <<file, text, syncFaults, crashes>>

\* A package that is listed is not written again.
Add(k, n) ==
    /\ phase = "up" /\ sync[k] = "idle" /\ n \notin listed
    /\ listed' = listed \cup {n}
    /\ Sync(k)
    /\ UNCHANGED <<phase, file, text, syncFaults, crashes>>

Remove(k, n) ==
    /\ phase = "up" /\ sync[k] = "idle"
    /\ listed' = listed \ {n}
    /\ Sync(k)
    /\ UNCHANGED <<phase, file, text, syncFaults, crashes>>

\* setSecret and clean write a list they do not change.
Rewrite(k) ==
    /\ phase = "up" /\ sync[k] = "idle"
    /\ Sync(k)
    /\ UNCHANGED <<listed, phase, file, text, syncFaults, crashes>>

-----------------------------------------------------------------------------
\* The process is killed; what the file holds by then is what init will read.
Kill ==
    /\ phase # "down" /\ crashes < MaxCrashes
    /\ crashes' = crashes + 1
    /\ listed' = {} /\ phase' = "down"
    /\ sync' = [k \in SyncCall |-> "idle"]
    /\ text' = [k \in SyncCall |-> {}]
    /\ spoilt' = TRUE
    /\ UNCHANGED <<file, syncFaults>>

ListNext ==
    \/ \E k \in SyncCall :
        \/ Stringify(k) \/ Truncate(k) \/ Write(k) \/ SyncFail(k) \/ InitDatabase(k) \/ Rewrite(k)
        \/ \E n \in Listed : Add(k, n) \/ Remove(k, n)
    \/ Kill

ListSpec == ListInit /\ [][ListNext]_listVars

-----------------------------------------------------------------------------
\* Whatever overlapping calls, failing writes and crashes left in the file: once a
\* call has run alone and returned, the file holds the list, with the changes of
\* the calls before it, also of those that failed.  It is what a restart finds,
\* until the next call that something overlaps or breaks.
FileFollowsList ==
    phase = "up" /\ Quiet /\ ~spoilt => file = Json(listed)
=============================================================================
