-------------------------- MODULE Databases_proofs ---------------------------
(***************************************************************************)
(* What the list of private packages and the secret of the tokens keep.    *)
(*                                                                         *)
(* LocalDatabase: the file follows the list, for any number of packages,   *)
(* calls, faults and crashes.  As long as nothing overlaps or breaks a call  *)
(* of _sync that began alone, it is the only one under way, its text is the  *)
(* list of the moment, and it writes to a file that it has truncated itself. *)
(***************************************************************************)
EXTENDS LocalDatabase, PluginDatabase, FiniteSetTheorems, TLAPS

-----------------------------------------------------------------------------
(* LocalDatabase                                                           *)

\* Nothing overlapped or broke the last call that began alone.
Clean == ~spoilt

\* One call at most is under way ...
OneCall == Clean => \A k, l \in SyncCall : sync[k] # "idle" /\ sync[l] # "idle" => k = l
\* ... its text is the list ...
TextIsList == Clean => \A k \in SyncCall : sync[k] \in {"open", "write"} => text[k] = listed
\* ... and it writes to the file that it truncated.
WritesToEmpty == Clean => \A k \in SyncCall : sync[k] = "write" => file = Empty
\* No call survives the process, and init makes the first one.
DownIsQuiet == phase = "down" => Quiet
StartsAlone ==
    phase = "starting" => \A k, l \in SyncCall : sync[k] # "idle" /\ sync[l] # "idle" => k = l

ListInv ==
    /\ ListTypeOK
    /\ OneCall /\ TextIsList /\ WritesToEmpty /\ DownIsQuiet /\ StartsAlone
    /\ FileFollowsList

\* The JSON of a list is never empty and fits the longest list; it parses.
LEMMA JsonType ==
    ASSUME NEW l \in SUBSET Listed
    PROVE  /\ Json(l) \in [len : 0 .. Cardinality(Listed) + 1, list : SUBSET Listed]
           /\ Json(l).len > 0 /\ Json(l).list = l
           /\ Json(l).list # Torn /\ Json(l).list # NoFile
<1>1. IsFiniteSet(l) /\ Cardinality(l) <= Cardinality(Listed)
    BY NameAssumption, FS_Subset
<1>2. Cardinality(l) \in Nat /\ Cardinality(Listed) \in Nat
    BY <1>1, NameAssumption, FS_CardinalityType
<1> QED
    BY <1>1, <1>2, MarkAssumption DEF Json

\* The server is down and the file is missing or parses.
LEMMA ListInitInv == ListInit => ListInv
<1> SUFFICES ASSUME ListInit PROVE ListInv
    OBVIOUS
<1>1. Cardinality(Listed) \in Nat
    BY NameAssumption, FS_CardinalityType
<1>2. file \in [len : 0 .. Cardinality(Listed) + 1, list : {NoFile, Torn} \cup SUBSET Listed]
    BY <1>1, JsonType DEF ListInit, Missing
<1> QED
    BY <1>2
    DEF ListInit, ListInv, ListTypeOK, OneCall, TextIsList, WritesToEmpty, DownIsQuiet, Quiet,
        StartsAlone, FileFollowsList

\* A call that begins while others are under way is an overlap.
LEMMA SyncInv ==
    ASSUME ListInv, NEW k \in SyncCall, sync[k] = "idle", Sync(k), phase' # "down",
           file' = file, text' = text, syncFaults' = syncFaults, crashes' = crashes,
           listed' \in SUBSET Listed, phase' \in {"starting", "up"},
           phase' = "starting" => phase = "down"
    PROVE  ListInv'
<1> USE DEF Clean
<1>1. sync' = [sync EXCEPT ![k] = "mkdir"] /\ sync' \in [SyncCall -> {"idle", "mkdir", "open", "write"}]
    BY DEF ListInv, ListTypeOK, Sync
<1>2. Clean' => \A l \in SyncCall : l # k => sync[l] = "idle" /\ sync'[l] = "idle"
    BY <1>1 DEF ListInv, ListTypeOK, Sync, Quiet
<1>3. ~Quiet'
    BY <1>1 DEF Quiet, ListInv, ListTypeOK
<1>4. ListTypeOK'
    BY <1>1 DEF ListInv, ListTypeOK, Sync
<1>5. OneCall' /\ TextIsList' /\ WritesToEmpty'
    BY <1>1, <1>2 DEF OneCall, TextIsList, WritesToEmpty, ListInv, ListTypeOK
<1>7. StartsAlone'
    BY <1>1 DEF ListInv, ListTypeOK, DownIsQuiet, Quiet, StartsAlone
<1> QED
    BY <1>3, <1>4, <1>5, <1>7 DEF ListInv, DownIsQuiet, FileFollowsList

\* Every step keeps the invariant; only one that truncates, writes or begins a
\* call has more to show than its type.
LEMMA ListStepInv == ListInv /\ [ListNext]_listVars => ListInv'
<1> SUFFICES ASSUME ListInv, [ListNext]_listVars PROVE ListInv'
    OBVIOUS
<1> USE DEF Clean
<1>1. ASSUME NEW k \in SyncCall, Stringify(k) PROVE ListInv'
    <2>1. ListTypeOK'
        BY <1>1 DEF ListInv, ListTypeOK, Stringify
    <2>2. \A l \in SyncCall : sync'[l] # "idle" <=> sync[l] # "idle"
        BY <1>1 DEF ListInv, ListTypeOK, Stringify
    <2>3. ~Quiet /\ ~Quiet'
        BY <1>1, <2>2 DEF Quiet, Stringify
    <2>4. OneCall' /\ TextIsList' /\ WritesToEmpty' /\ StartsAlone'
        BY <1>1, <2>2
        DEF ListInv, ListTypeOK, Stringify, OneCall, TextIsList, WritesToEmpty, StartsAlone
    <2> QED
        BY <1>1, <2>1, <2>3, <2>4 DEF ListInv, DownIsQuiet, FileFollowsList, Stringify
<1>2. ASSUME NEW k \in SyncCall, Truncate(k) PROVE ListInv'
    <2>1. ListTypeOK'
        <3>1. Cardinality(Listed) \in Nat
            BY NameAssumption, FS_CardinalityType
        <3> QED
            BY <1>2, <3>1 DEF ListInv, ListTypeOK, Truncate, Empty
    <2>2. \A l \in SyncCall : sync'[l] # "idle" <=> sync[l] # "idle"
        BY <1>2 DEF ListInv, ListTypeOK, Truncate
    <2>3. ~Quiet /\ ~Quiet'
        BY <1>2, <2>2 DEF Quiet, Truncate
    <2>4. OneCall' /\ TextIsList' /\ WritesToEmpty' /\ StartsAlone'
        BY <1>2, <2>2
        DEF ListInv, ListTypeOK, Truncate, OneCall, TextIsList, WritesToEmpty, StartsAlone
    <2> QED
        BY <1>2, <2>1, <2>3, <2>4 DEF ListInv, DownIsQuiet, FileFollowsList, Truncate
<1>3. ASSUME NEW k \in SyncCall, Write(k) PROVE ListInv'
    <2> USE <1>3 DEF Write, Return
    <2>1. /\ text[k] \in SUBSET Listed /\ file.len \in Nat /\ file.len <= Cardinality(Listed) + 1
          /\ Cardinality(Listed) \in Nat
        BY NameAssumption, FS_CardinalityType DEF ListInv, ListTypeOK
    <2>2. Json(text[k]).len \in Nat /\ Json(text[k]).len > 0 /\ Json(text[k]).list # Torn
        BY <2>1, JsonType
    <2>3. file' \in [len : 0 .. Cardinality(Listed) + 1, list : {NoFile, Torn} \cup SUBSET Listed]
        BY <2>1, JsonType
    <2>4. ListTypeOK'
        BY <2>3 DEF ListInv, ListTypeOK
    <2>5. ASSUME Clean
          PROVE  /\ file' = Json(listed)
                 /\ \A l \in SyncCall : sync'[l] = "idle"
        <3>1. text[k] = listed /\ file = Empty
            BY <2>5 DEF ListInv, TextIsList, WritesToEmpty
        <3>2. file' = Json(listed)
            BY <2>2, <3>1 DEF Empty
        <3>3. \A l \in SyncCall : sync'[l] = "idle"
            BY <2>5 DEF ListInv, ListTypeOK, OneCall
        <3> QED
            BY <3>2, <3>3
    <2>6. OneCall' /\ TextIsList' /\ WritesToEmpty' /\ FileFollowsList'
        BY <2>4, <2>5
        DEF OneCall, TextIsList, WritesToEmpty, FileFollowsList, ListTypeOK
    <2>7. DownIsQuiet' /\ StartsAlone'
        BY DEF ListInv, ListTypeOK, DownIsQuiet, StartsAlone, Quiet
    <2> QED
        BY <2>4, <2>6, <2>7 DEF ListInv
<1>4. ASSUME NEW k \in SyncCall, SyncFail(k) PROVE ListInv'
    <2> USE <1>4 DEF SyncFail
    <2>1. ListTypeOK'
        BY DEF ListInv, ListTypeOK
    <2>2. spoilt'
        OBVIOUS
    <2>3. DownIsQuiet' /\ StartsAlone'
        <3>1. CASE phase = "starting"
            <4>1. \A l \in SyncCall : sync'[l] = "idle"
                BY <3>1 DEF ListInv, ListTypeOK, StartsAlone
            <4> QED
                BY <4>1 DEF DownIsQuiet, StartsAlone, Quiet
        <3>2. CASE phase # "starting"
            BY <3>2 DEF ListInv, ListTypeOK, DownIsQuiet, StartsAlone, Quiet
        <3> QED
            BY <3>1, <3>2
    <2> QED
        BY <2>1, <2>2, <2>3
        DEF ListInv, OneCall, TextIsList, WritesToEmpty, FileFollowsList, ListTypeOK
<1>5. ASSUME NEW k \in SyncCall, InitDatabase(k) PROVE ListInv'
    <2>1. sync[k] = "idle" /\ listed' \in SUBSET Listed
        BY <1>5 DEF InitDatabase, ListInv, ListTypeOK, DownIsQuiet, Quiet, Parses
    <2> QED
        BY <1>5, <2>1, SyncInv DEF InitDatabase
<1>6. ASSUME NEW k \in SyncCall, NEW n \in Listed, Add(k, n) PROVE ListInv'
    <2>1. listed' \in SUBSET Listed
        BY <1>6 DEF Add, ListInv, ListTypeOK
    <2> QED
        BY <1>6, <2>1, SyncInv DEF Add
<1>7. ASSUME NEW k \in SyncCall, NEW n \in Listed, Remove(k, n) PROVE ListInv'
    <2>1. listed' \in SUBSET Listed
        BY <1>7 DEF Remove, ListInv, ListTypeOK
    <2> QED
        BY <1>7, <2>1, SyncInv DEF Remove
<1>8. ASSUME NEW k \in SyncCall, Rewrite(k) PROVE ListInv'
    <2>1. listed' \in SUBSET Listed
        BY <1>8 DEF Rewrite, ListInv, ListTypeOK
    <2> QED
        BY <1>8, <2>1, SyncInv DEF Rewrite
<1>9. CASE Kill
    <2>1. ListTypeOK' /\ spoilt'
        BY <1>9 DEF Kill, ListInv, ListTypeOK
    <2> QED
        BY <1>9, <2>1
        DEF Kill, ListInv, ListTypeOK, OneCall, TextIsList, WritesToEmpty, DownIsQuiet, Quiet,
            StartsAlone, FileFollowsList
<1>10. CASE UNCHANGED listVars
    BY <1>10
    DEF listVars, ListInv, ListTypeOK, OneCall, TextIsList, WritesToEmpty, DownIsQuiet, Quiet,
        StartsAlone, FileFollowsList
<1> QED
    BY <1>1, <1>2, <1>3, <1>4, <1>5, <1>6, <1>7, <1>8, <1>9, <1>10 DEF ListNext

\* Every reachable state satisfies the invariant.
THEOREM ListInvHolds == ListSpec => []ListInv
BY ListInitInv, ListStepInv, PTL DEF ListSpec

\* A call of _sync that ran alone leaves the list in the file, whatever calls,
\* failures and crashes came before it (local-database.ts, _sync).
THEOREM FileIsList == ListSpec => []FileFollowsList
<1>1. ListInv => FileFollowsList
    BY DEF ListInv
<1> QED
    BY <1>1, ListInvHolds, PTL

-----------------------------------------------------------------------------
(* ServerStart and PluginDatabase *)

Busy(c) == pc[c] \notin {"idle", "over"}
Stored == {"api", "serving", "binding", "listening", "closing"}

\* A start works on the file it has found, ...
Placed == \A p \in Process : up[p] \in {"creating", "writing", "parsing"} => at[p] \in Place
\* ... has a secret from checkSecretKey on, ...
Owned == \A p \in Process : up[p] \in Stored \cup {"secret"} => own[p] # None
\* ... and each plugin has its own steps in a call, of a server that listens or
\* closes ...
CallsRun ==
    \A c \in Call :
        /\ pc[c] = "idle" => op[c] = "none" /\ told[c] = "nothing"
        /\ Busy(c) => proc[c] # None /\ up[proc[c]] \in {"listening", "closing"} /\ told[c] = "nothing"
        /\ pc[c] # "idle" => op[c] # "none" /\ (op[c] # "get" => name[c] # None)
        /\ op[c] = "get" => plugin = "google" /\ pc[c] \notin {"read", "put", "delete"}
        /\ pc[c] = "read" => plugin = "tokens"
        /\ pc[c] = "put" => plugin \in {"s3", "tokens"}
        /\ pc[c] = "delete" => op[c] = "remove" /\ plugin = "google"
\* ... and its own copies, which go with the server.
CopiesOwned ==
    \A p \in Process :
        /\ current[p] # None => \/ plugin \in {"s3", "memory"} /\ current[p] = p
                                \/ plugin = "tokens" /\ current[p] \in Call
        /\ up[p] = "down" => current[p] = None
        /\ plugin = "s3" /\ up[p] \in Stored \cup {"secret"} => current[p] = p

TypeInv == TypeOK /\ Placed /\ Owned /\ CallsRun /\ CopiesOwned

\* There are two to four places for a configuration; the first one that has
\* something is there when one has.
LEMMA Places ==
    /\ 1 \in Place
    /\ \A there \in SUBSET Place :
          there # {} => (CHOOSE i \in there : \A j \in there : i <= j) \in there
<1>1. Place = 1..2 \/ Place = 1..3 \/ Place = 1..4
    <2>1. CASE XdgFolder /\ WinFolder
        BY <2>1 DEF Place, ConfigPaths
    <2>2. CASE XdgFolder /\ ~WinFolder
        BY <2>2 DEF Place, ConfigPaths
    <2>3. CASE ~XdgFolder /\ WinFolder
        BY <2>3 DEF Place, ConfigPaths
    <2>4. CASE ~XdgFolder /\ ~WinFolder
        BY <2>4 DEF Place, ConfigPaths
    <2> QED
        BY <2>1, <2>2, <2>3, <2>4
<1>2. ASSUME NEW there \in SUBSET Place, there # {}
      PROVE  \E i \in there : \A j \in there : i <= j
    <2>1. there \subseteq 1..4
        BY <1>1
    <2>2. CASE 1 \in there
        BY <2>1, <2>2
    <2>3. CASE 1 \notin there /\ 2 \in there
        <3>1. \A j \in there : 2 <= j
            BY <2>1, <2>3
        <3> QED
            BY <3>1, <2>3
    <2>4. CASE 1 \notin there /\ 2 \notin there /\ 3 \in there
        <3>1. \A j \in there : 3 <= j
            BY <2>1, <2>4
        <3> QED
            BY <3>1, <2>4
    <2>5. CASE 1 \notin there /\ 2 \notin there /\ 3 \notin there
        <3>1. \A j \in there : j = 4
            BY <2>1, <2>5
        <3> QED
            BY <3>1, <1>2
    <2> QED
        BY <2>2, <2>3, <2>4, <2>5
<1> QED
    BY <1>1, <1>2

-----------------------------------------------------------------------------
(* What the steps do, in a form that the proofs below share *)

\* The stages of a start that follow each other, but for those of the secret.
Follows(x, y) ==
    \/ x = "finding" /\ y \in {"creating", "parsing"}
    \/ x = "creating" /\ y = "writing"
    \/ x = "writing" /\ y = "parsing"
    \/ x = "parsing" /\ y \in {"down", "checking"}
    \/ x = "checking" /\ y \in {"down", "loading"}
    \/ x = "loading" /\ y \in {"down", "opening"}
    \/ x = "opening" /\ y \in {"down", "starting"}
    \/ x = "api" /\ y \in {"down", "serving"}
    \/ x = "serving" /\ y \in {"down", "binding"}
    \/ x = "binding" /\ y \in {"down", "listening"}

Goes(p) == up' = [up EXCEPT ![p] = up'[p]]

\* A start goes one stage on: looking for the file it finds a place, it creates
\* the file there and reads it.
GoesOn(p) ==
    /\ Goes(p) /\ Follows(up[p], up'[p])
    /\ IF up[p] = "finding" THEN at' = [at EXCEPT ![p] = at'[p]] /\ at'[p] \in Place ELSE at' = at
    /\ IF up[p] = "creating" THEN files' = [files EXCEPT ![at[p]] = "empty"]
       ELSE IF up[p] = "writing" THEN files' = [files EXCEPT ![at[p]] = "whole"]
       ELSE files' = files
    /\ IF up[p] = "parsing" THEN read' = [read EXCEPT ![p] = files[at[p]]] ELSE read' = read
    /\ UNCHANGED <<storagePath, loads, starts, spoiled>>

LEMMA StartGoesOn ==
    ASSUME TypeOK, NEW p \in Process, StartStep(p)
    PROVE  GoesOn(p)
<1> USE DEF GoesOn, Goes, Follows, Moves, given, TypeOK, StartTypeOK
<1>1. CASE FindConfigFile(p)
    <2> DEFINE there == {i \in Place : files[i] # "absent"}
    <2>1. CASE there = {}
        BY <1>1, <2>1, Places DEF FindConfigFile
    <2>2. CASE there # {}
        <3>1. (CHOOSE i \in there : \A j \in there : i <= j) \in there
            BY <2>2, Places
        <3> QED
            BY <1>1, <2>2, <3>1 DEF FindConfigFile
    <2> QED
        BY <2>1, <2>2
<1>2. CASE CreateConfigFile(p) \/ WriteConfigFile(p) \/ ParseConfigFile(p)
    BY <1>2 DEF CreateConfigFile, WriteConfigFile, ParseConfigFile
<1>3. CASE CheckConfig(p) \/ RefuseConfig(p) \/ LoadFilters(p) \/ DefineAPI(p) \/ RefusePlugin(p)
    BY <1>3 DEF CheckConfig, RefuseConfig, LoadFilters, DefineAPI, RefusePlugin
<1>4. CASE LoadStorage(p) \/ RefuseStorage(p)
    BY <1>4 DEF LoadStorage, RefuseStorage
<1>5. CASE CreateServer(p) \/ Listen(p)
    BY <1>5 DEF CreateServer, Listen
<1> QED
    BY <1>1, <1>2, <1>3, <1>4, <1>5 DEF StartStep


\* A call that is running takes a step of its own, or is answered.
CallGoesOn(c) ==
    /\ Busy(c)
    /\ pc' = [pc EXCEPT ![c] = pc'[c]] /\ proc' = [proc EXCEPT ![c] = proc'[c]]
    /\ told' = [told EXCEPT ![c] = told'[c]] /\ snap' = [snap EXCEPT ![c] = snap'[c]]
    /\ \/ /\ pc'[c] \in {"read", "put", "delete", "lost"} /\ proc'[c] = proc[c] /\ told'[c] = told[c]
          /\ pc'[c] = "read" => plugin = "tokens"
          /\ pc'[c] = "put" => plugin \in {"s3", "tokens"} /\ op[c] # "get"
          /\ pc'[c] = "delete" => op[c] = "remove" /\ plugin = "google"
          /\ pc'[c] = "read" => op[c] # "get"
       \/ pc'[c] = "over" /\ proc'[c] = None /\ told'[c] \in {"ok", "known", "error"}
    /\ \/ current' = current
       \/ plugin = "tokens" /\ current' = [current EXCEPT ![proc[c]] = c]
    /\ copy' \in [Owner -> SUBSET Name] /\ list' \subseteq Name /\ faults' \in 0..MaxFaults
    /\ snap'[c] \subseteq Name
    /\ UNCHANGED <<plugin, secret, serverVars, op, name, alone>>

LEMMA StepGoesOn ==
    ASSUME TypeInv, NEW c \in Call, Step(c)
    PROVE  CallGoesOn(c)
<1> USE DEF CallGoesOn, Busy, Held, Answer, To, Calls, Owner, TypeOK, StartTypeOK
<1>1. /\ Busy(c) => /\ proc[c] \in Process
                    /\ op[c] # "get" => name[c] \in Name
                    /\ plugin \in {"s3", "memory"} => proc[c] \in Owner
                    /\ plugin = "s3" => current[proc[c]] = proc[c]
                    /\ current[proc[c]] # None => current[proc[c]] \in Owner
    BY DEF TypeInv, CallsRun, CopiesOwned, Stored
<1>2. CASE S3Add(c) \/ S3Remove(c)
    <2>1. plugin = "s3" /\ pc[c] = "called" /\ current[proc[c]] \in Owner /\ name[c] \in Name
        BY <1>1, <1>2 DEF TypeInv, S3Add, S3Remove
    <2>2. CASE S3Add(c)
        BY <2>1, <2>2 DEF TypeInv, S3Add, Changes
    <2>3. CASE S3Remove(c)
        BY <2>1, <2>3 DEF TypeInv, S3Remove, Changes
    <2> QED
        BY <1>2, <2>2, <2>3
<1>3. ASSUME NEW o \in Owner, NEW has \in SUBSET Name, TokenChange(c, o, has), plugin = "tokens",
             pc[c] \in {"called", "read"}
      PROVE  /\ pc' = [pc EXCEPT ![c] = pc'[c]] /\ proc' = [proc EXCEPT ![c] = proc'[c]]
             /\ told' = [told EXCEPT ![c] = told'[c]] /\ snap' = [snap EXCEPT ![c] = snap'[c]]
             /\ \/ pc'[c] = "put" /\ proc'[c] = proc[c] /\ told'[c] = told[c]
                \/ pc'[c] = "over" /\ proc'[c] = None /\ told'[c] = "error"
             /\ copy' \in [Owner -> SUBSET Name] /\ snap'[c] \subseteq Name
    <2>1. op[c] # "get" /\ name[c] \in Name
        BY <1>1, <1>3 DEF TypeInv, CallsRun
    <2> QED
        BY <1>3, <2>1 DEF TypeInv, TokenChange, Changes
<1>4. CASE GetTokenDb(c)
    BY <1>4 DEF TypeInv, CallsRun, GetTokenDb
<1>5. CASE TokensLoaded(c)
    <2>1. plugin = "tokens" /\ op[c] # "get"
        BY <1>5 DEF TypeInv, CallsRun, TokensLoaded
    <2>2. c \in Owner /\ snap[c] \in SUBSET Name
        BY DEF TypeInv
    <2>3. TokenChange(c, c, snap[c]) /\ pc[c] = "read"
        BY <1>5 DEF TokensLoaded
    <2> HIDE DEF Owner
    <2> QED
        BY <1>3, <1>5, <2>1, <2>2, <2>3 DEF TypeInv, TokensLoaded
<1>6. CASE TokensThere(c)
    <2>1. plugin = "tokens" /\ op[c] # "get" /\ pc[c] = "called"
        BY <1>6 DEF TypeInv, CallsRun, TokensThere
    <2>2. current[proc[c]] \in Owner /\ copy[current[proc[c]]] \in SUBSET Name
        BY <1>1, <1>6 DEF TypeInv, TokensThere
    <2>3. TokenChange(c, current[proc[c]], copy[current[proc[c]]])
        BY <1>6 DEF TokensThere
    <2> HIDE DEF Owner
    <2> QED
        BY <1>3, <1>6, <2>1, <2>2, <2>3 DEF TypeInv, TokensThere
<1>7. CASE Put(c)
    BY <1>7, PluginDatabaseAssumption DEF TypeInv, Put
<1>8. CASE GoogleAdd(c)
    BY <1>1, <1>8, PluginDatabaseAssumption DEF TypeInv, GoogleAdd
<1>9. CASE GoogleGetEntities(c) \/ GoogleDeleteItem(c) \/ GoogleGet(c)
    BY <1>9, PluginDatabaseAssumption DEF TypeInv, GoogleGetEntities, GoogleDeleteItem, GoogleGet, Reads
<1>10. CASE MemoryAdd(c) \/ MemoryRemove(c)
    <2>1. plugin = "memory" /\ op[c] # "get" /\ pc[c] = "called" /\ proc[c] \in Owner /\ name[c] \in Name
        BY <1>1, <1>10 DEF MemoryAdd, MemoryRemove
    <2>2. copy' \in [Owner -> SUBSET Name]
        BY <1>10, <2>1 DEF TypeInv, MemoryAdd, MemoryRemove
    <2> QED
        BY <1>10, <2>1, <2>2 DEF TypeInv, MemoryAdd, MemoryRemove
<1> QED
    BY <1>2, <1>4, <1>5, <1>6, <1>7, <1>8, <1>9, <1>10 DEF Step

\* So the type and its company are kept.
LEMMA CallTypes ==
    ASSUME TypeInv, NEW c \in Call, CallGoesOn(c)
    PROVE  TypeInv'
<1>1. proc[c] \in Process
    BY DEF CallGoesOn, TypeInv, TypeOK, CallsRun
<1>2. current' \in [Process -> Owner \cup {None}]
    BY <1>1 DEF CallGoesOn, TypeInv, TypeOK, Owner
<1>3. TypeOK'
    BY <1>1, <1>2 DEF CallGoesOn, TypeInv, TypeOK, StartTypeOK, serverVars, startVars, given, Busy
<1>4. Placed' /\ Owned'
    BY DEF CallGoesOn, TypeInv, Placed, Owned, serverVars, startVars
<1>5. CallsRun'
    <2> SUFFICES ASSUME NEW d \in Call PROVE CallsRun!(d)'
        BY DEF CallsRun
    <2>1. CASE d # c
        BY <2>1 DEF CallGoesOn, TypeInv, TypeOK, CallsRun, Busy, serverVars, startVars
    <2>2. CASE d = c
        BY <2>2 DEF CallGoesOn, TypeInv, TypeOK, CallsRun, Busy, serverVars, startVars
    <2> QED
        BY <2>1, <2>2
<1>6. CopiesOwned'
    <2>1. up[proc[c]] # "down"
        BY DEF CallGoesOn, TypeInv, CallsRun
    <2> QED
        BY <1>1, <2>1 DEF CallGoesOn, TypeInv, TypeOK, CopiesOwned, serverVars, startVars
<1> QED
    BY <1>3, <1>4, <1>5, <1>6 DEF TypeInv


\* The store answers with the secret, keeps it, or fails.
SecretGoesOn(p) ==
    /\ Goes(p)
    /\ \/ /\ up[p] = "starting" /\ up'[p] = "secret" /\ own' = [own EXCEPT ![p] = CheckSecret(p)]
          /\ UNCHANGED <<secret, list, faults>>
          /\ \/ plugin \in {"s3", "memory"} /\ current' = [current EXCEPT ![p] = p]
                /\ copy' = [copy EXCEPT ![p] = IF plugin = "s3" THEN list ELSE {}]
             \/ plugin \notin {"s3", "memory"} /\ UNCHANGED <<current, copy>>
       \/ /\ up[p] = "secret" /\ up'[p] = "api" /\ secret' = own[p]
          /\ list' = (IF plugin = "s3" THEN copy[p] ELSE list) /\ UNCHANGED <<own, faults, current, copy>>
       \/ /\ up[p] \in {"starting", "secret"} /\ up'[p] = "down" /\ Forgets(p) /\ faults < MaxFaults
          /\ faults' = faults + 1 /\ UNCHANGED <<secret, list>>
    /\ UNCHANGED <<plugin, opens, production, files, given, at, read, starts, spoiled, rushed, known, callVars>>

LEMMA SecretStepGoesOn ==
    ASSUME TypeOK, NEW p \in Process, SecretStep(p)
    PROVE  SecretGoesOn(p)
<1> USE DEF SecretGoesOn, Goes, Moves, TypeOK, StartTypeOK
<1>0. plugin \in Plugins
    BY PluginDatabaseAssumption
<1>1. CASE S3GetSecret(p) \/ GoogleGetSecret(p) \/ MemoryGetSecret(p) \/ LocalGetSecret(p)
    BY <1>1 DEF S3GetSecret, GoogleGetSecret, MemoryGetSecret, LocalGetSecret, Asked
<1>2. CASE S3SetSecret(p) \/ GoogleSetSecret(p) \/ MemorySetSecret(p) \/ LocalSetSecret(p)
    BY <1>2 DEF S3SetSecret, GoogleSetSecret, MemorySetSecret, LocalSetSecret, Stores
<1>3. CASE StoreFails(p)
    BY <1>3 DEF StoreFails
<1> QED
    BY <1>1, <1>2, <1>3 DEF SecretStep

LEMMA SecretTypes ==
    ASSUME TypeInv, NEW p \in Process, SecretGoesOn(p)
    PROVE  TypeInv'
<1> USE DEF SecretGoesOn, Goes
<1>1. p \in Owner /\ p # None /\ CheckSecret(p) \in Process
    BY PluginDatabaseAssumption DEF TypeInv, TypeOK, Owner, CheckSecret
<1>2. up[p] = "secret" => own[p] \in Process
    BY DEF TypeInv, TypeOK, Owned
<1>3. StartTypeOK'
    BY DEF TypeInv, TypeOK, StartTypeOK, given, Stages, Looking
<1>4. own' \in [Process -> Process \cup {None}] /\ secret' \in Process \cup {None}
    BY <1>1, <1>2 DEF TypeInv, TypeOK, Forgets
<1>5. current' \in [Process -> Owner \cup {None}]
    BY <1>1 DEF TypeInv, TypeOK, Forgets
<1>6. copy' \in [Owner -> SUBSET Name] /\ list' \subseteq Name /\ faults' \in 0..MaxFaults
    BY <1>1, PluginDatabaseAssumption DEF TypeInv, TypeOK, Forgets
<1>7. TypeOK'
    BY <1>3, <1>4, <1>5, <1>6 DEF TypeInv, TypeOK, callVars
<1>8. Placed' /\ Owned'
    <2>1. Placed'
        BY DEF TypeInv, TypeOK, StartTypeOK, Placed
    <2>2. Owned'
        <3> SUFFICES ASSUME NEW q \in Process, up'[q] \in Stored \cup {"secret"} PROVE own'[q] # None
            BY DEF Owned
        <3>1. CASE q # p
            <4>1. up'[q] = up[q] /\ own'[q] = own[q]
                BY <3>1 DEF TypeInv, TypeOK, StartTypeOK, Forgets
            <4> QED
                BY <4>1 DEF TypeInv, Owned
        <3>2. CASE q = p /\ up[p] = "starting"
            <4>1. own'[p] = CheckSecret(p)
                BY <3>2 DEF TypeInv, TypeOK, StartTypeOK, Stored
            <4> QED
                BY <1>1, <3>2, <4>1, PluginDatabaseAssumption
        <3>3. CASE q = p /\ up[p] # "starting"
            <4>1. up[p] = "secret" /\ own'[p] = own[p]
                BY <3>3 DEF Stored
            <4> QED
                BY <1>2, <3>3, <4>1, PluginDatabaseAssumption
        <3> QED
            BY <3>1, <3>2, <3>3
    <2> QED
        BY <2>1, <2>2
<1>9. \A c \in Call : Busy(c) => proc[c] # p
    BY DEF TypeInv, CallsRun
<1>10. CallsRun'
    BY <1>9 DEF TypeInv, TypeOK, StartTypeOK, CallsRun, Busy, callVars
<1>11. CopiesOwned'
    BY <1>1 DEF TypeInv, TypeOK, StartTypeOK, CopiesOwned, Forgets, Stored
<1> QED
    BY <1>7, <1>8, <1>10, <1>11 DEF TypeInv

LEMMA StartTypes ==
    ASSUME TypeInv, NEW p \in Process, StartStep(p)
    PROVE  TypeInv'
<1>1. GoesOn(p)
    BY StartGoesOn DEF TypeInv
<1>2. UNCHANGED <<plugin, opens, production, list, secret, faults, callVars>>
    BY DEF StartStep, Same
<1>3. IF up'[p] = "down" THEN Forgets(p) ELSE UNCHANGED <<own, current, copy>>
    BY Zenon DEF StartStep
<1>4. /\ rushed' = (rushed \/ (up'[p] = "starting" /\ Storing # {}))
      /\ known' = IF up'[p] = "listening" THEN known \cup {own[p]} ELSE known
    BY Zenon DEF StartStep
<1>5. StartTypeOK'
    <2>1. at' \in [Process -> Place \cup {0}]
        BY <1>1 DEF GoesOn, TypeInv, TypeOK, StartTypeOK
    <2>2. files' \in [Place -> Content]
        BY <1>1 DEF GoesOn, TypeInv, TypeOK, StartTypeOK, Content
    <2>3. up[p] = "parsing" => files[at[p]] \in Content
        BY DEF TypeInv, TypeOK, StartTypeOK, Placed
    <2>4. read' \in [Process -> Content]
        BY <1>1, <2>3 DEF GoesOn, TypeInv, TypeOK, StartTypeOK
    <2>5. up' \in [Process -> Stages]
        BY <1>1 DEF GoesOn, Goes, Follows, TypeInv, TypeOK, StartTypeOK, Stages, Looking
    <2> QED
        BY <1>1, <2>1, <2>2, <2>4, <2>5 DEF GoesOn, TypeInv, TypeOK, StartTypeOK
<1>6. own' \in [Process -> Process \cup {None}] /\ current' \in [Process -> Owner \cup {None}]
    BY <1>3 DEF TypeInv, TypeOK, Forgets
<1>7. copy' \in [Owner -> SUBSET Name]
    BY <1>3 DEF TypeInv, TypeOK, Forgets
<1>8. rushed' \in BOOLEAN
    BY <1>4 DEF TypeInv, TypeOK
<1>9. known' \subseteq Process
    <2>1. up'[p] = "listening" => up[p] = "binding"
        BY <1>1 DEF GoesOn, Follows
    <2>2. up'[p] = "listening" => own[p] \in Process
        BY <2>1 DEF TypeInv, TypeOK, Owned, Stored
    <2> QED
        BY <1>4, <2>2 DEF TypeInv, TypeOK
<1>10. TypeOK'
    BY <1>2, <1>5, <1>6, <1>7, <1>8, <1>9 DEF TypeInv, TypeOK, callVars
<1>11. Placed'
    BY <1>1 DEF GoesOn, Goes, Follows, TypeInv, TypeOK, StartTypeOK, Placed
<1>12. Owned'
    BY <1>1, <1>3 DEF GoesOn, Goes, Follows, TypeInv, TypeOK, StartTypeOK, Owned, Forgets, Stored
<1>13. CallsRun'
    <2>1. \A c \in Call : Busy(c) => proc[c] # p
        BY <1>1 DEF GoesOn, Follows, TypeInv, CallsRun
    <2> QED
        BY <1>1, <1>2, <2>1 DEF GoesOn, Goes, TypeInv, TypeOK, StartTypeOK, CallsRun, Busy, callVars
<1>14. CopiesOwned'
    BY <1>1, <1>2, <1>3
    DEF GoesOn, Goes, Follows, TypeInv, TypeOK, StartTypeOK, CopiesOwned, Forgets, Stored
<1> QED
    BY <1>10, <1>11, <1>12, <1>13, <1>14 DEF TypeInv


LEMMA GoneTypes ==
    ASSUME TypeInv, NEW p \in Process, NEW x \in {"crashed", "cut"}, Gone(p, x), up[p] # "down",
           faults' \in 0..MaxFaults, spoiled' \in BOOLEAN
    PROVE  TypeInv'
<1> USE DEF Gone
<1>1. \A c \in Call : c \in Running(p) <=> proc[c] = p /\ Busy(c)
    BY DEF Running, Busy
<1>2. \A c \in Call :
         /\ told'[c] = (IF c \in Running(p) THEN x ELSE told[c])
         /\ pc'[c] = (IF c \in Running(p) THEN "over" ELSE pc[c])
         /\ snap'[c] = (IF c \in Running(p) THEN {} ELSE snap[c])
         /\ proc'[c] = (IF c \in Running(p) THEN None ELSE proc[c])
    OBVIOUS
<1>3. StartTypeOK'
    BY DEF TypeInv, TypeOK, StartTypeOK, Stages, given
<1>4. /\ told' \in [Call -> {"nothing", "ok", "known", "error", "crashed", "cut"}]
      /\ pc' \in [Call -> {"idle", "called", "read", "put", "delete", "lost", "over"}]
      /\ snap' \in [Call -> SUBSET Name] /\ proc' \in [Call -> Process \cup {None}]
    BY DEF TypeInv, TypeOK
<1>5. list' \subseteq Name /\ copy' \in [Owner -> SUBSET Name] /\ secret' \in Process \cup {None}
    <2>1. list' = list \/ \E c \in Call : list' = snap[c]
        BY DEF Running
    <2> QED
        BY <2>1 DEF TypeInv, TypeOK
<1>6. /\ own' \in [Process -> Process \cup {None}] /\ current' \in [Process -> Owner \cup {None}]
    BY DEF TypeInv, TypeOK
<1>7. TypeOK'
    BY <1>3, <1>4, <1>5, <1>6 DEF TypeInv, TypeOK
<1>8. Placed' /\ Owned'
    <2>1. Placed'
        BY DEF TypeInv, TypeOK, StartTypeOK, Placed
    <2>2. Owned'
        BY DEF TypeInv, TypeOK, StartTypeOK, Owned, Stored
    <2> QED
        BY <2>1, <2>2
<1>9. CallsRun'
    <2> SUFFICES ASSUME NEW c \in Call PROVE CallsRun!(c)'
        BY DEF CallsRun
    <2>1. CASE c \in Running(p)
        <3>1. /\ pc'[c] = "over" /\ op'[c] = op[c] /\ name'[c] = name[c] /\ plugin' = plugin
              /\ op[c] = "get" => plugin = "google"
              /\ op[c] # "none" /\ (op[c] # "get" => name[c] # None)
            BY <1>1, <1>2, <2>1 DEF TypeInv, CallsRun, Busy
        <3> QED
            BY <3>1 DEF Busy
    <2>2. CASE c \notin Running(p)
        <3>1. pc'[c] = pc[c] /\ proc'[c] = proc[c] /\ told'[c] = told[c]
            BY <1>2, <2>2
        <3>2. Busy(c) => proc[c] # p
            BY <1>1, <2>2
        <3>3. Busy(c) => up'[proc[c]] = up[proc[c]]
            BY <3>2 DEF TypeInv, TypeOK, StartTypeOK, CallsRun
        <3> QED
            BY <3>1, <3>3 DEF TypeInv, CallsRun, Busy
    <2> QED
        BY <2>1, <2>2
<1>10. CopiesOwned'
    BY DEF TypeInv, TypeOK, StartTypeOK, CopiesOwned, Stored
<1> QED
    BY <1>7, <1>8, <1>9, <1>10 DEF TypeInv

LEMMA BeginTypes ==
    ASSUME TypeInv, NEW c \in Call, NEW p \in Process, NEW o \in {"add", "remove", "get"},
           NEW n \in Name \cup {None}, Begin(c, p, o, n)
    PROVE  TypeInv'
<1> USE DEF Begin, serverVars, startVars, given
<1>1. p # None
    BY PluginDatabaseAssumption
<1>2. alone' \subseteq Call
    BY DEF TypeInv, TypeOK
<1>3. TypeOK'
    BY <1>2 DEF TypeInv, TypeOK, StartTypeOK
<1>4. Placed' /\ Owned' /\ CopiesOwned'
    BY DEF TypeInv, Placed, Owned, CopiesOwned
<1>5. CallsRun'
    <2> SUFFICES ASSUME NEW d \in Call PROVE CallsRun!(d)'
        BY DEF CallsRun
    <2>1. CASE d # c
        BY <2>1 DEF TypeInv, TypeOK, CallsRun, Busy
    <2>2. CASE d = c
        <3>1. pc'[d] = "called" /\ proc'[d] = p /\ op'[d] = o /\ name'[d] = n /\ told'[d] = "nothing"
            BY <2>2 DEF TypeInv, TypeOK, CallsRun
        <3>2. up'[proc'[d]] = "listening"
            BY <3>1
        <3> QED
            BY <1>1, <3>1, <3>2 DEF Busy
    <2> QED
        BY <2>1, <2>2
<1> QED
    BY <1>3, <1>4, <1>5 DEF TypeInv

LEMMA InitTypes == Init => TypeInv
<1> SUFFICES ASSUME Init PROVE TypeInv
    OBVIOUS
<1> USE DEF Init, StartInit
<1>1. StartTypeOK
    <2>1. loads \subseteq Kinds
        OBVIOUS
    <2>2. files \in [Place -> Content] /\ storagePath \in BOOLEAN
        OBVIOUS
    <2>3. up \in [Process -> Stages] /\ at \in [Process -> Place \cup {0}] /\ read \in [Process -> Content]
        BY DEF Content, Stages
    <2>4. starts = 0 /\ spoiled = FALSE
        OBVIOUS
    <2>5. spoiled \in BOOLEAN
        BY <2>4, Zenon
    <2> HIDE DEF Init, StartInit
    <2>6. starts \in 0..MaxStarts
        BY <2>4, ServerStartAssumption
    <2> QED
        BY <2>1, <2>2, <2>3, <2>5, <2>6 DEF StartTypeOK
<1>2. <<plugin, production>> \in Setups
    <2>1. PICK s \in Setups : plugin = s[1] /\ production = s[2]
        OBVIOUS
    <2>2. s = <<s[1], s[2]>>
        BY PluginDatabaseAssumption
    <2> QED
        BY <2>1, <2>2
<1>3. opens \in BOOLEAN
    OBVIOUS
<1>4. TypeOK
    <2>1. list \subseteq Name /\ secret \in Process \cup {None} /\ faults \in 0..MaxFaults
        BY PluginDatabaseAssumption
    <2>2. /\ own \in [Process -> Process \cup {None}]
          /\ current \in [Process -> Owner \cup {None}] /\ copy \in [Owner -> SUBSET Name]
        OBVIOUS
    <2>3. /\ pc \in [Call -> {"idle", "called", "read", "put", "delete", "lost", "over"}]
          /\ proc \in [Call -> Process \cup {None}] /\ op \in [Call -> {"none", "add", "remove", "get"}]
          /\ name \in [Call -> Name \cup {None}] /\ snap \in [Call -> SUBSET Name]
          /\ told \in [Call -> {"nothing", "ok", "known", "error", "crashed", "cut"}]
        OBVIOUS
    <2>4. alone \subseteq Call /\ rushed \in BOOLEAN /\ known \subseteq Process
        OBVIOUS
    <2> HIDE DEF Init, StartInit
    <2> QED
        BY <1>1, <1>2, <1>3, <2>1, <2>2, <2>3, <2>4 DEF TypeOK
<1>5. Placed /\ Owned /\ CopiesOwned
    BY DEF Placed, Owned, CopiesOwned, Stored
<1>6. CallsRun
    BY DEF CallsRun, Busy
<1> QED
    BY <1>4, <1>5, <1>6 DEF TypeInv

LEMMA NextTypes == TypeInv /\ [Next]_vars => TypeInv'
<1> SUFFICES ASSUME TypeInv, [Next]_vars PROVE TypeInv'
    OBVIOUS
<1>1. ASSUME NEW p \in Process, Start(p) PROVE TypeInv'
    <2> USE <1>1 DEF Start, Launch, Moves, Same, given
    <2>1. up[p] = "down" /\ up' = [up EXCEPT ![p] = "finding"]
        OBVIOUS
    <2>2. StartTypeOK'
        BY ServerStartAssumption DEF TypeInv, TypeOK, StartTypeOK, Stages, Looking
    <2>3. TypeOK'
        BY <2>2 DEF TypeInv, TypeOK
    <2>4. Placed' /\ Owned'
        <3>1. Placed'
            BY <2>1 DEF TypeInv, TypeOK, StartTypeOK, Placed
        <3>2. Owned'
            BY <2>1 DEF TypeInv, TypeOK, StartTypeOK, Owned, Stored
        <3> QED
            BY <3>1, <3>2
    <2>5. CallsRun'
        <3>1. \A c \in Call : Busy(c) => proc[c] # p
            BY <2>1 DEF TypeInv, CallsRun
        <3> QED
            BY <3>1 DEF TypeInv, TypeOK, StartTypeOK, CallsRun, Busy
    <2>6. CopiesOwned'
        BY <2>1 DEF TypeInv, TypeOK, StartTypeOK, CopiesOwned, Stored
    <2> QED
        BY <2>3, <2>4, <2>5, <2>6 DEF TypeInv
<1>2. ASSUME NEW p \in Process, StartStep(p) PROVE TypeInv'
    BY <1>2, StartTypes
<1>3. ASSUME NEW p \in Process, SecretStep(p) PROVE TypeInv'
    BY <1>3, SecretStepGoesOn, SecretTypes DEF TypeInv
<1>4. ASSUME NEW p \in Process, Crash(p) PROVE TypeInv'
    <2>1. faults' \in 0..MaxFaults /\ spoiled' \in BOOLEAN
        BY <1>4, PluginDatabaseAssumption DEF Crash, TypeInv, TypeOK, StartTypeOK
    <2> QED
        BY <1>4, <2>1, GoneTypes DEF Crash
<1>5. ASSUME NEW p \in Process, SignalLogger(p) \/ Exit(p) PROVE TypeInv'
    <2>1. up[p] # "down" /\ Gone(p, "cut") /\ UNCHANGED <<faults, spoiled>>
        BY <1>5 DEF SignalLogger, Exit
    <2>2. faults' \in 0..MaxFaults /\ spoiled' \in BOOLEAN
        BY <2>1 DEF TypeInv, TypeOK, StartTypeOK
    <2> QED
        BY <2>1, <2>2, GoneTypes
<1>6. ASSUME NEW p \in Process, Signal(p) PROVE TypeInv'
    <2> USE <1>6 DEF Signal, callVars
    <2>1. TypeOK'
        <3>1. StartTypeOK'
            BY DEF TypeInv, TypeOK, StartTypeOK, Stages, given
        <3> QED
            BY <3>1 DEF TypeInv, TypeOK
    <2>2. Placed'
        BY DEF TypeInv, TypeOK, StartTypeOK, Placed
    <2>3. Owned'
        BY DEF TypeInv, TypeOK, StartTypeOK, Owned, Stored
    <2>4. CallsRun'
        BY DEF TypeInv, TypeOK, StartTypeOK, CallsRun, Busy
    <2>5. CopiesOwned'
        BY DEF TypeInv, TypeOK, StartTypeOK, CopiesOwned, Stored
    <2> QED
        BY <2>1, <2>2, <2>3, <2>4, <2>5 DEF TypeInv
<1>7. ASSUME NEW p \in Process, NEW c \in Call, NEW o \in {"add", "remove", "get"},
             NEW n \in Name \cup {None}, Begin(c, p, o, n)
      PROVE  TypeInv'
    BY <1>7, BeginTypes
<1>8. ASSUME NEW c \in Call, Step(c) PROVE TypeInv'
    BY <1>8, StepGoesOn, CallTypes
<1>9. CASE UNCHANGED vars
    BY <1>9
    DEF vars, serverVars, startVars, given, callVars, TypeInv, TypeOK, StartTypeOK, Placed, Owned, CallsRun,
        Busy, CopiesOwned
<1> QED
    BY <1>1, <1>2, <1>3, <1>4, <1>5, <1>6, <1>7, <1>8, <1>9 DEF Next, Over

\* Every variable keeps its type, a start works on a file it has found, and a
\* call runs at a server that listens or closes, on that server's copy.
THEOREM ServersTyped == Spec => []TypeInv
BY InitTypes, NextTypes, PTL DEF Spec


-----------------------------------------------------------------------------
(* The configuration *)

\* Unless a start looks for it while another one does, or dies creating it, the
\* file is empty only while it is being written, and nobody has read it so.
OneLooks ==
    ~spoiled =>
        /\ \A p, q \in Process : up[p] \in Looking /\ up[q] \in Looking => p = q
        /\ \A i \in Place : files[i] = "empty" => \E p \in Process : up[p] = "writing" /\ at[p] = i
        /\ \A p \in Process : read[p] # "empty"

LEMMA StartLooks ==
    ASSUME TypeInv, OneLooks, NEW p \in Process, GoesOn(p), ~spoiled
    PROVE  OneLooks'
<1> USE DEF GoesOn
<1>1. up \in [Process -> Stages] /\ at \in [Process -> Place \cup {0}]
      /\ files \in [Place -> Content] /\ read \in [Process -> Content]
    BY DEF TypeInv, TypeOK, StartTypeOK
<1>2. up'[p] \in Looking => up[p] \in Looking
    BY DEF Follows, Looking
<1>3. \A q \in Process : q # p => up'[q] = up[q] /\ at'[q] = at[q] /\ read'[q] = read[q]
    BY <1>1 DEF Goes
<1>4. \A q, r \in Process : up'[q] \in Looking /\ up'[r] \in Looking => q = r
    <2>1. \A q \in Process : up'[q] \in Looking => up[q] \in Looking
        BY <1>2, <1>3
    <2> QED
        BY <2>1 DEF OneLooks
<1>5. ASSUME NEW i \in Place, files'[i] = "empty"
      PROVE  \E q \in Process : up'[q] = "writing" /\ at'[q] = i
    <2>1. CASE up[p] = "creating"
        <3>1. up'[p] = "writing" /\ at'[p] = at[p] /\ at[p] \in Place
            BY <2>1 DEF Follows, TypeInv, Placed
        <3>2. i = at[p] \/ files[i] = "empty"
            BY <1>1, <1>5, <2>1
        <3>3. files[i] # "empty"
            BY <2>1, <1>1 DEF OneLooks, Looking
        <3> QED
            BY <3>1, <3>2, <3>3
    <2>2. CASE up[p] = "writing"
        <3>1. at[p] \in Place /\ files' = [files EXCEPT ![at[p]] = "whole"]
            BY <2>2 DEF TypeInv, Placed
        <3>2. i # at[p] /\ files[i] = "empty"
            BY <1>1, <1>5, <3>1
        <3>3. PICK q \in Process : up[q] = "writing" /\ at[q] = i
            BY <3>2 DEF OneLooks
        <3>4. q = p
            BY <2>2, <3>3 DEF OneLooks, Looking
        <3> QED
            BY <3>2, <3>3, <3>4
    <2>3. CASE up[p] \notin {"creating", "writing"}
        <3>1. files[i] = "empty"
            BY <1>5, <2>3
        <3>2. PICK q \in Process : up[q] = "writing" /\ at[q] = i
            BY <3>1 DEF OneLooks
        <3> QED
            BY <1>3, <2>3, <3>2
    <2> QED
        BY <2>1, <2>2, <2>3
<1>6. ASSUME up[p] = "parsing" PROVE files[at[p]] # "empty"
    <2>1. at[p] \in Place
        BY <1>6 DEF TypeInv, Placed
    <2>2. \A q \in Process : up[q] # "writing"
        BY <1>6 DEF OneLooks, Looking
    <2> QED
        BY <2>1, <2>2 DEF OneLooks
<1>7. \A q \in Process : read'[q] # "empty"
    BY <1>1, <1>6 DEF OneLooks
<1> QED
    BY <1>4, <1>5, <1>7 DEF OneLooks

\* A process that does not look for the file, or ceases to, leaves it alone.
LEMMA OthersLook ==
    ASSUME TypeInv, OneLooks, NEW p \in Process, ~spoiled, Goes(p), up'[p] \notin Looking,
           up[p] # "writing", files' = files, at' = at, read' = read
    PROVE  OneLooks'
<1>1. \A q \in Process : q # p => up'[q] = up[q]
    BY DEF Goes, TypeInv, TypeOK, StartTypeOK
<1>2. \A q, r \in Process : up'[q] \in Looking /\ up'[r] \in Looking => q = r
    BY <1>1 DEF OneLooks
<1>3. \A i \in Place : files[i] = "empty" => \E q \in Process : up'[q] = "writing" /\ at[q] = i
    BY <1>1 DEF OneLooks
<1> QED
    BY <1>2, <1>3 DEF OneLooks

LEMMA NextLooks == TypeInv /\ OneLooks /\ [Next]_vars => OneLooks'
<1> SUFFICES ASSUME TypeInv, OneLooks, [Next]_vars, ~spoiled' PROVE OneLooks'
    BY DEF OneLooks
<1>1. ASSUME NEW p \in Process, Start(p) PROVE OneLooks'
    <2> USE <1>1 DEF Start, Launch, Moves
    <2>1. ~spoiled /\ (\A q \in Process : up[q] \notin Looking) /\ up' = [up EXCEPT ![p] = "finding"]
        OBVIOUS
    <2>2. \A q \in Process : q # p => up'[q] = up[q]
        BY <2>1 DEF TypeInv, TypeOK, StartTypeOK
    <2>3. UNCHANGED <<files, at, read>>
        BY DEF given
    <2>4. \A i \in Place : files[i] # "empty"
        BY <2>1 DEF OneLooks, Looking
    <2> HIDE <1>1 DEF Start, Launch, Moves
    <2> QED
        BY <2>1, <2>2, <2>3, <2>4 DEF OneLooks
<1>2. ASSUME NEW p \in Process, StartStep(p) PROVE OneLooks'
    <2>1. GoesOn(p) /\ ~spoiled
        BY <1>2, StartGoesOn DEF TypeInv, GoesOn
    <2> QED
        BY <2>1, StartLooks
<1>3. ASSUME NEW p \in Process, SecretStep(p) PROVE OneLooks'
    <2>1. SecretGoesOn(p)
        BY <1>3, SecretStepGoesOn DEF TypeInv
    <2>2. /\ ~spoiled /\ Goes(p) /\ up'[p] \notin Looking /\ up[p] # "writing"
          /\ files' = files /\ at' = at /\ read' = read
        BY <2>1 DEF SecretGoesOn, Looking
    <2> QED
        BY <2>2, OthersLook
<1>4. ASSUME NEW p \in Process, Crash(p) \/ SignalLogger(p) \/ Exit(p) PROVE OneLooks'
    <2>1. /\ up' = [up EXCEPT ![p] = "down"] /\ files' = files /\ at' = at /\ read' = read
        BY <1>4 DEF Crash, SignalLogger, Exit, Gone
    <2>2. ~spoiled /\ up[p] # "writing"
        <3>1. CASE Crash(p)
            <4>1. spoiled' = (spoiled \/ up[p] = "writing")
                BY <3>1, Zenon DEF Crash
            <4> QED
                BY <4>1
        <3>2. CASE SignalLogger(p) \/ Exit(p)
            BY <3>2 DEF SignalLogger, Exit
        <3> QED
            BY <1>4, <3>1, <3>2
    <2>3. Goes(p) /\ up'[p] \notin Looking
        BY <2>1 DEF Goes, Looking, TypeInv, TypeOK, StartTypeOK
    <2> QED
        BY <2>1, <2>2, <2>3, OthersLook
<1>5. ASSUME NEW p \in Process, Signal(p) PROVE OneLooks'
    <2>1. /\ ~spoiled /\ Goes(p) /\ up'[p] \notin Looking /\ up[p] # "writing"
          /\ files' = files /\ at' = at /\ read' = read
        BY <1>5 DEF Signal, Goes, Looking, TypeInv, TypeOK, StartTypeOK
    <2> QED
        BY <2>1, OthersLook
<1>6. ASSUME NEW p \in Process, NEW c \in Call, NEW o \in {"add", "remove", "get"},
             NEW n \in Name \cup {None}, Begin(c, p, o, n)
      PROVE  OneLooks'
    BY <1>6 DEF Begin, serverVars, startVars, OneLooks
<1>7. ASSUME NEW c \in Call, Step(c) PROVE OneLooks'
    <2>1. CallGoesOn(c)
        BY <1>7, StepGoesOn
    <2> QED
        BY <2>1 DEF CallGoesOn, serverVars, startVars, OneLooks
<1>8. CASE UNCHANGED vars
    BY <1>8 DEF vars, serverVars, startVars, OneLooks
<1> QED
    BY <1>1, <1>2, <1>3, <1>4, <1>5, <1>6, <1>7, <1>8 DEF Next, Over

\* Unless two starts looked for the configuration at once, or one died while it
\* was writing it, a server that listens has not read an empty configuration, also
\* when its own start created the file (cli/src/commands/init.ts, config-path.ts).
THEOREM ListensWithConfig == Spec => []ConfigWhole
<1>1. Init => OneLooks
    BY DEF Init, StartInit, OneLooks, Looking
<1>2. OneLooks => ConfigWhole
    BY DEF OneLooks, ConfigWhole
<1> QED
    BY <1>1, <1>2, ServersTyped, NextLooks, PTL DEF Spec


-----------------------------------------------------------------------------
(* The secret *)

\* Unless two servers look for it at the same time, whoever stores the secret
\* stores the one that is there, all that have stored it use it, and those that
\* listened used no other.
SecretKept ==
    Shared /\ ~rushed =>
        /\ \A p, q \in Storing : p = q
        /\ \A p \in Process : up[p] = "secret" => own[p] = CheckSecret(p)
        /\ \A p \in Process : up[p] \in Stored => own[p] = secret
        /\ known \subseteq {secret}

\* A server that goes, in whatever way, leaves the secret to the others.
LEMMA SecretStays ==
    ASSUME TypeInv, SecretKept, NEW p \in Process, Goes(p), up'[p] = "down",
           own' = [own EXCEPT ![p] = None], secret' = secret, rushed' = rushed, known' = known, plugin' = plugin
    PROVE  SecretKept'
<1>1. \A q \in Process : q # p => up'[q] = up[q] /\ own'[q] = own[q]
    BY DEF Goes, TypeInv, TypeOK, StartTypeOK
<1>2. Storing' \subseteq Storing
    BY <1>1 DEF Storing
<1>3. \A q \in Process : up'[q] \in Stored \cup {"secret"} => q # p
    BY DEF Stored
<1> QED
    BY <1>1, <1>2, <1>3 DEF SecretKept, Shared, CheckSecret

LEMMA NextSecret == TypeInv /\ SecretKept /\ [Next]_vars => SecretKept'
<1> SUFFICES ASSUME TypeInv, SecretKept, [Next]_vars, Shared', ~rushed' PROVE SecretKept'
    BY DEF SecretKept
<1>0. /\ up \in [Process -> Stages] /\ own \in [Process -> Process \cup {None}] /\ None \notin Process
      /\ secret \in Process \cup {None}
    BY PluginDatabaseAssumption DEF TypeInv, TypeOK, StartTypeOK
<1>1. ASSUME NEW p \in Process, Start(p) PROVE SecretKept'
    <2>1. /\ up' = [up EXCEPT ![p] = "finding"] /\ UNCHANGED <<own, secret, rushed, known, plugin>>
        BY <1>1 DEF Start, Launch, Moves, Same
    <2>2. \A q \in Process : up'[q] \in Stored \cup {"secret", "starting"} => up'[q] = up[q]
        BY <1>0, <2>1 DEF Stored
    <2> QED
        BY <2>1, <2>2 DEF SecretKept, Shared, Storing, CheckSecret, Stored
<1>2. ASSUME NEW p \in Process, StartStep(p) PROVE SecretKept'
    <2>1. GoesOn(p)
        BY <1>2, StartGoesOn DEF TypeInv
    <2>2. rushed' = (rushed \/ (up'[p] = "starting" /\ Storing # {})) /\ plugin' = plugin /\ secret' = secret
        BY <1>2, Zenon DEF StartStep, Same
    <2>3. Shared /\ ~rushed /\ (up'[p] = "starting" => Storing = {})
        BY <2>2 DEF Shared
    <2>4. IF up'[p] = "down" THEN own' = [own EXCEPT ![p] = None] ELSE own' = own
        BY <1>2, Zenon DEF StartStep, Forgets
    <2>5. known' = IF up'[p] = "listening" THEN known \cup {own[p]} ELSE known
        BY <1>2, Zenon DEF StartStep
    <2>6. \A q \in Process : q # p => up'[q] = up[q] /\ own'[q] = own[q]
        BY <1>0, <2>1, <2>4 DEF GoesOn, Goes
    <2>7. /\ up'[p] # "secret" /\ up[p] # "secret"
          /\ up'[p] \in Stored => up[p] \in Stored /\ own'[p] = own[p]
        BY <2>1, <2>4 DEF GoesOn, Follows, Stored
    <2>8. \A q, r \in Storing' : q = r
        <3>1. CASE up'[p] = "starting"
            BY <2>3, <2>6, <3>1 DEF Storing
        <3>2. CASE up'[p] # "starting"
            <4>1. Storing' \subseteq Storing
                BY <2>6, <2>7, <3>2 DEF Storing
            <4> QED
                BY <4>1, <2>3 DEF SecretKept
        <3> QED
            BY <3>1, <3>2
    <2>9. known' \subseteq {secret}
        <3>1. CASE up'[p] = "listening"
            <4>1. own[p] = secret
                BY <2>3, <2>7, <3>1 DEF SecretKept, Stored
            <4> QED
                BY <2>3, <2>5, <4>1 DEF SecretKept
        <3>2. CASE up'[p] # "listening"
            BY <2>3, <2>5, <3>2 DEF SecretKept
        <3> QED
            BY <3>1, <3>2
    <2>10. \A q \in Process : up'[q] = "secret" => own'[q] = CheckSecret(q)
        BY <2>3, <2>6, <2>7 DEF SecretKept
    <2>11. \A q \in Process : up'[q] \in Stored => own'[q] = secret
        BY <2>3, <2>6, <2>7 DEF SecretKept
    <2> QED
        BY <2>2, <2>8, <2>9, <2>10, <2>11 DEF SecretKept, CheckSecret
<1>3. ASSUME NEW p \in Process, SecretStep(p) PROVE SecretKept'
    <2>1. SecretGoesOn(p)
        BY <1>3, SecretStepGoesOn DEF TypeInv
    <2>2. /\ Goes(p) /\ UNCHANGED <<plugin, rushed, known>> /\ Shared /\ ~rushed
        BY <2>1 DEF SecretGoesOn, Shared
    <2>3. \A q \in Process : q # p => up'[q] = up[q]
        BY <1>0, <2>2 DEF Goes
    <2>4. up[p] \in {"starting", "secret"} /\ up'[p] \in {"secret", "api", "down"}
        BY <2>1 DEF SecretGoesOn
    <2>5. \A q, r \in Storing' : q = r
        BY <2>2, <2>3, <2>4 DEF SecretKept, Storing
    <2>6. \A q \in Process : q # p => up[q] # "secret"
        BY <2>2, <2>4 DEF SecretKept, Storing
    <2>7. CASE up'[p] = "secret"
        <3>1. own' = [own EXCEPT ![p] = CheckSecret(p)] /\ secret' = secret
            BY <2>1, <2>7 DEF SecretGoesOn
        <3>2. \A q \in Process : up'[q] = "secret" => own'[q] = CheckSecret(q)
            BY <1>0, <2>3, <2>6, <3>1
        <3>3. \A q \in Process : up'[q] \in Stored => own'[q] = secret
            BY <1>0, <2>2, <2>3, <2>7, <3>1 DEF SecretKept, Stored
        <3> QED
            BY <2>2, <2>5, <3>1, <3>2, <3>3 DEF SecretKept, CheckSecret
    <2>8. CASE up'[p] = "api"
        <3>1. own' = own /\ secret' = own[p] /\ own[p] = CheckSecret(p)
            BY <2>1, <2>2, <2>8 DEF SecretGoesOn, SecretKept
        <3>2. secret # None => secret' = secret
            BY <3>1 DEF CheckSecret
        <3>3. \A q \in Process : q # p /\ up[q] \in Stored => own[q] = secret /\ own[q] # None
            BY <2>2 DEF SecretKept, TypeInv, Owned
        <3>4. known \subseteq {secret} /\ None \notin known
            BY <1>0, <2>2 DEF SecretKept, TypeInv, TypeOK
        <3>5. known \subseteq {secret'}
            BY <3>2, <3>4
        <3>6. \A q \in Process : up'[q] \in Stored => own'[q] = secret'
            BY <2>3, <3>1, <3>2, <3>3
        <3>7. \A q \in Process : up'[q] # "secret"
            BY <2>3, <2>6, <2>8
        <3> QED
            BY <2>2, <2>5, <3>5, <3>6, <3>7 DEF SecretKept
    <2>9. CASE up'[p] = "down"
        <3>1. own' = [own EXCEPT ![p] = None] /\ secret' = secret
            BY <2>1, <2>9 DEF SecretGoesOn, Forgets
        <3> QED
            BY <2>2, <2>9, <3>1, SecretStays
    <2> QED
        BY <2>4, <2>7, <2>8, <2>9
<1>4. ASSUME NEW p \in Process, Crash(p) \/ SignalLogger(p) \/ Exit(p) PROVE SecretKept'
    <2>1. /\ up' = [up EXCEPT ![p] = "down"] /\ own' = [own EXCEPT ![p] = None]
          /\ UNCHANGED <<rushed, known, plugin>> /\ secret' = IF plugin = "memory" THEN None ELSE secret
        BY <1>4 DEF Crash, SignalLogger, Exit, Gone
    <2>2. secret' = secret
        BY <2>1 DEF Shared
    <2>3. Goes(p) /\ up'[p] = "down"
        BY <1>0, <2>1 DEF Goes
    <2> QED
        BY <2>1, <2>2, <2>3, SecretStays
<1>5. ASSUME NEW p \in Process, Signal(p) PROVE SecretKept'
    <2>1. /\ up[p] \in {"listening", "closing"} /\ up' = [up EXCEPT ![p] = "closing"]
          /\ UNCHANGED <<own, secret, rushed, known, plugin>>
        BY <1>5 DEF Signal
    <2>2. /\ \A q \in Process : up'[q] \in Stored <=> up[q] \in Stored
          /\ \A q \in Process : up'[q] \in {"starting", "secret"} => up'[q] = up[q]
        BY <1>0, <2>1 DEF Stored
    <2> QED
        BY <2>1, <2>2 DEF SecretKept, Shared, Storing, CheckSecret
<1>6. ASSUME NEW p \in Process, NEW c \in Call, NEW o \in {"add", "remove", "get"},
             NEW n \in Name \cup {None}, Begin(c, p, o, n)
      PROVE  SecretKept'
    BY <1>6 DEF Begin, serverVars, startVars, SecretKept, Shared, Storing, CheckSecret
<1>7. ASSUME NEW c \in Call, Step(c) PROVE SecretKept'
    <2>1. CallGoesOn(c)
        BY <1>7, StepGoesOn
    <2> QED
        BY <2>1 DEF CallGoesOn, serverVars, startVars, SecretKept, Shared, Storing, CheckSecret
<1>8. CASE UNCHANGED vars
    BY <1>8 DEF vars, serverVars, startVars, SecretKept, Shared, Storing, CheckSecret
<1> QED
    BY <1>1, <1>2, <1>3, <1>4, <1>5, <1>6, <1>7, <1>8 DEF Next, Over

\* Servers that share a store listen with one secret, over crashes and restarts,
\* unless two of them made it at the same time (Config.checkSecretKey): a token of
\* one is understood by the others.
THEOREM OneSecret == Spec => []SecretShared
<1>1. Init => SecretKept
    BY DEF Init, StartInit, SecretKept, Storing, Stored
<1>2. SecretKept => SecretShared
    <2> SUFFICES ASSUME SecretKept, Shared, ~rushed PROVE Cardinality(known) <= 1
        BY DEF SecretShared
    <2>1. known = {} \/ known = {secret}
        BY DEF SecretKept
    <2>2. CASE known = {}
        BY <2>2, FS_EmptySet
    <2>3. CASE known = {secret}
        <3>1. Cardinality({secret}) = 1
            BY FS_Singleton, Zenon
        <3> QED
            BY <2>3, <3>1
    <2> QED
        BY <2>1, <2>2, <2>3
<1> QED
    BY <1>1, <1>2, ServersTyped, NextSecret, PTL DEF Spec

-----------------------------------------------------------------------------
(* The names *)

\* While a call has had the store for itself, one server at most is up, and such
\* a call never runs with another.
AloneAtAll ==
    /\ alone # {} => \A p, q \in Process : up[p] # "down" /\ up[q] # "down" => p = q
    /\ \A c \in alone, d \in Call : Busy(c) /\ Busy(d) => c = d
\* A name is in all that may be put ...
Has(n) ==
    /\ \A d \in Call : pc[d] \in {"read", "put"} => n \in snap[d]
    /\ \A p \in Process : current[p] # None => n \in copy[current[p]]
\* ... or it is removed.
Removed(n) == \E d \in Call : op[d] = "remove" /\ name[d] = n /\ pc[d] # "called"
\* While no addition has failed and no calls overlapped, S3's copy is what the
\* store has, but for what is being put.
CopyStored(p) ==
    /\ \A n \in copy[current[p]] :
          n \in list \/ \E d \in Call : pc[d] = "put" /\ op[d] = "add" /\ name[d] = n
    /\ \A d \in Call : pc[d] = "put" => copy[current[p]] \subseteq snap[d]
Copied ==
    plugin = "s3" /\ alone # {} /\ Orderly =>
        \A p \in Process : current[p] # None => CopyStored(p)
\* An addition puts its name in all that may be put, and an answer makes it last.
Counts(c) == told[c] = "ok" \/ (told[c] = "known" /\ Orderly)
Adding == \A c \in alone : pc[c] = "put" /\ op[c] = "add" => Has(name[c])
Lasting ==
    \A c \in alone, n \in Name :
        op[c] = "add" /\ name[c] = n /\ Counts(c) /\ plugin # "memory" =>
            Removed(n) \/ (n \in list /\ Has(n))

LastInv == AloneAtAll /\ Copied /\ Adding /\ Lasting

\* A call that is alone runs at the only server there is.
LEMMA OnlyServer ==
    ASSUME TypeInv, AloneAtAll, NEW c \in alone, Busy(c), NEW p \in Process, up[p] # "down"
    PROVE  p = proc[c] /\ up[p] \in {"listening", "closing"}
<1>1. c \in Call /\ proc[c] \in Process /\ up[proc[c]] \in {"listening", "closing"}
    BY DEF TypeInv, TypeOK, CallsRun
<1> QED
    BY <1>1 DEF AloneAtAll

LEMMA NextAlone == TypeInv /\ AloneAtAll /\ [Next]_vars => AloneAtAll'
<1> SUFFICES ASSUME TypeInv, AloneAtAll, [Next]_vars PROVE AloneAtAll'
    OBVIOUS
<1>0. up \in [Process -> Stages] /\ alone \subseteq Call
    BY DEF TypeInv, TypeOK, StartTypeOK
<1>1. ASSUME NEW p \in Process, Start(p) PROVE AloneAtAll'
    <2>1. /\ up' = [up EXCEPT ![p] = "finding"] /\ pc' = pc
          /\ alone' = IF \E q \in Process : up[q] # "down" THEN {} ELSE alone
        BY <1>1 DEF Start, Launch, Moves
    <2> QED
        BY <1>0, <2>1 DEF AloneAtAll, Busy
<1>2. ASSUME NEW p \in Process, Goes(p), up[p] # "down", pc' = pc, alone' = alone PROVE AloneAtAll'
    <2>1. \A q \in Process : up'[q] # "down" => up[q] # "down"
        BY <1>0, <1>2 DEF Goes
    <2> QED
        BY <1>2, <2>1 DEF AloneAtAll, Busy
<1>3. ASSUME NEW p \in Process, StartStep(p) PROVE AloneAtAll'
    <2>1. Goes(p) /\ up[p] # "down"
        BY <1>3, StartGoesOn DEF TypeInv, GoesOn, Follows
    <2> QED
        BY <1>2, <1>3, <2>1 DEF StartStep, callVars
<1>4. ASSUME NEW p \in Process, SecretStep(p) PROVE AloneAtAll'
    <2>1. SecretGoesOn(p)
        BY <1>4, SecretStepGoesOn DEF TypeInv
    <2> QED
        BY <1>2, <2>1 DEF SecretGoesOn, callVars
<1>5. ASSUME NEW p \in Process, Crash(p) \/ SignalLogger(p) \/ Exit(p) PROVE AloneAtAll'
    <2>1. /\ up' = [up EXCEPT ![p] = "down"] /\ alone' = alone
          /\ pc' = [c \in Call |-> IF c \in Running(p) THEN "over" ELSE pc[c]]
        BY <1>5 DEF Crash, SignalLogger, Exit, Gone
    <2>2. \A q \in Process : up'[q] # "down" => up[q] # "down"
        BY <1>0, <2>1
    <2>3. \A c \in Call : Busy(c)' => Busy(c)
        BY <2>1 DEF Busy
    <2> QED
        BY <1>0, <2>1, <2>2, <2>3 DEF AloneAtAll
<1>6. ASSUME NEW p \in Process, Signal(p) PROVE AloneAtAll'
    <2>1. Goes(p) /\ up[p] # "down" /\ pc' = pc /\ alone' = alone
        BY <1>0, <1>6 DEF Signal, Goes, callVars
    <2> QED
        BY <1>2, <2>1
<1>7. ASSUME NEW p \in Process, NEW c \in Call, NEW o \in {"add", "remove", "get"},
             NEW n \in Name \cup {None}, Begin(c, p, o, n)
      PROVE  AloneAtAll'
    <2>1. /\ pc' = [pc EXCEPT ![c] = "called"] /\ up' = up /\ up[p] = "listening"
          /\ alone' = IF \E q \in Process \ {p} : up[q] # "down" THEN alone \ {c}
                      ELSE IF Running(p) = {} THEN alone ELSE alone \ (Running(p) \cup {c})
        BY <1>7, Zenon DEF Begin, serverVars, startVars
    <2>2. alone' \subseteq alone
        BY <2>1
    <2>3. ASSUME NEW e \in alone', NEW d \in Call, Busy(e)', Busy(d)' PROVE e = d
        <3>1. \A q \in Process \ {p} : up[q] = "down"
            BY <2>1, <2>2, <2>3 DEF AloneAtAll
        <3>2. \A x \in Call : Busy(x) => x \in Running(p)
            BY <3>1 DEF TypeInv, TypeOK, CallsRun, Running, Busy
        <3>3. \A x \in Call : x # c /\ Busy(x)' => x \in Running(p)
            BY <2>1, <3>2 DEF Busy, TypeInv, TypeOK
        <3>4. CASE Running(p) = {}
            BY <1>0, <2>2, <2>3, <3>3, <3>4
        <3>5. CASE Running(p) # {}
            <4>1. e \notin Running(p) \cup {c}
                BY <2>1, <2>3, <3>1, <3>5
            <4> QED
                BY <1>0, <2>2, <2>3, <3>3, <4>1
        <3> QED
            BY <3>4, <3>5
    <2> QED
        BY <2>1, <2>2, <2>3 DEF AloneAtAll
<1>8. ASSUME NEW c \in Call, Step(c) PROVE AloneAtAll'
    <2>1. CallGoesOn(c)
        BY <1>8, StepGoesOn
    <2>2. up' = up /\ alone' = alone /\ \A d \in Call : Busy(d)' => Busy(d)
        BY <2>1 DEF CallGoesOn, serverVars, startVars, Busy, TypeInv, TypeOK
    <2> QED
        BY <1>0, <2>2 DEF AloneAtAll
<1>9. CASE UNCHANGED vars
    BY <1>9 DEF vars, serverVars, startVars, callVars, AloneAtAll, Busy
<1> QED
    BY <1>1, <1>3, <1>4, <1>5, <1>6, <1>7, <1>8, <1>9 DEF Next, Over

\* An answer is given once: what was orderly has been so all the time.
LEMMA AnswersStay ==
    ASSUME TypeInv, [Next]_vars
    PROVE  /\ alone' \subseteq alone /\ plugin' = plugin
           /\ \A d \in Call : told[d] # "nothing" => told'[d] = told[d] /\ op'[d] = op[d] /\ name'[d] = name[d]
           /\ Orderly' => Orderly
<1>0. /\ alone \subseteq Call /\ \A d \in Call : told[d] # "nothing" => ~Busy(d) /\ pc[d] # "idle"
    BY DEF TypeInv, TypeOK, CallsRun
<1> DEFINE Same1 == /\ alone' \subseteq alone /\ plugin' = plugin
                    /\ \A d \in Call : told[d] # "nothing" =>
                          told'[d] = told[d] /\ op'[d] = op[d] /\ name'[d] = name[d]
<1>1. Same1
    <2>1. ASSUME NEW p \in Process, Start(p) \/ StartStep(p) \/ Signal(p) PROVE Same1
        BY <2>1 DEF Start, StartStep, Signal, Same, callVars
    <2>2. ASSUME NEW p \in Process, SecretStep(p) PROVE Same1
        <3>1. SecretGoesOn(p)
            BY <2>2, SecretStepGoesOn DEF TypeInv
        <3> QED
            BY <3>1 DEF SecretGoesOn, callVars
    <2>3. ASSUME NEW p \in Process, Crash(p) \/ SignalLogger(p) \/ Exit(p) PROVE Same1
        <3>1. /\ UNCHANGED <<plugin, op, name, alone>>
              /\ \A d \in Call : d \notin Running(p) => told'[d] = told[d]
            BY <2>3 DEF Crash, SignalLogger, Exit, Gone
        <3> QED
            BY <1>0, <3>1 DEF Running, Busy
    <2>4. ASSUME NEW p \in Process, NEW c \in Call, NEW o \in {"add", "remove", "get"},
                 NEW n \in Name \cup {None}, Begin(c, p, o, n)
          PROVE  Same1
        <3>1. /\ pc[c] = "idle" /\ told' = told /\ plugin' = plugin /\ alone' \subseteq alone
              /\ op' = [op EXCEPT ![c] = o] /\ name' = [name EXCEPT ![c] = n]
            BY <2>4 DEF Begin
        <3> QED
            BY <1>0, <3>1 DEF TypeInv, TypeOK
    <2>5. ASSUME NEW c \in Call, Step(c) PROVE Same1
        <3>1. CallGoesOn(c)
            BY <2>5, StepGoesOn
        <3> QED
            BY <1>0, <3>1 DEF CallGoesOn, TypeInv, TypeOK
    <2>6. CASE UNCHANGED vars
        BY <2>6 DEF vars, callVars
    <2> QED
        BY <2>1, <2>2, <2>3, <2>4, <2>5, <2>6 DEF Next, Over
<1>2. Orderly' => Orderly
    <2> SUFFICES ASSUME Orderly' PROVE Orderly
        OBVIOUS
    <2>1. alone = Call
        BY <1>0, <1>1 DEF Orderly
    <2>2. \A d \in Call : ~(op[d] = "add" /\ told[d] = "error")
        BY <1>1 DEF Orderly
    <2> QED
        BY <2>1, <2>2 DEF Orderly
<1> QED
    BY <1>1, <1>2

\* The copy of S3 follows the store, so long as nothing disturbs it.
LEMMA NextCopied == TypeInv /\ AloneAtAll /\ Copied /\ [Next]_vars => Copied'
<1> SUFFICES ASSUME TypeInv, AloneAtAll, Copied, [Next]_vars, plugin' = "s3", alone' # {}, Orderly',
                    NEW q \in Process, current'[q] # None
             PROVE  CopyStored(q)'
    BY Zenon DEF Copied
<1>0. /\ plugin = "s3" /\ Orderly /\ alone = Call /\ alone' = Call /\ alone # {}
      /\ up \in [Process -> Stages] /\ copy \in [Owner -> SUBSET Name] /\ current \in [Process -> Owner \cup {None}]
      /\ \A p \in Process : p \in Owner /\ (current[p] # None => current[p] = p /\ up[p] # "down")
    BY AnswersStay DEF Orderly, TypeInv, TypeOK, StartTypeOK, CopiesOwned, Owner
<1>1. current[q] # None => CopyStored(q)
    BY <1>0, Zenon DEF Copied
<1>2. ASSUME UNCHANGED <<list, op, name, pc, snap>>, current'[q] = current[q], copy'[current[q]] = copy[current[q]]
      PROVE  CopyStored(q)'
    BY <1>1, <1>2 DEF CopyStored
\* A server that forgets its copy has none.
<1>3. ASSUME NEW p \in Process, Forgets(p), list' = list, UNCHANGED callVars PROVE CopyStored(q)'
    <2>1. q # p /\ current'[q] = current[q]
        BY <1>0, <1>3 DEF Forgets
    <2>2. copy'[current[q]] = copy[current[q]]
        BY <1>0, <1>3, <2>1 DEF Forgets
    <2> QED
        BY <1>2, <1>3, <2>1, <2>2 DEF callVars
<1>4. ASSUME NEW p \in Process, Start(p) \/ Signal(p) PROVE CopyStored(q)'
    BY <1>2, <1>4 DEF Start, Same, Signal, callVars
<1>5. ASSUME NEW p \in Process, StartStep(p) PROVE CopyStored(q)'
    <2>1. list' = list /\ UNCHANGED callVars
        BY <1>5 DEF StartStep, Same
    <2>2. IF up'[p] = "down" THEN Forgets(p) ELSE UNCHANGED <<own, current, copy>>
        BY <1>5, Zenon DEF StartStep
    <2> QED
        BY <1>2, <1>3, <2>1, <2>2 DEF callVars
<1>6. ASSUME NEW p \in Process, SecretStep(p) PROVE CopyStored(q)'
    <2>1. SecretGoesOn(p) /\ UNCHANGED callVars
        BY <1>6, SecretStepGoesOn DEF TypeInv, SecretGoesOn
    <2>2. up[p] \notin {"down", "listening", "closing"}
        BY <2>1 DEF SecretGoesOn
    <2>3. \A d \in Call : ~Busy(d)
        BY <1>0, <2>2, OnlyServer
    <2>4. CASE up'[p] = "secret"
        <3>1. list' = list /\ current' = [current EXCEPT ![p] = p] /\ copy' = [copy EXCEPT ![p] = list]
            BY <1>0, <2>1, <2>4 DEF SecretGoesOn
        <3>2. CASE q = p
            <4>1. copy'[current'[q]] = list'
                BY <1>0, <3>1, <3>2
            <4>2. \A d \in Call : pc'[d] # "put"
                BY <2>1, <2>3 DEF Busy, callVars
            <4> QED
                BY <4>1, <4>2 DEF CopyStored
        <3>3. CASE q # p
            BY <1>0, <1>2, <2>1, <3>1, <3>3 DEF callVars
        <3> QED
            BY <3>2, <3>3
    <2>5. CASE up'[p] = "api"
        <3>1. UNCHANGED <<current, copy>> /\ list' = copy[p] /\ up[p] = "secret"
            BY <1>0, <2>1, <2>5 DEF SecretGoesOn
        <3>2. q = p
            BY <1>0, <2>2, <3>1 DEF AloneAtAll
        <3>3. copy'[current'[q]] = list'
            BY <1>0, <3>1, <3>2
        <3>4. \A d \in Call : pc'[d] # "put"
            BY <2>1, <2>3 DEF Busy, callVars
        <3> QED
            BY <3>3, <3>4 DEF CopyStored
    <2>6. CASE up'[p] = "down"
        BY <1>3, <2>1, <2>6 DEF SecretGoesOn
    <2> QED
        BY <2>1, <2>4, <2>5, <2>6 DEF SecretGoesOn
<1>7. ASSUME NEW p \in Process, Crash(p) \/ SignalLogger(p) \/ Exit(p) PROVE CopyStored(q)'
    <2>1. up[p] # "down" /\ current' = [current EXCEPT ![p] = None]
        BY <1>7 DEF Crash, SignalLogger, Exit, Gone
    <2> QED
        BY <1>0, <2>1 DEF AloneAtAll
<1>8. ASSUME NEW p \in Process, NEW c \in Call, NEW o \in {"add", "remove", "get"},
             NEW n \in Name \cup {None}, Begin(c, p, o, n)
      PROVE  CopyStored(q)'
    <2>1. /\ pc' = [pc EXCEPT ![c] = "called"] /\ pc[c] = "idle" /\ UNCHANGED <<list, current, copy, snap>>
          /\ op' = [op EXCEPT ![c] = o] /\ name' = [name EXCEPT ![c] = n]
        BY <1>8 DEF Begin
    <2> QED
        BY <1>1, <2>1 DEF CopyStored, TypeInv, TypeOK
\* A call of S3 has the store for itself.
<1>9. ASSUME NEW c \in Call, Step(c) PROVE CopyStored(q)'
    <2>0. /\ CallGoesOn(c) /\ Busy(c) /\ proc[c] \in Process /\ current' = current
          /\ op' = op /\ name' = name /\ snap[c] \in SUBSET Name
        BY <1>0, <1>9, StepGoesOn DEF CallGoesOn, TypeInv, TypeOK, CallsRun
    <2>1. \A d \in Call : d # c => pc'[d] = pc[d] /\ ~Busy(d) /\ snap'[d] = snap[d]
        BY <1>0, <2>0 DEF CallGoesOn, AloneAtAll, TypeInv, TypeOK
    <2>2. /\ q = proc[c] /\ current[q] = q /\ q \in Owner /\ copy[q] \in SUBSET Name /\ current[proc[c]] = q
          /\ CopyStored(q)
        BY <1>0, <1>1, <2>0, OnlyServer
    <2>3. CASE S3Add(c) /\ name[c] \in copy[q]
        <3>1. UNCHANGED <<list, copy, snap>> /\ pc[c] = "called" /\ pc'[c] = "over"
            BY <2>0, <2>2, <2>3 DEF S3Add, Calls, Answer, TypeInv, TypeOK
        <3> QED
            BY <2>0, <2>1, <2>2, <3>1 DEF CopyStored, TypeInv, TypeOK
    <2>4. CASE S3Add(c) /\ name[c] \notin copy[q]
        <3>1. /\ list' = list /\ pc[c] = "called" /\ op[c] = "add"
              /\ pc'[c] = "put" /\ copy'[q] = copy[q] \cup {name[c]} /\ snap'[c] = copy[q] \cup {name[c]}
            BY <1>0, <2>0, <2>2, <2>4 DEF S3Add, Changes, Calls, To, TypeInv, TypeOK
        <3> QED
            BY <2>0, <2>1, <2>2, <3>1 DEF CopyStored, Busy
    <2>5. CASE S3Remove(c)
        <3>1. /\ list' = list /\ pc[c] = "called"
              /\ pc'[c] = "put" /\ copy'[q] = copy[q] \ {name[c]} /\ snap'[c] = copy[q] \ {name[c]}
            BY <1>0, <2>0, <2>2, <2>5 DEF S3Remove, Changes, Calls, To, TypeInv, TypeOK
        <3> QED
            BY <2>0, <2>1, <2>2, <3>1 DEF CopyStored, Busy
    <2>6. CASE Put(c)
        <3>1. /\ pc[c] = "put" /\ pc'[c] = "over" /\ copy' = copy
              /\ list' = snap[c] \/ (list' = list /\ told'[c] = "error")
            BY <2>0, <2>6 DEF Put, Answer, TypeInv, TypeOK
        <3>2. copy[q] \subseteq snap[c]
            BY <2>2, <3>1 DEF CopyStored
        <3>3. ASSUME told'[c] = "error" PROVE copy[q] \subseteq list
            <4>1. op[c] # "add"
                BY <2>0, <3>3 DEF Orderly
            <4>2. ~\E d \in Call : pc[d] = "put" /\ op[d] = "add"
                BY <2>1, <4>1 DEF Busy
            <4> QED
                BY <2>2, <4>2 DEF CopyStored
        <3>4. copy'[current'[q]] \subseteq list'
            BY <2>0, <2>2, <3>1, <3>2, <3>3
        <3>5. \A d \in Call : pc'[d] # "put"
            BY <2>1, <3>1 DEF Busy
        <3> QED
            BY <3>4, <3>5 DEF CopyStored
    <2>7. ~GetTokenDb(c) /\ ~TokensLoaded(c) /\ ~TokensThere(c)
        BY <1>0 DEF GetTokenDb, TokensLoaded, TokensThere, TypeInv, CallsRun
    <2>8. ~GoogleAdd(c) /\ ~GoogleGetEntities(c) /\ ~GoogleGet(c) /\ ~MemoryAdd(c) /\ ~MemoryRemove(c)
        BY <1>0 DEF GoogleAdd, GoogleGetEntities, GoogleGet, MemoryAdd, MemoryRemove, Calls
    <2>9. ~GoogleDeleteItem(c)
        BY <1>0 DEF GoogleDeleteItem, TypeInv, CallsRun
    <2> QED
        BY <1>9, <2>3, <2>4, <2>5, <2>6, <2>7, <2>8, <2>9 DEF Step
<1>10. CASE UNCHANGED vars
    BY <1>2, <1>10 DEF vars, callVars
<1> QED
    BY <1>4, <1>5, <1>6, <1>7, <1>8, <1>9, <1>10 DEF Next, Over

\* What calls put, and what servers have, in the steps of servers: an addition
\* that is put stays so as long as its server is there ...
LEMMA ServerAdding ==
    ASSUME TypeInv, AloneAtAll, Adding, NEW p \in Process,
           \/ Start(p) \/ StartStep(p) \/ SecretStep(p)
           \/ Crash(p) \/ Signal(p) \/ SignalLogger(p) \/ Exit(p)
    PROVE  Adding'
<1> SUFFICES ASSUME NEW c \in alone', pc'[c] = "put", op'[c] = "add" PROVE Has(name[c])'
    BY DEF Adding
<1>0. up \in [Process -> Stages] /\ alone \subseteq Call
    BY DEF TypeInv, TypeOK, StartTypeOK
<1>1. CASE Start(p)
    <2>1. /\ alone' = IF \E q \in Process : up[q] # "down" THEN {} ELSE alone
          /\ pc' = pc
        BY <1>1 DEF Start
    <2>2. c \in alone /\ Busy(c) /\ \A q \in Process : up[q] = "down"
        BY <2>1 DEF Busy
    <2>3. proc[c] \in Process /\ up[proc[c]] # "down"
        BY <1>0, <2>2 DEF TypeInv, TypeOK, CallsRun
    <2> QED
        BY <2>2, <2>3
<1>2. CASE StartStep(p) \/ SecretStep(p)
    <2>1. up[p] \notin {"down", "listening", "closing"} /\ pc' = pc /\ alone' = alone
        BY <1>2, StartGoesOn, SecretStepGoesOn
        DEF TypeInv, GoesOn, Follows, SecretGoesOn, StartStep, callVars
    <2>2. c \in alone /\ Busy(c)
        BY <2>1 DEF Busy
    <2> QED
        BY <2>1, <2>2, OnlyServer
<1>3. CASE Signal(p)
    BY <1>3 DEF Signal, callVars, Adding, Has
<1>4. CASE Crash(p) \/ SignalLogger(p) \/ Exit(p)
    <2>1. /\ up[p] # "down" /\ alone' = alone
          /\ pc' = [d \in Call |-> IF d \in Running(p) THEN "over" ELSE pc[d]]
        BY <1>4 DEF Crash, SignalLogger, Exit, Gone
    <2>2. c \in alone /\ c \in Call /\ c \notin Running(p) /\ Busy(c)
        BY <1>0, <2>1 DEF Busy
    <2>3. p = proc[c]
        BY <2>1, <2>2, OnlyServer
    <2> QED
        BY <2>2, <2>3 DEF Running, Busy
<1> QED
    BY <1>1, <1>2, <1>3, <1>4

\* ... and a name that is in the store and in all that may be put remains there.
LEMMA ServerLasting ==
    ASSUME TypeInv, AloneAtAll, alone # {}, plugin # "memory", NEW n, n \in list, Has(n), NEW p \in Process,
           \/ Start(p) \/ StartStep(p) \/ SecretStep(p)
           \/ Crash(p) \/ Signal(p) \/ SignalLogger(p) \/ Exit(p)
    PROVE  n \in list' /\ Has(n)'
<1>0. /\ up \in [Process -> Stages] /\ alone \subseteq Call /\ current \in [Process -> Owner \cup {None}]
      /\ copy \in [Owner -> SUBSET Name] /\ p \in Owner /\ p # None
    BY PluginDatabaseAssumption DEF TypeInv, TypeOK, StartTypeOK, Owner
<1>1. CASE Start(p) \/ Signal(p)
    BY <1>1 DEF Start, Same, Signal, callVars, Has
<1>2. ASSUME Forgets(p), list' = list, UNCHANGED callVars
      PROVE  n \in list' /\ Has(n)'
    <2>1. ASSUME NEW q \in Process, current'[q] # None
          PROVE  current'[q] = current[q] /\ current[q] # p /\ current[q] \in Owner
        <3>1. q # p /\ current'[q] = current[q]
            BY <1>0, <1>2, <2>1 DEF Forgets
        <3>2. current[q] = q \/ current[q] \in Call
            BY <2>1, <3>1 DEF TypeInv, CopiesOwned
        <3> QED
            BY <3>1, <3>2, PluginDatabaseAssumption DEF Owner
    <2>2. \A q \in Process : current'[q] # None => n \in copy'[current'[q]]
        BY <1>0, <1>2, <2>1 DEF Forgets, Has
    <2> QED
        BY <1>2, <2>2 DEF Has, callVars
<1>3. CASE StartStep(p)
    <2>1. list' = list /\ UNCHANGED callVars
        BY <1>3 DEF StartStep, Same
    <2>2. IF up'[p] = "down" THEN Forgets(p) ELSE UNCHANGED <<own, current, copy>>
        BY <1>3, Zenon DEF StartStep
    <2>3. CASE UNCHANGED <<own, current, copy>>
        BY <2>1, <2>3 DEF Has, callVars
    <2> QED
        BY <1>2, <2>1, <2>2, <2>3
<1>4. CASE SecretStep(p)
    <2>1. SecretGoesOn(p)
        BY <1>4, SecretStepGoesOn DEF TypeInv
    <2>2. UNCHANGED callVars
        BY <2>1 DEF SecretGoesOn
    <2>3. CASE up'[p] = "secret"
        <3>1. list' = list
            BY <2>1, <2>3 DEF SecretGoesOn
        <3>2. CASE plugin = "s3"
            <4>1. current' = [current EXCEPT ![p] = p] /\ copy' = [copy EXCEPT ![p] = list]
                BY <2>1, <2>3, <3>2 DEF SecretGoesOn
            <4>2. \A q \in Process : current'[q] # None => n \in copy'[current'[q]]
                BY <1>0, <3>2, <4>1 DEF Has
            <4> QED
                BY <2>2, <3>1, <4>2 DEF Has, callVars
        <3>3. CASE plugin # "s3"
            BY <2>1, <2>2, <2>3, <3>1, <3>3 DEF SecretGoesOn, Has, callVars
        <3> QED
            BY <3>2, <3>3
    <2>4. CASE up'[p] = "api"
        <3>1. UNCHANGED <<current, copy>> /\ list' = (IF plugin = "s3" THEN copy[p] ELSE list) /\ up[p] = "secret"
            BY <2>1, <2>4 DEF SecretGoesOn
        <3>2. plugin = "s3" => n \in copy[p]
            BY <1>0, <3>1 DEF TypeInv, CopiesOwned, Has
        <3> QED
            BY <2>2, <3>1, <3>2 DEF Has, callVars
    <2>5. CASE up'[p] = "down"
        BY <1>2, <2>1, <2>2, <2>5 DEF SecretGoesOn
    <2> QED
        BY <2>1, <2>3, <2>4, <2>5 DEF SecretGoesOn
<1>5. CASE Crash(p) \/ SignalLogger(p) \/ Exit(p)
    <2>1. /\ up[p] # "down" /\ current' = [current EXCEPT ![p] = None]
          /\ pc' = [c \in Call |-> IF c \in Running(p) THEN "over" ELSE pc[c]]
          /\ list' \in {list} \cup {snap[c] : c \in {d \in Running(p) : pc[d] = "put"}}
          /\ copy' = [o \in Owner |-> IF o = current[p] THEN {} ELSE copy[o]]
          /\ snap' = [c \in Call |-> IF c \in Running(p) THEN {} ELSE snap[c]]
        BY <1>5 DEF Crash, SignalLogger, Exit, Gone
    <2>2. n \in list'
        BY <2>1 DEF Running, Has
    <2>3. \A d \in Call : pc'[d] \in {"read", "put"} => n \in snap'[d]
        BY <2>1 DEF Has
    <2>4. ASSUME NEW q \in Process, current'[q] # None PROVE n \in copy'[current'[q]]
        <3>1. q # p /\ current'[q] = current[q] /\ current[q] # None
            BY <1>0, <2>1, <2>4
        <3>2. up[q] # "down"
            BY <3>1 DEF TypeInv, CopiesOwned
        <3> QED
            BY <2>1, <3>1, <3>2 DEF AloneAtAll
    <2> QED
        BY <2>2, <2>3, <2>4 DEF Has
<1> QED
    BY <1>1, <1>3, <1>4, <1>5


\* In a step of a call: an addition that comes to be put is in the copy ...
LEMMA CallAdding ==
    ASSUME TypeInv, AloneAtAll, Adding, NEW c \in Call, Step(c)
    PROVE  Adding'
<1> SUFFICES ASSUME NEW e \in alone, pc'[e] = "put", op[e] = "add" PROVE Has(name[e])'
    BY StepGoesOn DEF Adding, CallGoesOn
<1>0. /\ e = c /\ Busy(c) /\ proc[c] \in Process /\ c \in Owner /\ copy \in [Owner -> SUBSET Name]
      /\ CallGoesOn(c) /\ current \in [Process -> Owner \cup {None}]
    <2>1. CallGoesOn(c) /\ Busy(c)
        BY StepGoesOn DEF CallGoesOn
    <2>2. e \in Call /\ Busy(e)
        BY <2>1 DEF CallGoesOn, Busy, TypeInv, TypeOK
    <2> QED
        BY <2>1, <2>2 DEF AloneAtAll, TypeInv, TypeOK, CallsRun, Owner
<1>1. ASSUME NEW d \in Call, pc'[d] \in {"read", "put"} PROVE d = c
    BY <1>0, <1>1 DEF CallGoesOn, AloneAtAll, Busy, TypeInv, TypeOK
<1>2. ASSUME NEW p \in Process, current'[p] # None PROVE p = proc[c]
    <2>1. CASE p = proc[c]
        BY <2>1
    <2>2. CASE p # proc[c]
        <3>1. current[p] # None
            BY <1>0, <1>2, <2>2 DEF CallGoesOn
        <3>2. up[p] # "down"
            BY <3>1 DEF TypeInv, CopiesOwned
        <3> QED
            BY <1>0, <3>2, OnlyServer
    <2> QED
        BY <2>1, <2>2
<1>3. name[c] \in snap'[c] /\ (current'[proc[c]] # None => name[c] \in copy'[current'[proc[c]]])
    <2>1. ASSUME NEW o \in Owner, NEW has \in SUBSET Name, Changes(c, o, has \cup {name[c]})
          PROVE  name[c] \in snap'[c] /\ name[c] \in copy'[o]
        BY <1>0, <2>1 DEF Changes, TypeInv, TypeOK
    <2>2. ASSUME NEW o \in Owner, NEW has \in SUBSET Name, TokenChange(c, o, has)
          PROVE  name[c] \in snap'[c] /\ name[c] \in copy'[o]
        BY <1>0, <2>1, <2>2 DEF TokenChange
    <2>3. CASE S3Add(c)
        <3>1. current' = current /\ plugin = "s3"
            BY <2>3 DEF S3Add, Calls
        <3>2. current[proc[c]] = proc[c] /\ proc[c] \in Owner /\ copy[proc[c]] \in SUBSET Name
            BY <1>0, <3>1 DEF TypeInv, CallsRun, CopiesOwned, Stored, Owner
        <3>3. name[c] \notin copy[proc[c]]
            BY <1>0, <2>3, <3>2 DEF S3Add, Answer, TypeInv, TypeOK
        <3>4. Changes(c, proc[c], copy[proc[c]] \cup {name[c]})
            BY <2>3, <3>2, <3>3 DEF S3Add
        <3> QED
            BY <2>1, <3>1, <3>2, <3>4
    <2>4. CASE TokensLoaded(c)
        <3>1. current'[proc[c]] = c /\ TokenChange(c, c, snap[c]) /\ snap[c] \in SUBSET Name
            BY <1>0, <2>4 DEF TokensLoaded, TypeInv, TypeOK
        <3> QED
            BY <1>0, <2>2, <3>1
    <2>5. CASE TokensThere(c)
        <3>1. /\ current' = current /\ current[proc[c]] \in Owner
              /\ TokenChange(c, current[proc[c]], copy[current[proc[c]]])
            BY <1>0, <2>5 DEF TokensThere
        <3>2. copy[current[proc[c]]] \in SUBSET Name
            BY <1>0, <3>1
        <3> QED
            BY <2>2, <3>1, <3>2
    <2>6. ~S3Remove(c) /\ ~GetTokenDb(c) /\ ~Put(c)
        BY <1>0 DEF S3Remove, Calls, GetTokenDb, To, Put, Answer, TypeInv, TypeOK
    <2>7. ~GoogleAdd(c) /\ ~GoogleGetEntities(c) /\ ~GoogleDeleteItem(c) /\ ~GoogleGet(c)
        BY <1>0 DEF GoogleAdd, GoogleGetEntities, GoogleDeleteItem, GoogleGet, To, Answer, TypeInv, TypeOK
    <2>8. ~MemoryAdd(c) /\ ~MemoryRemove(c)
        BY <1>0 DEF MemoryAdd, MemoryRemove, Answer, TypeInv, TypeOK
    <2> QED
        BY <2>3, <2>4, <2>5, <2>6, <2>7, <2>8 DEF Step
<1> QED
    BY <1>0, <1>1, <1>2, <1>3 DEF Has, CallGoesOn

\* ... an answer to it says that it is in the store ...
LEMMA CallAdds ==
    ASSUME TypeInv, AloneAtAll, Adding, Copied, NEW c \in alone, Step(c), op[c] = "add",
           told'[c] = "ok" \/ (told'[c] = "known" /\ Orderly),
           plugin # "memory", NEW n, name[c] = n
    PROVE  n \in list' /\ Has(n)'
<1>0. c \in Call /\ CallGoesOn(c) /\ TypeInv' /\ told[c] = "nothing"
    BY StepGoesOn, CallTypes DEF TypeInv, TypeOK, CallsRun, CallGoesOn
<1>1. CASE Put(c)
    <2>1. pc[c] = "put" /\ Has(n)
        BY <1>1 DEF Put, Adding
    <2>2. list' = snap[c] /\ UNCHANGED <<current, copy>> /\ pc'[c] = "over"
        BY <1>0, <1>1 DEF Put, Answer, TypeInv, TypeOK
    <2>3. \A d \in Call : d # c => pc'[d] = pc[d] /\ snap'[d] = snap[d]
        BY <1>0 DEF CallGoesOn, TypeInv, TypeOK
    <2> QED
        BY <1>0, <2>1, <2>2, <2>3 DEF Has
<1>2. CASE GoogleAdd(c)
    <2>1. n \in list'
        BY <1>0, <1>2 DEF GoogleAdd, Answer, TypeInv, TypeOK
    <2>2. plugin' = "google"
        BY <1>0, <1>2 DEF GoogleAdd, Calls, CallGoesOn
    <2>3. /\ \A d \in Call : pc'[d] \notin {"read", "put"}
          /\ \A p \in Process : current'[p] = None
        BY <1>0, <2>2 DEF TypeInv, CallsRun, CopiesOwned
    <2> QED
        BY <2>1, <2>3 DEF Has
<1>3. ~S3Remove(c) /\ ~GetTokenDb(c)
    BY <1>0 DEF Changes, S3Remove, Calls, GetTokenDb, To, Answer, TypeInv, TypeOK
<1>4. ~TokensLoaded(c) /\ ~TokensThere(c)
    BY <1>0 DEF TokensLoaded, TokensThere, TokenChange, Changes, To, TypeInv, TypeOK
<1>5. ~GoogleGetEntities(c) /\ ~GoogleDeleteItem(c) /\ ~GoogleGet(c)
    BY <1>0 DEF GoogleGetEntities, GoogleDeleteItem, GoogleGet, Calls, TypeInv, CallsRun
<1>6. ~MemoryAdd(c) /\ ~MemoryRemove(c)
    BY DEF MemoryAdd, MemoryRemove, Calls
\* The copy had the name, and all that the copy has is stored.
<1>7. CASE S3Add(c)
    <2>1. /\ plugin = "s3" /\ pc[c] = "called" /\ current[proc[c]] = proc[c] /\ proc[c] \in Process /\ Busy(c)
          /\ up[proc[c]] # "down" /\ current[proc[c]] # None
        BY <1>0, <1>7, PluginDatabaseAssumption
        DEF S3Add, Calls, CallGoesOn, TypeInv, TypeOK, CallsRun, CopiesOwned, Stored
    <2>2. /\ n \in copy[proc[c]] /\ pc'[c] = "over" /\ UNCHANGED <<list, current, copy, snap>> /\ Orderly
        BY <1>0, <1>7, <2>1 DEF S3Add, Changes, To, Answer, TypeInv, TypeOK
    <2>3. \A d \in Call : d # c => ~Busy(d) /\ pc'[d] = pc[d]
        BY <1>0, <2>1 DEF AloneAtAll, CallGoesOn, TypeInv, TypeOK
    <2>4. CopyStored(proc[c])
        BY <2>1, <2>2 DEF Copied
    <2>5. n \in list
        BY <2>1, <2>2, <2>3, <2>4 DEF CopyStored, Busy
    <2>6. \A p \in Process : current[p] # None => p = proc[c]
        BY <2>1 DEF AloneAtAll, TypeInv, CopiesOwned
    <2>7. \A d \in Call : pc'[d] \notin {"read", "put"}
        BY <2>2, <2>3 DEF Busy
    <2> QED
        BY <2>1, <2>2, <2>5, <2>6, <2>7 DEF Has
<1> QED
    BY <1>1, <1>2, <1>3, <1>4, <1>5, <1>6, <1>7 DEF Step

\* ... and only a removal of a name takes it away.
LEMMA CallLasting ==
    ASSUME TypeInv, plugin # "memory", NEW n, n \in list, Has(n), NEW c \in Call, Step(c)
    PROVE  (op[c] = "remove" /\ name[c] = n /\ pc'[c] # "called") \/ (n \in list' /\ Has(n)')
<1>0. /\ CallGoesOn(c) /\ proc[c] \in Process /\ c \in Owner /\ copy \in [Owner -> SUBSET Name]
      /\ current \in [Process -> Owner \cup {None}] /\ snap[c] \in SUBSET Name /\ pc'[c] # "called"
    BY StepGoesOn DEF CallGoesOn, TypeInv, TypeOK, CallsRun, Owner
<1> SUFFICES ASSUME ~(op[c] = "remove" /\ name[c] = n) PROVE n \in list' /\ Has(n)'
    BY <1>0
<1>1. \A d \in Call : d # c => pc'[d] = pc[d] /\ snap'[d] = snap[d]
    BY <1>0 DEF CallGoesOn, TypeInv, TypeOK
<1>2. ASSUME UNCHANGED <<current, copy>>, pc'[c] \in {"read", "put"} => n \in snap'[c] PROVE Has(n)'
    BY <1>1, <1>2 DEF Has
<1>3. ASSUME NEW o \in Owner, NEW has \in SUBSET Name, n \in has,
             \/ Changes(c, o, has \cup {name[c]})
             \/ Changes(c, o, has \ {name[c]}) /\ name[c] # n
      PROVE  n \in snap'[c] /\ copy' = [copy EXCEPT ![o] = copy'[o]] /\ n \in copy'[o]
    BY <1>0, <1>3 DEF Changes, TypeInv, TypeOK
<1>4. ASSUME NEW o \in Owner, NEW has \in SUBSET Name, n \in has, TokenChange(c, o, has), plugin = "tokens",
             pc[c] # "over"
      PROVE  /\ pc'[c] \in {"read", "put"} => n \in snap'[c]
             /\ copy' = [copy EXCEPT ![o] = copy'[o]] /\ n \in copy'[o]
    <2>1. op[c] = "add" \/ (op[c] # "add" /\ name[c] # n)
        <3>1. op[c] \in {"none", "add", "remove", "get"} /\ op[c] \notin {"none", "get"}
            BY <1>0, <1>4 DEF TypeInv, TypeOK, CallsRun, CallGoesOn, Busy
        <3> QED
            BY <3>1
    <2>2. CASE has = {}
        BY <1>4, <2>2
    <2>3. CASE has # {}
        <3>1. \/ Changes(c, o, has \cup {name[c]})
              \/ Changes(c, o, has \ {name[c]}) /\ name[c] # n
            BY <1>4, <2>1, <2>3 DEF TokenChange
        <3> QED
            BY <1>3, <1>4, <3>1
    <2> QED
        BY <2>2, <2>3
<1>5. ASSUME NEW o \in Owner, copy' = [copy EXCEPT ![o] = copy'[o]], n \in copy'[o],
             pc'[c] \in {"read", "put"} => n \in snap'[c],
             current' = current \/ current' = [current EXCEPT ![proc[c]] = o]
      PROVE  Has(n)'
    <2>1. \A p \in Process : current'[p] # None => n \in copy'[current'[p]]
        BY <1>0, <1>5 DEF Has
    <2>2. \A d \in Call : pc'[d] \in {"read", "put"} => n \in snap'[d]
        BY <1>1, <1>5 DEF Has
    <2> QED
        BY <2>1, <2>2 DEF Has
<1>6. CASE S3Add(c) \/ S3Remove(c)
    <2>1. plugin = "s3" /\ list' = list /\ current' = current
        BY <1>6 DEF S3Add, S3Remove, Calls
    <2>2. current[proc[c]] = proc[c] /\ proc[c] \in Owner /\ copy[proc[c]] \in SUBSET Name
        BY <1>0, <2>1 DEF CallGoesOn, TypeInv, CallsRun, CopiesOwned, Stored, Owner
    <2>3. n \in copy[proc[c]]
        BY <1>0, <2>2, PluginDatabaseAssumption DEF Has
    <2>4. CASE S3Add(c) /\ name[c] \in copy[proc[c]]
        BY <1>0, <1>2, <2>1, <2>2, <2>4 DEF S3Add, Answer, TypeInv, TypeOK
    <2>5. CASE S3Add(c) /\ name[c] \notin copy[proc[c]]
        BY <1>3, <1>5, <2>1, <2>2, <2>3, <2>5 DEF S3Add
    <2>6. CASE S3Remove(c)
        <3>1. Changes(c, proc[c], copy[proc[c]] \ {name[c]}) /\ name[c] # n
            BY <2>2, <2>6 DEF S3Remove, Calls
        <3> QED
            BY <1>3, <1>5, <2>1, <2>2, <2>3, <3>1
    <2> QED
        BY <1>6, <2>4, <2>5, <2>6
<1>7. CASE GetTokenDb(c)
    BY <1>0, <1>2, <1>7 DEF GetTokenDb, TypeInv, TypeOK
<1>8. CASE TokensLoaded(c)
    <2>1. /\ plugin = "tokens" /\ n \in snap[c] /\ TokenChange(c, c, snap[c]) /\ list' = list
          /\ current' = [current EXCEPT ![proc[c]] = c] /\ pc[c] # "over"
        BY <1>8 DEF TokensLoaded, TypeInv, CallsRun, Has
    <2> QED
        BY <1>0, <1>4, <1>5, <2>1
<1>9. CASE TokensThere(c)
    <2>1. /\ plugin = "tokens" /\ TokenChange(c, current[proc[c]], copy[current[proc[c]]]) /\ list' = list
          /\ current' = current /\ pc[c] # "over" /\ current[proc[c]] \in Owner
        BY <1>0, <1>9 DEF TokensThere
    <2>2. n \in copy[current[proc[c]]] /\ copy[current[proc[c]]] \in SUBSET Name
        BY <1>0, <1>9, <2>1 DEF TokensThere, Has
    <2> QED
        BY <1>4, <1>5, <2>1, <2>2
<1>10. CASE Put(c)
    <2>1. n \in snap[c] /\ UNCHANGED <<current, copy>> /\ pc'[c] = "over" /\ list' \in {list, snap[c]}
        BY <1>10 DEF Put, Answer, Has, TypeInv, TypeOK
    <2> QED
        BY <1>2, <2>1
<1>11. CASE GoogleAdd(c) \/ GoogleGetEntities(c) \/ GoogleGet(c)
    <2>1. n \in list' /\ UNCHANGED <<current, copy>> /\ pc'[c] \notin {"read", "put"}
        BY <1>11 DEF GoogleAdd, GoogleGetEntities, GoogleGet, Reads, Answer, To, TypeInv, TypeOK
    <2> QED
        BY <1>2, <2>1
<1>12. CASE GoogleDeleteItem(c)
    <2>1. op[c] = "remove"
        BY <1>12 DEF GoogleDeleteItem, TypeInv, CallsRun
    <2>2. n \in list' /\ UNCHANGED <<current, copy>> /\ pc'[c] = "over"
        BY <1>12, <2>1 DEF GoogleDeleteItem, Answer, TypeInv, TypeOK
    <2> QED
        BY <1>2, <2>2
<1>13. ~MemoryAdd(c) /\ ~MemoryRemove(c)
    BY DEF MemoryAdd, MemoryRemove, Calls
<1> QED
    BY <1>6, <1>7, <1>8, <1>9, <1>10, <1>11, <1>12, <1>13 DEF Step


LEMMA NextLast == TypeInv /\ LastInv /\ [Next]_vars => LastInv'
<1> SUFFICES ASSUME TypeInv, AloneAtAll, Copied, Adding, Lasting, [Next]_vars PROVE Adding' /\ Lasting'
    BY NextAlone, NextCopied DEF LastInv
<1>0. alone \subseteq Call
    BY DEF TypeInv, TypeOK
\* What has been removed stays so.
<1>1. ASSUME NEW n, Removed(n), op' = op, name' = name, \A d \in Call : pc[d] # "called" => pc'[d] # "called"
      PROVE  Removed(n)'
    BY <1>1 DEF Removed
<1>2. ASSUME NEW p \in Process,
             \/ Start(p) \/ StartStep(p) \/ SecretStep(p)
             \/ Crash(p) \/ Signal(p) \/ SignalLogger(p) \/ Exit(p)
      PROVE  Adding' /\ Lasting'
    <2>1. /\ alone' \subseteq alone /\ op' = op /\ name' = name /\ plugin' = plugin
          /\ \A d \in Call : pc[d] # "called" => pc'[d] # "called"
          /\ \A d \in Call : told'[d] \in {"ok", "known"} => told[d] = told'[d]
        <3>1. CASE Start(p)
            BY <3>1 DEF Start, Same
        <3>2. CASE StartStep(p)
            BY <3>2 DEF StartStep, Same, callVars
        <3>3. CASE SecretStep(p)
            BY <3>3, SecretStepGoesOn DEF TypeInv, SecretGoesOn, callVars
        <3>4. CASE Signal(p)
            BY <3>4 DEF Signal, callVars
        <3>5. CASE Crash(p)
            BY <3>5 DEF Crash, Gone
        <3>6. CASE SignalLogger(p) \/ Exit(p)
            BY <3>6 DEF SignalLogger, Exit, Gone
        <3> QED
            BY <1>2, <3>1, <3>2, <3>3, <3>4, <3>5, <3>6
    <2>2. ASSUME NEW c \in alone', NEW n \in Name, op'[c] = "add", name'[c] = n, Counts(c)', plugin' # "memory"
          PROVE  Removed(n)' \/ (n \in list' /\ Has(n)')
        <3>1. c \in alone /\ c \in Call
            BY <1>0, <2>1
        <3>2. Removed(n) \/ (n \in list /\ Has(n))
            BY <2>1, <2>2, <3>1, AnswersStay DEF Lasting, Counts
        <3>3. CASE n \in list /\ Has(n)
            BY <1>2, <2>1, <2>2, <3>1, <3>3, ServerLasting
        <3> QED
            BY <1>1, <2>1, <3>2, <3>3
    <2>3. Adding'
        BY <1>2, ServerAdding
    <2> QED
        BY <2>2, <2>3 DEF Lasting

<1>3. ASSUME NEW c \in Call, Step(c) PROVE Adding' /\ Lasting'
    <2>1. CallGoesOn(c)
        BY <1>3, StepGoesOn
    <2>2. /\ alone' = alone /\ op' = op /\ name' = name /\ plugin' = plugin
          /\ \A d \in Call : pc[d] # "called" => pc'[d] # "called"
          /\ \A d \in Call : d # c => told'[d] = told[d]
        BY <2>1 DEF CallGoesOn, TypeInv, TypeOK
    <2>3. ASSUME NEW e \in alone', NEW n \in Name, op'[e] = "add", name'[e] = n, Counts(e)', plugin' # "memory"
          PROVE  Removed(n)' \/ (n \in list' /\ Has(n)')
        <3>1. e \in alone /\ e \in Call
            BY <1>0, <2>2
        <3>2. CASE told[e] = told'[e]
            <4>1. Removed(n) \/ (n \in list /\ Has(n))
                BY <2>2, <2>3, <3>1, <3>2, AnswersStay DEF Lasting, Counts
            <4>2. CASE Removed(n)
                BY <1>1, <2>2, <4>2
            <4>3. CASE n \in list /\ Has(n)
                <5>1. (op[c] = "remove" /\ name[c] = n /\ pc'[c] # "called") \/ (n \in list' /\ Has(n)')
                    BY <1>3, <2>2, <2>3, <4>3, CallLasting
                <5>2. CASE op[c] = "remove" /\ name[c] = n /\ pc'[c] # "called"
                    BY <2>2, <5>2 DEF Removed
                <5> QED
                    BY <5>1, <5>2
            <4> QED
                BY <4>1, <4>2, <4>3
        <3>3. CASE told[e] # told'[e]
            <4>1. e = c
                BY <2>2, <2>3, <3>1, <3>3
            <4>2. told'[c] = "ok" \/ (told'[c] = "known" /\ Orderly)
                BY <2>3, <4>1, AnswersStay DEF Counts
            <4>3. n \in list' /\ Has(n)'
                BY <1>3, <2>2, <2>3, <3>1, <4>1, <4>2, CallAdds
            <4> QED
                BY <4>3
        <3> QED
            BY <3>2, <3>3
    <2>4. Adding'
        BY <1>3, CallAdding
    <2> QED
        BY <2>3, <2>4 DEF Lasting
<1>4. ASSUME NEW p \in Process, NEW c \in Call, NEW o \in {"add", "remove", "get"},
             NEW n \in Name \cup {None}, Begin(c, p, o, n)
      PROVE  Adding' /\ Lasting'
    <2>1. /\ alone' \subseteq alone /\ pc' = [pc EXCEPT ![c] = "called"] /\ pc[c] = "idle"
          /\ UNCHANGED <<plugin, list, current, copy, snap, told>>
        BY <1>4 DEF Begin
    <2>2. \A d \in Call : d # c => op'[d] = op[d] /\ name'[d] = name[d]
        BY <1>4 DEF Begin, TypeInv, TypeOK
    <2>3. op[c] = "none" /\ told[c] = "nothing"
        BY <2>1 DEF TypeInv, CallsRun
    <2>4. ASSUME NEW m, Has(m) PROVE Has(m)'
        BY <2>1, <2>4 DEF Has, TypeInv, TypeOK
    <2>5. ASSUME NEW m, Removed(m) PROVE Removed(m)'
        BY <2>1, <2>2, <2>3, <2>5 DEF Removed, TypeInv, TypeOK
    <2>6. Adding'
        <3> SUFFICES ASSUME NEW e \in alone', pc'[e] = "put", op'[e] = "add" PROVE Has(name[e])'
            BY DEF Adding
        <3>1. e \in alone /\ e \in Call /\ e # c
            BY <1>0, <2>1 DEF TypeInv, TypeOK
        <3>2. PICK m : m = name[e] /\ Has(m)
            BY <2>1, <2>2, <3>1 DEF Adding
        <3> QED
            BY <2>2, <2>4, <3>1, <3>2
    <2>7. Lasting'
        <3> SUFFICES ASSUME NEW e \in alone', NEW m \in Name, op'[e] = "add", name'[e] = m, Counts(e)',
                            plugin' # "memory"
                     PROVE  Removed(m)' \/ (m \in list' /\ Has(m)')
            BY DEF Lasting
        <3>1. e \in alone /\ e \in Call /\ e # c
            BY <1>0, <2>1, <2>3 DEF Counts
        <3>2. Removed(m) \/ (m \in list /\ Has(m))
            BY <2>1, <2>2, <3>1, AnswersStay DEF Lasting, Counts
        <3> QED
            BY <2>1, <2>4, <2>5, <3>2
    <2> QED
        BY <2>6, <2>7
<1>5. CASE UNCHANGED vars
    BY <1>5 DEF vars, serverVars, startVars, callVars, Adding, Lasting, Removed, Has, Counts, Orderly
<1> QED
    BY <1>2, <1>3, <1>4, <1>5 DEF Next, Over

\* A name whose addition was answered is in the store, over crashes and restarts,
\* until it is removed; unless calls overlapped or servers shared the store, and
\* where S3 answered because its copy had the name, unless an addition had failed
\* before (aws-storage, gcp-storage and local-storage's token.ts).
THEOREM AddedStays == Spec => []AddsSurvive
<1>1. Init => LastInv
    BY DEF Init, StartInit, LastInv, AloneAtAll, Copied, Adding, Lasting, Counts, Busy
<1>2. TypeInv /\ LastInv => AddsSurvive
    <2> SUFFICES ASSUME TypeInv, LastInv, NEW c \in alone, op[c] = "add", Counts(c), plugin # "memory"
                 PROVE  name[c] \in list \/ Removed(name[c])
        BY DEF AddsSurvive, Removed, Counts
    <2>1. name[c] \in Name
        BY DEF TypeInv, TypeOK, CallsRun
    <2> QED
        BY <2>1 DEF LastInv, Lasting
<1> QED
    BY <1>1, <1>2, ServersTyped, NextLast, PTL DEF Spec
=============================================================================
