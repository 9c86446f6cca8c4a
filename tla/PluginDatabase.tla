--------------------------- MODULE PluginDatabase ---------------------------
(***************************************************************************)
(* What a server keeps besides the packages, in the plugins that keep it    *)
(* elsewhere: the list of private packages and the secret of the tokens, in *)
(* S3 (aws-storage/src/index.ts), in Google's Datastore (data-storage.ts)    *)
(* and in memory (local-memory.ts); and the tokens of local-storage          *)
(* (token.ts), a list of the same kind.  Several servers may share a store.  *)
(*                                                                          *)
(* A server starts as in ServerStart: Storage.init asks the store for the    *)
(* secret and puts it back.  S3 and the tokens keep a copy in memory that    *)
(* every change puts back whole: the copy of S3 is loaded with the secret,   *)
(* that of the tokens by the first call that needs it.                       *)
(***************************************************************************)
EXTENDS ServerStart

CONSTANTS
    Call, Name,
    Limit,          \* the packages that memory holds
    MaxFaults,      \* how often the store fails, or a server crashes
    Setups,         \* the plugins, and whether NODE_ENV is production
    None

\* Of "local" only the start is here: what it keeps is in LocalDatabase.
Plugins == {"s3", "google", "memory", "tokens", "local"}

ASSUME PluginDatabaseAssumption ==
    /\ Limit \in Nat /\ MaxFaults \in Nat
    /\ Setups \subseteq Plugins \X BOOLEAN
    /\ None \notin Process \cup Call \cup Name /\ Process \cap Call = {}

VARIABLES
    plugin,     \* which it is
    opens,      \* whether it can be made of what the configuration says of it
    production, \* NODE_ENV is production
    list,       \* the names in the store
    secret,     \* the secret in the store: who made it, or None
    own,        \* the secret that each server uses
    current,    \* whose copy a server uses: of its start or of a call, or None
    copy,       \* the copies
    pc, proc, op, name, \* the calls: where each stands, at which server, for what
    snap,       \* what a call has read or is about to put
    told,       \* its answer
    faults,
    alone,      \* history: calls that had the store for themselves
    rushed,     \* history: two servers made a secret at the same time
    known       \* history: the secrets that servers listened with

serverVars == <<opens, production, own, rushed, known, startVars>>
callVars == <<pc, proc, op, name, snap, told, alone>>
vars == <<plugin, list, secret, current, copy, faults, serverVars, callVars>>

Owner == Process \cup Call

\* The options of the plugin for Google.
GoogleOptions == [bucket : BOOLEAN, projectId : {"none", "text", "other"}]

\* _getGoogleOptions: the project has to be in the configuration, though the
\* environment may name one.
GetGoogleOptions(options) == IF options.projectId = "text" THEN "given" ELSE "throws"

\* The constructor.
GoogleCloudDatabase(options) == IF options.bucket THEN GetGoogleOptions(options) ELSE "throws"

TypeOK ==
    /\ StartTypeOK
    /\ <<plugin, production>> \in Setups /\ opens \in BOOLEAN /\ list \subseteq Name /\ secret \in Process \cup {None}
    /\ own \in [Process -> Process \cup {None}]
    /\ current \in [Process -> Owner \cup {None}] /\ copy \in [Owner -> SUBSET Name]
    /\ pc \in [Call -> {"idle", "called", "read", "put", "delete", "lost", "over"}]
    /\ proc \in [Call -> Process \cup {None}] /\ op \in [Call -> {"none", "add", "remove", "get"}]
    /\ name \in [Call -> Name \cup {None}] /\ snap \in [Call -> SUBSET Name]
    /\ told \in [Call -> {"nothing", "ok", "known", "error", "crashed", "cut"}]
    /\ faults \in 0..MaxFaults
    /\ alone \subseteq Call /\ rushed \in BOOLEAN /\ known \subseteq Process

\* Where the store is a plugin the configuration is there and whole.
Init ==
    /\ StartInit
    /\ \E s \in Setups : plugin = s[1] /\ production = s[2]
    /\ \E options \in GoogleOptions : opens = (plugin = "google" => GoogleCloudDatabase(options) = "given")
    /\ plugin # "local" => files[1] = "whole" /\ ~storagePath
    /\ list = {} /\ secret = None
    /\ own = [p \in Process |-> None]
    /\ current = [p \in Process |-> None]
    /\ copy = [o \in Owner |-> {}]
    /\ pc = [c \in Call |-> "idle"] /\ proc = [c \in Call |-> None] /\ op = [c \in Call |-> "none"]
    /\ name = [c \in Call |-> None] /\ snap = [c \in Call |-> {}] /\ told = [c \in Call |-> "nothing"]
    /\ faults = 0 /\ alone = Call /\ rushed = FALSE /\ known = {}

-----------------------------------------------------------------------------
(* A server starts, is told to close, and goes *)

Shared == plugin # "memory"

Same == UNCHANGED <<plugin, opens, production, list, secret, faults>>

Start(p) ==
    /\ Launch(p) /\ Same /\ UNCHANGED <<own, current, copy, rushed, known, pc, proc, op, name, snap, told>>
    /\ alone' = IF \E q \in Process : up[q] # "down" THEN {} ELSE alone

\* A start that is refused forgets what it has loaded.
Forgets(p) ==
    /\ own' = [own EXCEPT ![p] = None] /\ current' = [current EXCEPT ![p] = None]
    /\ copy' = [copy EXCEPT ![p] = {}]

Storing == {p \in Process : up[p] \in {"starting", "secret"}}

StartStep(p) ==
    /\ \/ FindConfigFile(p) \/ CreateConfigFile(p) \/ WriteConfigFile(p) \/ ParseConfigFile(p)
       \/ CheckConfig(p) \/ RefuseConfig(p) \/ LoadFilters(p) \/ DefineAPI(p) \/ RefusePlugin(p)
       \/ opens /\ LoadStorage(p)
       \/ ~opens /\ RefuseStorage(p)
       \/ CreateServer(p) \/ Listen(p)
    /\ IF up'[p] = "down" THEN Forgets(p) ELSE UNCHANGED <<own, current, copy>>
    /\ rushed' = (rushed \/ (up'[p] = "starting" /\ Storing # {}))
    /\ known' = IF up'[p] = "listening" THEN known \cup {own[p]} ELSE known
    /\ Same /\ UNCHANGED callVars

\* Mutant: every start makes a secret of its own.
SecretAnew(p) == p

\* checkSecretKey: the secret of the store, or a new one.
CheckSecret(p) == IF secret = None THEN p ELSE secret

\* getSecret has answered; a store that fails ends the start.
Asked(p) ==
    /\ Moves(p, "starting", "secret") /\ own' = [own EXCEPT ![p] = CheckSecret(p)]
    /\ UNCHANGED <<plugin, opens, list, secret, faults, production, files, given, at, read, starts,
                   spoiled, rushed, known, callVars>>

StoreFails(p) ==
    /\ Shared /\ faults < MaxFaults /\ faults' = faults + 1
    /\ \/ Moves(p, "starting", "down")
       \/ Moves(p, "secret", "down")
    /\ Forgets(p)
    /\ UNCHANGED <<plugin, opens, list, secret, production, files, given, at, read, starts,
                   spoiled, rushed, known, callVars>>

\* The copy of S3 is loaded with the secret.
S3GetSecret(p) ==
    /\ plugin = "s3" /\ Asked(p)
    /\ copy' = [copy EXCEPT ![p] = list] /\ current' = [current EXCEPT ![p] = p]

GoogleGetSecret(p) == plugin = "google" /\ Asked(p) /\ UNCHANGED <<copy, current>>

\* A server in memory finds nothing.
MemoryGetSecret(p) ==
    /\ plugin = "memory" /\ Asked(p)
    /\ copy' = [copy EXCEPT ![p] = {}] /\ current' = [current EXCEPT ![p] = p]

LocalGetSecret(p) == plugin \in {"tokens", "local"} /\ Asked(p) /\ UNCHANGED <<copy, current>>

\* setSecret stores it, whether it is new or not.
Stores(p) ==
    /\ Moves(p, "secret", "api") /\ secret' = own[p]
    /\ UNCHANGED <<plugin, opens, current, copy, faults, production, own, files, given, at, read, starts,
                   spoiled, rushed, known, callVars>>

\* S3 puts it with the list of the copy.
S3SetSecret(p) == plugin = "s3" /\ Stores(p) /\ list' = copy[p]

GoogleSetSecret(p) == plugin = "google" /\ Stores(p) /\ UNCHANGED list

MemorySetSecret(p) == plugin = "memory" /\ Stores(p) /\ UNCHANGED list

LocalSetSecret(p) == plugin \in {"tokens", "local"} /\ Stores(p) /\ UNCHANGED list

SecretStep(p) ==
    \/ S3GetSecret(p) \/ GoogleGetSecret(p) \/ MemoryGetSecret(p) \/ LocalGetSecret(p)
    \/ S3SetSecret(p) \/ GoogleSetSecret(p) \/ MemorySetSecret(p) \/ LocalSetSecret(p)
    \/ StoreFails(p)

Running(p) == {c \in Call : proc[c] = p /\ pc[c] \notin {"idle", "over"}}

\* The server is gone, with its copy and its calls; what a call was putting may
\* have been put.
Gone(p, x) ==
    /\ up' = [up EXCEPT ![p] = "down"]
    /\ current' = [current EXCEPT ![p] = None] /\ own' = [own EXCEPT ![p] = None]
    /\ told' = [c \in Call |-> IF c \in Running(p) THEN x ELSE told[c]]
    /\ pc' = [c \in Call |-> IF c \in Running(p) THEN "over" ELSE pc[c]]
    /\ list' \in {list} \cup {snap[c] : c \in {d \in Running(p) : pc[d] = "put"}}
    /\ copy' = [o \in Owner |-> IF o = current[p] THEN {} ELSE copy[o]]
    /\ snap' = [c \in Call |-> IF c \in Running(p) THEN {} ELSE snap[c]]
    /\ proc' = [c \in Call |-> IF c \in Running(p) THEN None ELSE proc[c]]
    /\ secret' = IF plugin = "memory" THEN None ELSE secret
    /\ UNCHANGED <<plugin, opens, production, files, given, at, read, starts, rushed, known, op, name, alone>>

Crash(p) ==
    /\ up[p] # "down" /\ faults < MaxFaults /\ faults' = faults + 1 /\ Gone(p, "crashed")
    /\ spoiled' = (spoiled \/ up[p] = "writing")

\* handleShutdownGracefully: close stops listening; a second signal finds it closed.
Signal(p) ==
    /\ up[p] = "listening" /\ up' = [up EXCEPT ![p] = "closing"]
    /\ UNCHANGED <<plugin, opens, production, list, secret, current, copy, faults, own, files, given, at, read,
                   starts, spoiled, rushed, known, callVars>>

\* In production the logger has handlers of its own, for all signals but SIGHUP,
\* that come first and end the process.
SignalLogger(p) ==
    production /\ up[p] \in {"listening", "closing"} /\ Gone(p, "cut") /\ UNCHANGED <<faults, spoiled>>

\* The callback of close ends the process: when the last connection is gone, or
\* at once when the server was closed already.  It does not wait for the calls:
\* a client that has left takes its connection with it, and its call is cut.
Exit(p) == up[p] = "closing" /\ Gone(p, "cut") /\ UNCHANGED <<faults, spoiled>>

-----------------------------------------------------------------------------
(* add, remove and get; saveToken and deleteToken *)

Begin(c, p, o, n) ==
    /\ pc[c] = "idle" /\ up[p] = "listening" /\ plugin # "local"
    /\ (o = "get" <=> n = None) /\ (o = "get" => plugin = "google")
    /\ pc' = [pc EXCEPT ![c] = "called"] /\ proc' = [proc EXCEPT ![c] = p]
    /\ op' = [op EXCEPT ![c] = o] /\ name' = [name EXCEPT ![c] = n]
    /\ alone' = IF \E q \in Process \ {p} : up[q] # "down" THEN alone \ {c}
                ELSE IF Running(p) = {} THEN alone ELSE alone \ (Running(p) \cup {c})
    /\ UNCHANGED <<plugin, list, secret, current, copy, faults, serverVars, snap, told>>

Answer(c, x) ==
    pc' = [pc EXCEPT ![c] = "over"] /\ proc' = [proc EXCEPT ![c] = None] /\ told' = [told EXCEPT ![c] = x]
To(c, next) == pc' = [pc EXCEPT ![c] = next] /\ UNCHANGED <<proc, told>>

Reads == UNCHANGED <<plugin, list, secret, current, copy, faults, serverVars, op, name, snap, alone>>
Held == UNCHANGED <<plugin, secret, serverVars, op, name, alone>>
Calls(c, p, o) == plugin = p /\ op[c] = o /\ pc[c] = "called"

\* The copy becomes new, and is to be put back as it is now.
Changes(c, o, new) ==
    copy' = [copy EXCEPT ![o] = new] /\ snap' = [snap EXCEPT ![c] = new] /\ To(c, "put")

\* Mutant: an addition is answered when the copy has it.
S3AddEarly(c) ==
    LET o == current[proc[c]] IN
    /\ Calls(c, "s3", "add")
    /\ copy' = [copy EXCEPT ![o] = @ \cup {name[c]}] /\ snap' = [snap EXCEPT ![c] = copy'[o]] /\ Answer(c, "ok")
    /\ Held /\ UNCHANGED <<list, current, faults>>

\* A name that the copy has is answered at once.
S3Add(c) ==
    LET o == current[proc[c]] IN
    /\ Calls(c, "s3", "add")
    /\ IF name[c] \in copy[o] THEN Answer(c, "known") /\ UNCHANGED <<copy, snap>>
       ELSE Changes(c, o, copy[o] \cup {name[c]})
    /\ Held /\ UNCHANGED <<list, current, faults>>

\* A removal puts also when there was nothing to remove.
S3Remove(c) ==
    LET o == current[proc[c]] IN
    /\ Calls(c, "s3", "remove") /\ Changes(c, o, copy[o] \ {name[c]})
    /\ Held /\ UNCHANGED <<list, current, faults>>

\* getTokenDb reads the file: every call that comes before the first has read.
GetTokenDb(c) ==
    /\ plugin = "tokens" /\ pc[c] = "called" /\ current[proc[c]] = None
    /\ snap' = [snap EXCEPT ![c] = list] /\ To(c, "read")
    /\ Held /\ UNCHANGED <<list, current, copy, faults>>

\* A token is not removed from a user that has none.
TokenChange(c, o, has) ==
    IF op[c] = "add" THEN Changes(c, o, has \cup {name[c]})
    ELSE IF has # {} THEN Changes(c, o, has \ {name[c]})
    ELSE Answer(c, "error") /\ copy' = [copy EXCEPT ![o] = has] /\ snap' = [snap EXCEPT ![c] = {}]

\* The copy of the last one that has read is used from then on.
TokensLoaded(c) ==
    /\ pc[c] = "read" /\ current' = [current EXCEPT ![proc[c]] = c]
    /\ TokenChange(c, c, snap[c])
    /\ Held /\ UNCHANGED <<list, faults>>

TokensThere(c) ==
    /\ plugin = "tokens" /\ pc[c] = "called" /\ current[proc[c]] # None
    /\ TokenChange(c, current[proc[c]], copy[current[proc[c]]])
    /\ Held /\ UNCHANGED <<list, current, faults>>

\* _sync and write: the store may fail, before or after.
Put(c) ==
    /\ pc[c] = "put"
    /\ \/ list' = snap[c] /\ Answer(c, "ok") /\ UNCHANGED faults
       \/ faults < MaxFaults /\ faults' = faults + 1 /\ list' \in {list, snap[c]} /\ Answer(c, "error")
    /\ snap' = [snap EXCEPT ![c] = {}]
    /\ Held /\ UNCHANGED <<current, copy>>

\* Datastore keeps an entity for each name.
GoogleAdd(c) ==
    /\ Calls(c, "google", "add")
    /\ \/ list' = list \cup {name[c]} /\ Answer(c, "ok") /\ UNCHANGED faults
       \/ faults < MaxFaults /\ faults' = faults + 1 /\ UNCHANGED list /\ Answer(c, "error")
    /\ Held /\ UNCHANGED <<current, copy, snap>>

\* A removal asks for all entities, which may fail, ...
GoogleGetEntities(c) ==
    /\ Calls(c, "google", "remove")
    /\ \/ (IF name[c] \in list THEN To(c, "delete") ELSE Answer(c, "ok")) /\ UNCHANGED faults
       \/ faults < MaxFaults /\ faults' = faults + 1 /\ Answer(c, "error")
    /\ Held /\ UNCHANGED <<list, current, copy, snap>>

\* ... and deletes one: a deletion that fails is returned to nobody.
GoogleDeleteItem(c) ==
    /\ pc[c] = "delete" /\ list' \in {list, list \ {name[c]}} /\ Answer(c, "ok")
    /\ Held /\ UNCHANGED <<current, copy, snap, faults>>

\* get, where it is more than a look at the copy.  Datastore's answer may be a failure, which
\* nobody passes on: the call is never answered.
GoogleGet(c) == Calls(c, "google", "get") /\ (Answer(c, "ok") \/ To(c, "lost")) /\ Reads

\* In memory: the limit is looked at first, whatever the name.
MemoryAdd(c) ==
    LET p == proc[c] IN
    /\ Calls(c, "memory", "add")
    /\ IF Cardinality(copy[p]) < Limit THEN copy' = [copy EXCEPT ![p] = @ \cup {name[c]}] /\ Answer(c, "ok")
       ELSE Answer(c, "error") /\ UNCHANGED copy
    /\ Held /\ UNCHANGED <<list, current, snap, faults>>

MemoryRemove(c) ==
    /\ Calls(c, "memory", "remove")
    /\ copy' = [copy EXCEPT ![proc[c]] = @ \ {name[c]}] /\ Answer(c, "ok")
    /\ Held /\ UNCHANGED <<list, current, snap, faults>>

-----------------------------------------------------------------------------
Step(c) ==
    \/ S3Add(c) \/ S3Remove(c) \/ GetTokenDb(c) \/ TokensLoaded(c) \/ TokensThere(c) \/ Put(c)
    \/ GoogleAdd(c) \/ GoogleGetEntities(c) \/ GoogleDeleteItem(c) \/ MemoryAdd(c) \/ MemoryRemove(c) \/ GoogleGet(c)

Over == (\A p \in Process : up[p] = "down") /\ starts = MaxStarts /\ UNCHANGED vars

Next ==
    \/ \E p \in Process :
        \/ Start(p) \/ StartStep(p) \/ SecretStep(p) \/ Crash(p) \/ Signal(p) \/ SignalLogger(p) \/ Exit(p)
        \/ \E c \in Call, o \in {"add", "remove", "get"}, n \in Name \cup {None} : Begin(c, p, o, n)
    \/ \E c \in Call : Step(c)
    \/ Over

Spec == Init /\ [][Next]_vars

-----------------------------------------------------------------------------
\* No calls overlapped so far, and no addition failed.
Orderly == alone = Call /\ ~\E d \in Call : op[d] = "add" /\ told[d] = "error"

\* A name whose addition was answered is in the store, over crashes and
\* restarts, until it is removed: unless calls overlapped, whose copies may be
\* put in any order or be of two first loads, or servers shared the store, each
\* with its own copy.  When the copy had the name and nothing was put, that
\* takes a history without failed additions too: after a put that failed, S3's
\* copy has a name that the store may not have.
AddsSurvive ==
    \A c \in alone :
        op[c] = "add" /\ (told[c] = "ok" \/ (told[c] = "known" /\ Orderly)) /\ plugin # "memory" =>
            \/ name[c] \in list
            \/ \E d \in Call : op[d] = "remove" /\ name[d] = name[c] /\ pc[d] # "called"

\* Servers that share a store listen with the same secret, now and after
\* restarts, unless two of them made it at the same time: a token of one is
\* understood by the others.
SecretShared == (Shared /\ ~rushed) => Cardinality(known) <= 1
=============================================================================
