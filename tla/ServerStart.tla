---------------------------- MODULE ServerStart ----------------------------
(***************************************************************************)
(* The start of a server, from cli/src/commands/init.ts to the callback of  *)
(* listen (node-api/src/server.ts): the configuration file is looked for or *)
(* created (config-path.ts) and parsed, the configuration is checked, the   *)
(* plugins are loaded (plugin-loader.ts), the storage is initialised, the   *)
(* application is built (server.ts) and bound to its address.  Up to the    *)
(* plugins all is synchronous; other processes run in between.              *)
(*                                                                          *)
(* What a configuration file says is what becomes of a start that reads it. *)
(***************************************************************************)
EXTENDS Naturals, Sequences, FiniteSets

CONSTANTS
    Process,
    XdgFolder,  \* $XDG_CONFIG_HOME or $HOME/.config is a folder
    WinFolder,  \* %APPDATA% is one
    MaxStarts   \* how often a server starts

ASSUME ServerStartAssumption == XdgFolder \in BOOLEAN /\ WinFolder \in BOOLEAN /\ MaxStarts \in Nat

\* getConfigPaths: where a configuration may be, in this order.
ConfigPaths ==
    (IF XdgFolder THEN <<"xdg">> ELSE <<>>) \o (IF WinFolder THEN <<"windows">> ELSE <<>>)
    \o <<"relative", "old">>

Place == 1..Len(ConfigPaths)

VARIABLES
    files,      \* the configuration file at each place
    storagePath, \* VERDACCIO_STORAGE_PATH is set
    loads,      \* the kinds of plugins that can be loaded: filter, auth
    up,         \* where the start of each process stands
    at, read,   \* the place that a process has found, and what it has read there
    starts,
    spoiled     \* history: two processes looked for a configuration at the same
                \* time, or one died while it was creating it

given == <<storagePath, loads>>
startVars == <<files, given, up, at, read, starts, spoiled>>

\* A content other than "empty" and "whole" is named for what is wrong with it;
\* one with "plugins" is as good as they are.
Content == {"absent", "empty", "whole", "plugins", "syntax", "uplinks", "address", "https"}

Kinds == {"filter", "auth"}

Looking == {"finding", "creating", "writing", "parsing"}
Stages == Looking \cup {"down", "checking", "loading", "opening", "starting", "secret", "api", "serving",
                        "binding", "listening", "closing"}

StartTypeOK ==
    /\ files \in [Place -> Content] /\ storagePath \in BOOLEAN /\ loads \subseteq Kinds
    /\ up \in [Process -> Stages] /\ at \in [Process -> Place \cup {0}]
    /\ read \in [Process -> Content] /\ starts \in 0..MaxStarts /\ spoiled \in BOOLEAN

-----------------------------------------------------------------------------
(* loadPlugin *)

\* What may be at a path: nothing, a module that needs another one that is not
\* there, one that throws, one that is no plugin, or a plugin.
Module == {"absent", "lacking", "throwing", "other", "plugin"}

\* tryLoad: what was not found may as well be what the module needs.
TryLoad(module) == IF module \in {"absent", "lacking"} THEN "null" ELSE module

\* The local plugins, the folder for plugins and the packages of node, there with
\* the prefix of verdaccio before that of sinopia: the first one that is there.
LoadPlugin(modules) ==
    LET there == {i \in DOMAIN modules : TryLoad(modules[i]) # "null"} IN
    IF there # {} /\ modules[CHOOSE i \in there : \A j \in there : i <= j] = "plugin"
    THEN "loaded" ELSE "throws"

Paths == 1..2

-----------------------------------------------------------------------------
(* The address *)

\* parseAddress: a port, perhaps with a host and a protocol, or a socket.
ParseAddress(text) ==
    CASE text \in {"port", "host", "url"} -> {[proto |-> "http", on |-> "port"]}
      [] text = "https"                  -> {[proto |-> "https", on |-> "port"]}
      [] text = "unix"                   -> {[proto |-> "http", on |-> "path"]}
      [] OTHER                           -> {}

\* getListListenAddresses: the argument of the command, the configuration or the
\* default; what is no address is left out.
GetListListenAddresses(argument, listen) ==
    LET texts == IF argument # {} THEN argument ELSE IF listen # {} THEN listen ELSE {"port"}
    IN  UNION {ParseAddress(x) : x \in texts}

\* What the configuration says of it.
Listens(content) ==
    CASE content = "address" -> {"nonsense"}
      [] content = "https"   -> {"https"}
      [] content = "empty"   -> {}
      [] OTHER               -> {"host"}

\* createServerFactory: without an address there is an exception, and https needs
\* its files.
Factory(addresses) == IF \E a \in addresses : a.proto = "http" THEN "created" ELSE "throws"

-----------------------------------------------------------------------------
StartInit ==
    /\ files \in [Place -> Content \ {"empty"}] /\ storagePath \in BOOLEAN
    /\ \E modules \in [Kinds -> [Paths -> Module]] : loads = {k \in Kinds : LoadPlugin(modules[k]) = "loaded"}
    /\ loads = Kinds \/ \E i \in Place : files[i] = "plugins"
    /\ Cardinality({i \in Place : files[i] # "absent"}) <= 1
    /\ up = [p \in Process |-> "down"] /\ at = [p \in Process |-> 0]
    /\ read = [p \in Process |-> "absent"] /\ starts = 0 /\ spoiled = FALSE

Moves(p, from, stage) == up[p] = from /\ up' = [up EXCEPT ![p] = stage]

-----------------------------------------------------------------------------
Launch(p) ==
    /\ starts < MaxStarts /\ starts' = starts + 1 /\ Moves(p, "down", "finding")
    /\ spoiled' = (spoiled \/ \E q \in Process : up[q] \in Looking)
    /\ UNCHANGED <<files, given, at, read>>

\* findConfigFile: the first place where there is a file, or a new one at the
\* first place.
FindConfigFile(p) ==
    LET there == {i \in Place : files[i] # "absent"} IN
    /\ up[p] = "finding"
    /\ IF there = {} THEN Moves(p, "finding", "creating") /\ at' = [at EXCEPT ![p] = 1]
       ELSE /\ Moves(p, "finding", "parsing")
            /\ at' = [at EXCEPT ![p] = CHOOSE i \in there : \A j \in there : i <= j]
    /\ UNCHANGED <<files, given, read, starts, spoiled>>

\* Mutant: the file is written while the start goes on.
CreateConfigFileAsync(p) ==
    /\ Moves(p, "creating", "parsing") /\ files' = [files EXCEPT ![at[p]] = "empty"]
    /\ UNCHANGED <<given, at, read, starts, spoiled>>

\* createConfigFile: writeFileSync opens the file, that is empty then, ...
CreateConfigFile(p) ==
    /\ Moves(p, "creating", "writing") /\ files' = [files EXCEPT ![at[p]] = "empty"]
    /\ UNCHANGED <<given, at, read, starts, spoiled>>

\* ... and writes the default configuration.
WriteConfigFile(p) ==
    /\ Moves(p, "writing", "parsing") /\ files' = [files EXCEPT ![at[p]] = "whole"]
    /\ UNCHANGED <<given, at, read, starts, spoiled>>

\* parseConfigFile: an empty file is a configuration that says nothing; one that
\* is no YAML ends the process.
ParseConfigFile(p) ==
    /\ Moves(p, "parsing", IF files[at[p]] = "syntax" THEN "down" ELSE "checking")
    /\ read' = [read EXCEPT ![p] = files[at[p]]]
    /\ UNCHANGED <<files, given, at, starts, spoiled>>

\* The constructor of Config: a name of an uplink that is reserved or twice
\* there, an uplink without a url or a bad list of groups is refused.
CheckConfig(p) ==
    /\ read[p] # "uplinks" /\ Moves(p, "checking", "loading")
    /\ UNCHANGED <<files, given, at, read, starts, spoiled>>

RefuseConfig(p) ==
    /\ read[p] = "uplinks" /\ Moves(p, "checking", "down")
    /\ UNCHANGED <<files, given, at, read, starts, spoiled>>

Usable(p, kind) == read[p] = "plugins" => kind \in loads

\* The plugins that filter are loaded before the storage, ...
LoadFilters(p) ==
    /\ Usable(p, "filter") /\ Moves(p, "loading", "opening")
    /\ UNCHANGED <<files, given, at, read, starts, spoiled>>

\* ... those that authenticate and the middlewares after it (defineAPI).
DefineAPI(p) ==
    /\ Usable(p, "auth") /\ Moves(p, "api", "serving")
    /\ UNCHANGED <<files, given, at, read, starts, spoiled>>

\* loadPlugin throws when a plugin is nowhere, or is none.  As all that server()
\* throws, that is inside the promise of initServer: it never settles, and the
\* process ends for want of anything to do, or by the handler of the rejection.
RefusePlugin(p) ==
    /\ \/ Moves(p, "loading", "down") /\ ~Usable(p, "filter")
       \/ Moves(p, "api", "down") /\ ~Usable(p, "auth")
    /\ UNCHANGED <<files, given, at, read, starts, spoiled>>

\* _loadStorage: a configuration without a store needs a storage, its own or that
\* of the environment.
LoadStorage(p) ==
    /\ Moves(p, "opening", IF read[p] = "empty" /\ ~storagePath THEN "down" ELSE "starting")
    /\ UNCHANGED <<files, given, at, read, starts, spoiled>>

\* The constructor of a plugin that keeps the packages may throw as well.
RefuseStorage(p) ==
    /\ Moves(p, "opening", "down")
    /\ UNCHANGED <<files, given, at, read, starts, spoiled>>

\* initServer: the address may be an argument of the command as well.
CreateServer(p) ==
    /\ \E argument \in {{}, {"port"}} :
          Moves(p, "serving",
                IF Factory(GetListListenAddresses(argument, Listens(read[p]))) = "throws" THEN "down" ELSE "binding")
    /\ UNCHANGED <<files, given, at, read, starts, spoiled>>

\* listen: the event "error", when another server has the address, rejects the
\* promise, and the command ends the process.
Listen(p) ==
    /\ \/ Moves(p, "binding", "listening")
       \/ Moves(p, "binding", "down") /\ \E q \in Process : up[q] \in {"listening", "closing"}
    /\ UNCHANGED <<files, given, at, read, starts, spoiled>>

-----------------------------------------------------------------------------
\* Unless two starts looked for the configuration at once, or one died while it
\* was creating the file, a server that listens has not read an empty one, also
\* when its own start created it.  The two exceptions do leave an empty file to
\* be read, with which a server still starts where the environment names the
\* storage: the property says that nothing else does.
ConfigWhole == \A p \in Process : up[p] \in {"listening", "closing"} => read[p] # "empty" \/ spoiled
=============================================================================
