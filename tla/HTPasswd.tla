------------------------------ MODULE HTPasswd ------------------------------
(***************************************************************************)
(* core/htpasswd/src/htpasswd.ts: the users of the registry, one line each  *)
(* in a password file that concurrent requests read and rewrite.  adduser   *)
(* and changePassword lock the file (core/file-locking), parse it, check    *)
(* the request again and write the whole file in place; authenticate reads  *)
(* it without the lock into the users the process keeps in memory.          *)
(*                                                                          *)
(* A password is named by the request that sets it, so that two requests    *)
(* never ask for the same one.  lastTime is left out: it compares two Date  *)
(* objects, which are never the same, so that reload always reads.          *)
(***************************************************************************)
EXTENDS Integers, FiniteSets, Sequences, FiniteSetsExt

CONSTANTS
    User,
    Adders,         \* requests that call adduser
    Changers,       \* requests that call changePassword
    Logins,         \* requests that call authenticate
    MaxUsers,       \* max_users
    First,          \* the password of the users the file begins with
    Broken,         \* a hash that was cut: no password matches it
    None, NoFile, NoLock, Orphan,
    MaxAccidents    \* bound: locks refused or stolen from a live request, failing
                    \* reads and writes, and crashes of the process

Writers == Adders \cup Changers
Req == Writers \cup Logins
Password == Writers \cup {First, Broken}

ASSUME RequestAssumption ==
    IsFiniteSet(Writers) /\ Adders \cap Changers = {} /\ Writers \cap Logins = {}
ASSUME MarkAssumption ==
    /\ None \notin Password \cup User /\ {First, Broken} \cap Writers = {}
    /\ NoLock # Orphan /\ {NoLock, Orphan} \cap Writers = {}
    /\ NoFile \notin Seq([user : User, password : Password])

VARIABLES
    file,       \* the lines of the password file, or NoFile
    users,      \* this.users
    lock,       \* the lock file: NoLock, Orphan or its request
    pc,         \* the progress of each request
    who,        \* the user each request is about
    old,        \* the old password a change of password comes with
    text,       \* the lines each request is writing
    seen,       \* the users a login has just read from the file
    due,        \* the passwords it may accept: the last one set, or one being set
    secret,     \* the last password answered with success, of each user
    bare,       \* the requests that found no file and hold no lock
    overtaken,  \* history: the logins under way when a change came into memory
    accidents

memory == <<users, seen, due>>
args == <<who, old>>
vars == <<file, lock, pc, text, secret, bare, overtaken, memory, args, accidents>>

Line == [user : User, password : Password]
Table == [User -> Password \cup {None}]
Nobody == [u \in User |-> None]

\* parseHTPasswd: of two lines of a user the later one counts.
Parse(lines) ==
    [u \in User |->
        LET at == {i \in DOMAIN lines : lines[i].user = u}
        IN  IF at = {} THEN None ELSE lines[Max(at)].password]

\* Mutant: what is in memory is not read again.
AssignKeeps(t, n) == [u \in User |-> IF t[u] = None THEN n[u] ELSE t[u]]

\* Object.assign(this.users, ...): who is not in the file stays.
Assign(t, n) == [u \in User |-> IF n[u] = None THEN t[u] ELSE n[u]]

Known(t) == {u \in User : t[u] # None}

\* sanityCheck: the user is new and there is room.
Sane(t, u) == t[u] = None /\ Cardinality(Known(t)) < MaxUsers

Step == {"idle", "asked", "missing", "locking", "reading", "open", "writing",
         "written", "committed", "failed", "seen", "done"}

TypeOK ==
    /\ file = NoFile \/ file \in Seq(Line)
    /\ users \in Table /\ secret \in Table
    /\ lock \in Writers \cup {NoLock, Orphan}
    /\ pc \in [Req -> Step]
    /\ who \in [Req -> User \cup {None}]
    /\ old \in [Changers -> Password \cup {None}]
    /\ DOMAIN text = Writers /\ \A w \in Writers : text[w] \in Seq(Line)
    /\ seen \in [Logins -> Table]
    /\ due \in [Logins -> SUBSET (Password \cup {None})]
    /\ bare \subseteq Writers /\ overtaken \subseteq Logins
    /\ accidents \in Nat

\* No file yet, or one that an administrator began.
Init ==
    /\ \/ file = NoFile
       \/ \E u \in User : file = <<[user |-> u, password |-> First]>>
    /\ users = Nobody /\ lock = NoLock
    /\ pc = [r \in Req |-> "idle"]
    /\ who = [r \in Req |-> None] /\ old = [c \in Changers |-> None]
    /\ text = [w \in Writers |-> <<>>]
    /\ seen = [l \in Logins |-> Nobody]
    /\ due = [l \in Logins |-> {}]
    /\ secret = IF file = NoFile THEN Nobody ELSE Parse(file)
    /\ bare = {} /\ overtaken = {}
    /\ accidents = 0

Goto(r, s) == pc' = [pc EXCEPT ![r] = s]

\* The request is answered; what it was about is forgotten.
Done(r) ==
    /\ Goto(r, "done")
    /\ who' = [who EXCEPT ![r] = None]
    /\ old' = [c \in Changers |-> IF c = r THEN None ELSE old[c]]

-----------------------------------------------------------------------------
(* adduser and changePassword *)

\* adduser: a first check against the users in memory, before the file is read.
AddUser(a, u) ==
    /\ pc[a] = "idle"
    /\ IF Sane(users, u)
       THEN Goto(a, "asked") /\ who' = [who EXCEPT ![a] = u]
       ELSE Goto(a, "done") /\ UNCHANGED who
    /\ UNCHANGED <<file, lock, text, secret, bare, memory, old, overtaken, accidents>>

ChangePassword(c, u, p) ==
    /\ pc[c] = "idle"
    /\ who' = [who EXCEPT ![c] = u] /\ old' = [old EXCEPT ![c] = p]
    /\ Goto(c, "asked")
    /\ UNCHANGED <<file, lock, text, secret, bare, memory, overtaken, accidents>>

\* lockFile stats the file: ENOENT comes back before any lock is taken.
Stat(w) ==
    /\ pc[w] = "asked"
    /\ Goto(w, IF file = NoFile THEN "missing" ELSE "locking")
    /\ UNCHANGED <<file, lock, text, secret, bare, memory, args, overtaken, accidents>>

\* The lock file is created, or replaces a stale one whose request is gone.
Acquire(w) ==
    /\ pc[w] = "locking"
    /\ lock \in {NoLock, Orphan}
    /\ lock' = w
    /\ Goto(w, "reading")
    /\ UNCHANGED <<file, text, secret, bare, memory, args, overtaken, accidents>>

\* The lock is stolen from a request that has held it for 5 minutes.
StealLive(w) ==
    /\ pc[w] = "locking" /\ lock \in Writers
    /\ accidents < MaxAccidents /\ accidents' = accidents + 1
    /\ lock' = w
    /\ Goto(w, "reading")
    /\ UNCHANGED <<file, text, secret, bare, memory, args, overtaken>>

\* The lock is refused; lockfile() resolves all the same.
GiveUp(w) ==
    /\ pc[w] = "locking"
    /\ accidents < MaxAccidents /\ accidents' = accidents + 1
    /\ Goto(w, "reading")
    /\ UNCHANGED <<file, lock, text, secret, bare, memory, args, overtaken>>

\* generateHtpasswdLine: the hash is of one password, whatever the algorithm.
GenerateHtpasswdLine(u, password) == [user |-> u, password |-> password]

\* verifyPassword.
VerifyPassword(password, hash) == password = hash /\ hash # Broken

\* The file with the new line of w.
Added(w, lines) == Append(lines, GenerateHtpasswdLine(who[w], w))

\* Every line of the user gets the new password.
Replaced(c, lines) ==
    [i \in DOMAIN lines |->
        IF lines[i].user = who[c] THEN GenerateHtpasswdLine(who[c], c) ELSE lines[i]]

\* Mutant: the old password is not verified.
AcceptsAny(w, lines) ==
    IF w \in Adders THEN Sane(Parse(lines), who[w]) ELSE Parse(lines)[who[w]] # None

\* addUserToHTPasswd after the second check; changePasswordToHTPasswd, which
\* throws at a line of the user that has another password.
Accepts(w, lines) ==
    IF w \in Adders
    THEN Sane(Parse(lines), who[w])
    ELSE /\ Parse(lines)[who[w]] # None
         /\ \A i \in DOMAIN lines : lines[i].user = who[w] => VerifyPassword(old[w], lines[i].password)

\* The callback of lockAndRead: the users in memory become those of the file.
Handle(w, lines) ==
    /\ users' = Parse(lines)
    /\ IF Accepts(w, lines)
       THEN /\ text' = [text EXCEPT ![w] = IF w \in Adders THEN Added(w, lines) ELSE Replaced(w, lines)]
            /\ Goto(w, "open")
       ELSE Goto(w, "failed") /\ UNCHANGED text
    /\ UNCHANGED <<file, lock, secret, seen, due, args, overtaken, accidents>>

\* Without a file nobody is known, and the request goes on without the lock.
Missing(w) ==
    /\ pc[w] = "missing"
    /\ bare' = bare \cup {w}
    /\ Handle(w, <<>>)

Read(w) ==
    /\ pc[w] = "reading"
    /\ Handle(w, file)
    /\ UNCHANGED bare

\* fs.readFile fails after the lock was taken: `locked` stays false and nobody
\* unlocks.
ReadFail(w) ==
    /\ pc[w] = "reading"
    /\ accidents < MaxAccidents /\ accidents' = accidents + 1
    /\ lock' = IF lock = w THEN Orphan ELSE lock
    /\ Done(w)
    /\ UNCHANGED <<file, text, secret, bare, memory, overtaken>>

\* Mutant: the lock is released before the file is written.
OpenUnlocks(w) ==
    /\ pc[w] = "open"
    /\ file' = <<>> /\ lock' = NoLock
    /\ Goto(w, "writing")
    /\ UNCHANGED <<text, secret, bare, memory, args, overtaken, accidents>>

\* fs.writeFile opens the password file itself, which truncates it ...
Open(w) ==
    /\ pc[w] = "open"
    /\ file' = <<>>
    /\ Goto(w, "writing")
    /\ UNCHANGED <<lock, text, secret, bare, memory, args, overtaken, accidents>>

\* The text over what another request wrote meanwhile: the rest of a longer
\* file stays, its first line perhaps cut.
Over(lines, rest) ==
    IF Len(rest) <= Len(lines) THEN {lines}
    ELSE {lines \o SubSeq(rest, i, Len(rest)) : i \in {Len(lines) + 1, Len(lines) + 2}}

\* ... and writes.
Write(w) ==
    /\ pc[w] = "writing"
    /\ file' \in Over(text[w], file)
    /\ text' = [text EXCEPT ![w] = <<>>]
    /\ Goto(w, "written")
    /\ UNCHANGED <<lock, secret, bare, memory, args, overtaken, accidents>>

\* The beginning of the text that a failing write leaves, its last line whole,
\* gone or cut in the middle of the hash.
Begun(lines) ==
    {SubSeq(lines, 1, k) : k \in 0 .. Len(lines)}
      \cup {Append(SubSeq(lines, 1, k - 1), [lines[k] EXCEPT !.password = Broken]) : k \in DOMAIN lines}

WriteFail(w) ==
    /\ pc[w] \in {"open", "writing"}
    /\ accidents < MaxAccidents /\ accidents' = accidents + 1
    /\ IF pc[w] = "open" THEN UNCHANGED file ELSE file' \in Begun(text[w])
    /\ text' = [text EXCEPT ![w] = <<>>]
    /\ Goto(w, "failed")
    /\ UNCHANGED <<lock, secret, bare, memory, args, overtaken>>

\* _writeFile ends with a reload, whose errors are dropped.  Its read and its
\* callback are one step: the lock keeps the file as it is in between.
Reload(w) ==
    /\ pc[w] = "written"
    /\ users' = Assign(users, Parse(file))
    /\ Goto(w, "committed")
    /\ overtaken' = overtaken \cup {l \in Logins : pc[l] = "seen"}
    /\ UNCHANGED <<file, lock, text, secret, bare, seen, due, args, accidents>>

\* cb: a request that locked the file unlocks it, whoever has the lock by now,
\* and is answered.
Answer(w) ==
    /\ pc[w] \in {"committed", "failed"}
    /\ lock' = IF w \in bare THEN lock ELSE NoLock
    /\ secret' = IF pc[w] = "committed" THEN [secret EXCEPT ![who[w]] = w] ELSE secret
    /\ Done(w)
    /\ UNCHANGED <<file, text, bare, memory, overtaken, accidents>>

-----------------------------------------------------------------------------
(* authenticate *)

\* reload: without a file the user is not known; else the file is read.
LoginRead(l, u) ==
    /\ pc[l] = "idle"
    /\ IF file = NoFile
       THEN Goto(l, "done") /\ UNCHANGED <<who, seen, due>>
       ELSE /\ Goto(l, "seen")
            /\ who' = [who EXCEPT ![l] = u]
            /\ seen' = [seen EXCEPT ![l] = Parse(file)]
            /\ due' = [due EXCEPT ![l] =
                          {secret[u]} \cup {w \in Writers : who[w] \in {u, None} /\ pc[w] # "done"}]
    /\ UNCHANGED <<file, lock, text, secret, bare, users, old, overtaken, accidents>>

LoginDone(l) ==
    /\ seen' = [seen EXCEPT ![l] = Nobody]
    /\ due' = [due EXCEPT ![l] = {}]
    /\ Done(l)

\* The users that were read join those in memory, and the password is compared
\* with the one that the user then has.
LoginEnd(l) ==
    /\ pc[l] = "seen"
    /\ users' = Assign(users, seen[l])
    /\ LoginDone(l)
    /\ UNCHANGED <<file, lock, text, secret, bare, overtaken, accidents>>

-----------------------------------------------------------------------------
\* The process is killed: nobody is in memory, the file is as it was.
Crash ==
    /\ accidents < MaxAccidents /\ accidents' = accidents + 1
    /\ pc' = [r \in Req |-> IF pc[r] = "idle" THEN "idle" ELSE "done"]
    /\ users' = Nobody
    /\ lock' = IF lock = NoLock THEN NoLock ELSE Orphan
    /\ text' = [w \in Writers |-> <<>>]
    /\ seen' = [l \in Logins |-> Nobody] /\ due' = [l \in Logins |-> {}]
    /\ who' = [r \in Req |-> None] /\ old' = [c \in Changers |-> None]
    /\ UNCHANGED <<file, secret, bare, overtaken>>

\* Every request was answered.
Finished == (\A r \in Req : pc[r] = "done") /\ UNCHANGED vars

Update(w) ==
    \/ Stat(w) \/ Acquire(w) \/ StealLive(w) \/ GiveUp(w) \/ Missing(w) \/ Read(w) \/ ReadFail(w)
    \/ Open(w) \/ Write(w) \/ WriteFail(w) \/ Reload(w) \/ Answer(w)

Next ==
    \/ \E a \in Adders, u \in User : AddUser(a, u)
    \/ \E c \in Changers, u \in User : \E p \in (Writers \ {c}) \cup {First} : ChangePassword(c, u, p)
    \/ \E w \in Writers : Update(w)
    \/ \E l \in Logins : (\E u \in User : LoginRead(l, u)) \/ LoginEnd(l)
    \/ Crash
    \/ Finished

Spec == Init /\ [][Next]_vars

-----------------------------------------------------------------------------
\* Every request that wrote had the lock, and nothing failed.
Regular == accidents = 0 /\ bare = {}

\* When nobody is writing, the file has the password of every user whose
\* request was answered with success, or one that is about to be answered.
RegisteredKept ==
    Regular /\ (\A w \in Writers : pc[w] # "writing") =>
        \A u \in User : secret[u] # None =>
            Parse(file)[u] \in {secret[u]} \cup {w \in Writers : pc[w] \in {"written", "committed"}}

\* A registered user gets another password only from a request that knew the
\* one in force, however many requests registered or changed it at once.
OnlyByOwner ==
    [][Regular => \A u \in User :
          secret[u] # None /\ secret'[u] # secret[u] =>
              secret'[u] \in Changers /\ old[secret'[u]] = secret[u]]_vars

\* A login ends with the password that the user has in memory.
Ends(l) == pc[l] = "seen" /\ pc'[l] = "done"

\* A login accepts the password in force or one that was being set, however many
\* requests write and log in at once.  Only a login that found no line of its
\* user, because a change was rewriting the file, depends on what others left in
\* memory: one that a change has overtaken puts the former password back there,
\* and is not to have ended before.
LoginCurrent ==
    [][\A l \in Logins :
          /\ Regular' /\ Ends(l)
          /\ (seen[l][who[l]] = None => \A m \in overtaken : pc[m] # "done")
          => users'[who[l]] \in due[l]]_vars
=============================================================================
