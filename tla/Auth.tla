-------------------------------- MODULE Auth --------------------------------
(***************************************************************************)
(* auth/src/auth.ts between the middlewares (Middleware) and the rules of   *)
(* the packages (PackageAccess): who a request is taken for, and whether it *)
(* passes.  Auth asks the plugins of the configuration one after the other, *)
(* and a plugin of its own at last, through callbacks; plugins/auth-memory  *)
(* and plugins/active-directory are two of them, "custom" is any plugin     *)
(* that answers as it likes.                                                *)
(*                                                                          *)
(* A chain of callbacks under way is a job: the method, the plugin that is  *)
(* asked, and where the chain began.  Tokens carry what they stand for.     *)
(***************************************************************************)
EXTENDS Middleware, PackageAccess, Integers, FiniteSets, SequencesExt

CONSTANTS
    User, Password,
    DirUser, DirPassword,   \* the user that the directory knows
    MaxUsers,               \* max_users of auth-memory
    MaxOthers,              \* how many requests are no logins
    Chains,                 \* the lists of plugins that are configured
    PackageLists,           \* what the configuration may say of the packages
    NoUser, None

ASSUME AuthAssumption ==
    /\ DirUser \in User /\ DirPassword \in Password /\ NoUser \notin User
    /\ Chains \subseteq Seq({"memory", "directory", "custom"})
    /\ Group = {"all", "authenticated", "anonymous", "staff"} \cup User
    /\ Request \subseteq Nat
    /\ PackageLists \subseteq Seq(Written)
    /\ Package # {}

VARIABLES
    plugins,    \* of the configuration, in order
    legacy,     \* isAESLegacy: tokens are read as those that hold the password
    signs,      \* signed tokens are given out
    packages,   \* of the configuration, as they are written
    users,      \* auth-memory: the password of each user, or None
    tokens,     \* the tokens that were given out
    kind, pkg, cred, \* what each request wants, of which package, and the
                \* authorization it brings
    jobs,       \* the chains of callbacks under way
    remote,     \* remote_user of each request
    valid,      \* history: requests whose password was right at some time since
    granted     \* history: requests that the custom plugin let pass

config == <<plugins, legacy, signs, packages>>
request == <<kind, pkg, cred>>
vars == <<config, users, tokens, request, jobs, remote, httpVars, valid, granted>>

Kinds == {"adduser", "access", "publish", "unpublish", "web", "audit"}
Methods == {"authenticate", "adduser", "allow_access", "allow_publish", "allow_unpublish"}
Job == [method : Methods, at : Nat \ {0}, from : {"route", "bound", "custom", "default"}]

\* What a request may bring: nothing, a header that is none, a password (Basic),
\* or a token (Bearer).
Basic == [type : {"basic"}, user : User, password : Password]
Token == [type : {"aes"}, user : User, password : Password]
         \cup [type : {"jwt"}, user : User, groups : SUBSET {"staff"}]
Nothing == [type |-> "nothing"]
Garbled == [type |-> "garbled"]

\* security.api of the configuration: "legacy", and "jwt", perhaps with "sign".
Security == [legacy : BOOLEAN, jwt : {"none", "verify", "sign"}]

IsAESLegacy(security) == security.legacy /\ security.jwt = "none"

\* createRemoteUser, createAnonymousRemoteUser.
RemoteUser(u, groups) == [name |-> u, groups |-> groups \cup {"all", "authenticated"}]
Anonymous == [name |-> NoUser, groups |-> {"all", "anonymous"}]

TypeOK ==
    /\ plugins \in Chains /\ legacy \in BOOLEAN /\ signs \in BOOLEAN /\ packages \in PackageLists
    /\ users \in [User -> Password \cup {None}]
    /\ tokens \subseteq Token
    /\ kind \in [Request -> Kinds \cup {"none"}] /\ pkg \in [Request -> Package]
    /\ cred \in [Request -> Basic \cup Token \cup {Nothing, Garbled}]
    /\ jobs \in [Request -> SUBSET Job]
    /\ remote \in [Request -> [name : User \cup {NoUser}, groups : SUBSET Group]]
    /\ HttpTypeOK
    /\ valid \subseteq Request /\ granted \subseteq Request

\* getDefaultPlugins is always the last.
Chain == Append(plugins, "default")

Implements ==
    [authenticate    |-> {"memory", "directory", "default"},
     adduser         |-> {"memory", "default"},
     allow_access    |-> {"memory", "custom", "default"},
     allow_publish   |-> {"memory", "custom", "default"},
     allow_unpublish |-> {"custom", "default"}]

Init ==
    /\ plugins \in Chains
    /\ \E security \in Security : legacy = IsAESLegacy(security) /\ signs = (security.jwt = "sign")
    /\ packages \in PackageLists
    /\ users = [u \in User |-> None] /\ tokens = {}
    /\ kind = [r \in Request |-> "none"] /\ pkg = [r \in Request |-> CHOOSE p \in Package : TRUE] /\ cred = [r \in Request |-> Nothing]
    /\ jobs = [r \in Request |-> {}] /\ remote = [r \in Request |-> Anonymous]
    /\ HttpInit
    /\ valid = {} /\ granted = {}

-----------------------------------------------------------------------------
(* Chains of callbacks *)

Job1(m) == [method |-> m, at |-> 1, from |-> "route"]
Becomes(r, j, k) == jobs' = [jobs EXCEPT ![r] = (@ \ {j}) \cup {k}]
Ends(r, j) == jobs' = [jobs EXCEPT ![r] = @ \ {j}]
Plugin(j) == Chain[j.at]

\* The next plugin that has the method: the last one has them all.
Onward(r, j) == Becomes(r, j, [j EXCEPT !.at = @ + 1, !.from = IF @ = "bound" THEN "route" ELSE @])

\* A login is answered by its handler.
LoggedIn(r) == stage' = [stage EXCEPT ![r] = "served"] /\ Final(r, "ok")
Refused(r) == HandleError(r)

\* A password that is right now.
Right(us, u, p) == us[u] = p \/ (u = DirUser /\ p = DirPassword /\ "directory" \in ToSet(plugins))
Password1(c) == c.type \in {"basic", "aes"}
Witness(us) == valid' = valid \cup {r \in Request : Password1(cred[r]) /\ Right(us, cred[r].user, cred[r].password)}

\* The middlewares are through: "allow" asks Auth, a login has a user to add.
\* Every plugin is asked about an unpublish, at once.
JobsOf(k) ==
    CASE k \in {"access", "web"} -> {Job1("allow_access")}
      [] k = "publish"           -> {Job1("allow_publish")}
      [] k = "adduser"           -> {Job1("adduser")}
      [] k = "unpublish"         ->
            {[method |-> "allow_unpublish", at |-> i, from |-> Chain[i]] :
                i \in {n \in 1..Len(Chain) : Chain[n] \in Implements.allow_unpublish}}
      [] OTHER                   -> {}

\* "told" is what the request was answered already.
Onto(r, u, told) ==
    \E x \in (IF kind[r] = "web" THEN WebBeforeAllow ELSE BeforeAllow) :
        LET on == x = "next" IN
        /\ remote' = [remote EXCEPT ![r] = u]
        /\ jobs' = [jobs EXCEPT ![r] = IF on THEN JobsOf(kind[r]) ELSE {}]
        /\ stage' = [stage EXCEPT ![r] = IF on THEN "allow" ELSE "over"]
        /\ response' = [response EXCEPT ![r] = IF told = "none" /\ ~on THEN "error" ELSE told]

Route(r, u) == Onto(r, u, "none")

-----------------------------------------------------------------------------
(* apiJWTmiddleware and webUIJWTmiddleware *)

\* A token that is signed and has not expired is taken at its word; any other
\* makes an anonymous user.  The web interface does so also with one that
\* verifyJWTPayload throws for.
Signed(r, c) ==
    \/ (c.type = "jwt" /\ Route(r, RemoteUser(c.user, c.groups \cup {c.user})))
    \/ Route(r, Anonymous)

\* verifyJWTPayload throws what is wrong otherwise, as with a token that is not
\* valid yet: the middleware throws it on, and the client is told.
NotYet(r, c) ==
    /\ c.type = "jwt" /\ HandleError(r)
    /\ remote' = [remote EXCEPT ![r] = Anonymous] /\ UNCHANGED jobs

\* A request arrives.  A login brings the name and the password in its body.
Arrive(r, k, p, c) ==
    /\ kind[r] = "none" /\ (\A q \in Request : q < r => kind[q] # "none")
    /\ k # "adduser" => Cardinality({q \in Request : kind[q] \notin {"none", "adduser"}}) < MaxOthers
    /\ kind' = [kind EXCEPT ![r] = k] /\ stage' = [stage EXCEPT ![r] = "identity"] /\ cred' = [cred EXCEPT ![r] = c]
    /\ pkg' = [pkg EXCEPT ![r] = p]
    /\ k = "adduser" => c.type = "basic" /\ p = pkg[r]
    /\ k = "web" => c.type # "basic"
    /\ k = "audit" => c.type = "nothing" /\ p = pkg[r]
    /\ c.type \in {"aes", "jwt"} => c \in tokens
    /\ jobs' = [jobs EXCEPT ![r] = IF k = "adduser" THEN {Job1("adduser")} ELSE {}]
    /\ valid' = IF Password1(c) /\ Right(users, c.user, c.password) THEN valid \cup {r} ELSE valid
    /\ UNCHANGED <<config, users, tokens, remote, response, granted>>

Entering(r) == kind[r] # "adduser" /\ stage[r] = "identity" /\ jobs[r] = {}

\* apiJWTmiddleware: a header that is not understood leaves an anonymous user.
\* A password is proved by the plugins: also that in a token of the old kind.
Enter(r) ==
    LET c == cred[r] IN
    /\ Entering(r) /\ kind[r] \in {"access", "publish", "unpublish"}
    /\ CASE c.type \in {"nothing", "garbled"}               -> Route(r, Anonymous)
         [] c.type = "basic" \/ (legacy /\ c.type = "aes") ->
                jobs' = [jobs EXCEPT ![r] = {Job1("authenticate")}] /\ UNCHANGED <<remote, httpVars>>
         [] OTHER -> IF legacy THEN Route(r, Anonymous) ELSE Signed(r, c) \/ NotYet(r, c)
    /\ UNCHANGED <<config, users, tokens, request, valid, granted>>

\* webUIJWTmiddleware.  A header that is not understood is answered, and the
\* request goes on all the same.
EnterWeb(r) ==
    LET c == cred[r] IN
    /\ Entering(r) /\ kind[r] = "web"
    /\ CASE c.type = "nothing" -> Route(r, Anonymous)
         [] c.type = "garbled" -> Onto(r, Anonymous, "error")
         [] OTHER              -> Signed(r, c)
    /\ UNCHANGED <<config, users, tokens, request, valid, granted>>

\* plugins/audit: its routes come before those that ask who somebody is.  When it
\* is enabled it passes the request on to the public registry, which answers,
\* refuses, answers what is no JSON, or is out of reach.
AuditAnswers(enabled) == IF enabled THEN {"ok", "error"} ELSE {"error"}

Audit(r) ==
    /\ Entering(r) /\ kind[r] = "audit"
    /\ \E enabled \in BOOLEAN : \E x \in AuditAnswers(enabled) : response' = [response EXCEPT ![r] = x]
    /\ stage' = [stage EXCEPT ![r] = "over"]
    /\ UNCHANGED <<config, users, tokens, request, jobs, remote, valid, granted>>

-----------------------------------------------------------------------------
(* authenticate, add_user, changePassword *)

\* A plugin without the method is passed over.
PassOver(r, j) ==
    /\ j.method # "allow_unpublish" /\ Plugin(j) \notin Implements[j.method]
    /\ Onward(r, j)
    /\ UNCHANGED <<config, users, tokens, request, remote, httpVars, valid, granted>>

\* jwtEncrypt: what a signed token stands for.
JwtEncrypt(u, groups) == [type |-> "jwt", user |-> u, groups |-> groups \ {u}]

\* getApiToken: without "sign" the token holds the password, though it is not
\* read like that where there is "jwt".
GetApiToken(u, password, groups) ==
    IF signs THEN JwtEncrypt(u, groups) ELSE [type |-> "aes", user |-> u, password |-> password]

\* Authenticated: a login gets its token, another request goes on.
Authenticated(r, j, groups) ==
    LET c == cred[r] IN
    IF kind[r] = "adduser"
    THEN /\ tokens' = tokens \cup {GetApiToken(c.user, c.password, groups)}
         /\ Ends(r, j) /\ LoggedIn(r) /\ UNCHANGED remote
    ELSE Route(r, RemoteUser(c.user, groups)) /\ UNCHANGED tokens

\* Mutant: the request goes on as the user it named.
RejectedNamed(r, j) ==
    IF kind[r] = "adduser" THEN Ends(r, j) /\ Refused(r) /\ UNCHANGED remote
    ELSE Route(r, RemoteUser(cred[r].user, {}))

\* Refused: a login fails, another request goes on as nobody.
Rejected(r, j) ==
    IF kind[r] = "adduser" THEN Ends(r, j) /\ Refused(r) /\ UNCHANGED remote
    ELSE Route(r, Anonymous)

Asked(r, j, m, p) == j \in jobs[r] /\ j.method = m /\ Plugin(j) = p

\* auth-memory: a user it does not know is left to the others.
MemoryAuthenticate(r, j) ==
    /\ Asked(r, j, "authenticate", "memory")
    /\ CASE users[cred[r].user] = None             -> Onward(r, j) /\ UNCHANGED <<tokens, remote, httpVars>>
         [] users[cred[r].user] = cred[r].password -> Authenticated(r, j, {cred[r].user})
         [] OTHER                                  -> Rejected(r, j) /\ UNCHANGED tokens
    /\ UNCHANGED <<config, users, request, valid, granted>>

\* active-directory: the directory refuses, fails, or proves the user; a group
\* that is required is asked for then.
DirectoryBind(r, j) ==
    /\ Asked(r, j, "authenticate", "directory") /\ j.from = "route"
    /\ \/ Rejected(r, j) /\ UNCHANGED tokens
       \/ /\ cred[r].user = DirUser /\ cred[r].password = DirPassword
          /\ \/ Authenticated(r, j, {cred[r].user})
             \/ Becomes(r, j, [j EXCEPT !.from = "bound"]) /\ UNCHANGED <<tokens, remote, httpVars>>
    /\ UNCHANGED <<config, users, request, valid, granted>>

DirectoryGroups(r, j) ==
    /\ Asked(r, j, "authenticate", "directory") /\ j.from = "bound"
    /\ \/ Rejected(r, j) /\ UNCHANGED tokens
       \/ Authenticated(r, j, {"staff", cred[r].user})
    /\ UNCHANGED <<config, users, request, valid, granted>>

DefaultAuthenticate(r, j) ==
    /\ Asked(r, j, "authenticate", "default") /\ Rejected(r, j)
    /\ UNCHANGED <<config, users, tokens, request, valid, granted>>

\* auth-memory: a user that exists is taken for added, whatever the password;
\* then the plugins are asked from the first one whether it is right.
MemoryAdd(r, j) ==
    LET u == cred[r].user IN
    /\ Asked(r, j, "adduser", "memory")
    /\ IF users[u] = None /\ Cardinality({x \in User : users[x] # None}) >= MaxUsers
       THEN Ends(r, j) /\ Refused(r) /\ UNCHANGED <<users, valid>>
       ELSE /\ users' = IF users[u] = None THEN [users EXCEPT ![u] = cred[r].password] ELSE users
            /\ Becomes(r, j, Job1("authenticate")) /\ Witness(users') /\ UNCHANGED httpVars
    /\ UNCHANGED <<config, tokens, request, remote, granted>>

DefaultAdd(r, j) ==
    /\ Asked(r, j, "adduser", "default") /\ Ends(r, j) /\ Refused(r)
    /\ UNCHANGED <<config, users, tokens, request, remote, valid, granted>>

\* auth-memory: the old password has to be right.
MemoryChangePassword(u, old, new) ==
    /\ users[u] = old /\ new # old
    /\ users' = [users EXCEPT ![u] = new]

\* changePassword: every plugin that can is asked; auth-memory answers at once.
ChangePassword(u, old, new) ==
    /\ "memory" \in ToSet(plugins) /\ MemoryChangePassword(u, old, new) /\ Witness(users')
    /\ UNCHANGED <<config, tokens, request, jobs, remote, httpVars, granted>>

-----------------------------------------------------------------------------
(* allow_access, allow_publish, allow_unpublish *)

\* allow_action: the name of the user or one of its groups is in the list.
HasPermission(rule, u) == u.name \in rule \/ u.groups \cap rule # {}

\* auth-memory lists everybody under $all and under $anonymous.
MemoryPermission(rule, u) ==
    rule \cap {"all", "anonymous"} # {} \/ (u.name # NoUser /\ rule \cap {u.name, "authenticated"} # {})

Action(j) == IF j.method = "allow_access" THEN "access" ELSE "publish"
Rules(r) == GetMatchedPackagesSpec(pkg[r], NormalisePackageAccess(packages))

\* What the callback of allow is told, and then express: the middlewares of a
\* publication come between allow and the handler.
Told(r, x) ==
    IF x = "passed" THEN Pass(r, IF kind[r] = "publish" THEN BeforePublish ELSE {"next"})
    ELSE Deny(r)

\* Mutant: the chain goes on after an answer.
AnsweredOn(r, j, x) ==
    /\ Told(r, x)
    /\ IF Plugin(j) = "default" THEN Ends(r, j) ELSE Onward(r, j)

\* The callback of a chain.
Answered(r, j, x) == Told(r, x) /\ Ends(r, j)

Verdict(permission) == IF permission THEN "passed" ELSE "denied"

\* Mutant: what is not allowed is left to the next plugin, and passes at the end.
AllowAny(r, j) ==
    /\ j.method \in {"allow_access", "allow_publish"} /\ Plugin(j) \in {"memory", "default"}
    /\ IF Plugin(j) = "default" \/ MemoryPermission(Rules(r)[Action(j)], remote[r]) THEN Answered(r, j, "passed")
       ELSE Onward(r, j) /\ UNCHANGED httpVars
    /\ UNCHANGED <<config, users, tokens, request, remote, valid, granted>>

\* auth-memory and the last plugin answer by the rules of the package.
Allow(r, j) ==
    LET rule == Rules(r)[Action(j)] IN
    /\ j.method \in {"allow_access", "allow_publish"} /\ Plugin(j) \in {"memory", "default"}
    /\ Answered(r, j, Verdict(IF Plugin(j) = "memory" THEN MemoryPermission(rule, remote[r])
                              ELSE HasPermission(rule, remote[r])))
    /\ UNCHANGED <<config, users, tokens, request, remote, valid, granted>>

\* A plugin that lets pass, forbids, or leaves it to the next one.
AllowCustom(r, j) ==
    /\ j.method \in {"allow_access", "allow_publish"} /\ Plugin(j) = "custom"
    /\ \/ Answered(r, j, "passed") /\ granted' = granted \cup {r}
       \/ Answered(r, j, "denied") /\ UNCHANGED granted
       \/ Onward(r, j) /\ UNCHANGED <<httpVars, granted>>
    /\ UNCHANGED <<config, users, tokens, request, remote, valid>>

\* Mutant: without a rule the answer is "false".
UnpublishDefaultFalse(r, j) ==
    /\ j.method = "allow_unpublish" /\ j.from = "default"
    /\ IF Rules(r).unpublish = {} THEN Ends(r, j) /\ UNCHANGED httpVars
       ELSE Answered(r, j, Verdict(HasPermission(Rules(r).unpublish, remote[r])))
    /\ UNCHANGED <<config, users, tokens, request, remote, valid, granted>>

\* handleSpecialUnpublish: without a rule for it the permission to publish
\* decides.
UnpublishDefault(r, j) ==
    /\ j.method = "allow_unpublish" /\ j.from = "default"
    /\ IF Rules(r).unpublish = {}
       THEN Becomes(r, j, [method |-> "allow_publish", at |-> 1, from |-> "default"]) /\ UNCHANGED httpVars
       ELSE Answered(r, j, Verdict(HasPermission(Rules(r).unpublish, remote[r])))
    /\ UNCHANGED <<config, users, tokens, request, remote, valid, granted>>

\* A plugin that answers "false" to an unpublish ends its part without a word.
UnpublishCustom(r, j) ==
    /\ j.method = "allow_unpublish" /\ j.from = "custom"
    /\ \/ Answered(r, j, "passed") /\ granted' = granted \cup {r}
       \/ Answered(r, j, "denied") /\ UNCHANGED granted
       \/ Ends(r, j) /\ UNCHANGED <<httpVars, granted>>
       \/ Becomes(r, j, [method |-> "allow_publish", at |-> 1, from |-> "custom"]) /\ UNCHANGED <<httpVars, granted>>
    /\ UNCHANGED <<config, users, tokens, request, remote, valid>>

-----------------------------------------------------------------------------
Callback(r, j) ==
    \/ PassOver(r, j) \/ MemoryAuthenticate(r, j) \/ DirectoryBind(r, j) \/ DirectoryGroups(r, j)
    \/ DefaultAuthenticate(r, j) \/ MemoryAdd(r, j) \/ DefaultAdd(r, j)
    \/ Allow(r, j) \/ AllowCustom(r, j) \/ UnpublishDefault(r, j) \/ UnpublishCustom(r, j)

Handler(r) == Serve(r) /\ UNCHANGED <<config, users, tokens, request, jobs, remote, valid, granted>>

Step(r) == Enter(r) \/ EnterWeb(r) \/ Audit(r) \/ Handler(r) \/ \E j \in jobs[r] : Callback(r, j)

Finished ==
    /\ \A r \in Request : stage[r] \in {"allow", "served", "over"} /\ jobs[r] = {}
    /\ UNCHANGED vars

Next ==
    \/ \E r \in Request :
        \/ \E k \in Kinds, p \in Package, c \in Basic \cup tokens \cup {Nothing, Garbled} : Arrive(r, k, p, c)
        \/ Step(r)
    \/ \E u \in User, old, new \in Password : ChangePassword(u, old, new)
    \/ Finished

\* Something goes on as long as a request has anything to do.
Spec == Init /\ [][Next]_vars /\ WF_vars(\E r \in Request : Step(r))

-----------------------------------------------------------------------------
\* A request acts for a user only if it brought a password that was that
\* user's at some time while it ran, or a signed token, which is given out for
\* such a password only: whatever plugins are asked in between, and however
\* passwords change.
IdentityProved ==
    \A r \in Request :
        /\ remote[r].name # NoUser =>
            /\ remote[r].name = cred[r].user
            /\ (cred[r].type = "jwt" /\ cred[r] \in tokens) \/ r \in valid
        /\ kind[r] = "adduser" /\ stage[r] = "served" => r \in valid

\* What the configuration says, as it is written: the first entry that matches
\* counts, and what it does not say is said to nobody.
Listed(r, action) ==
    {g \in Group : \E i \in DOMAIN packages :
        /\ pkg[r] \in packages[i].pattern /\ \A j \in 1..i - 1 : pkg[r] \notin packages[j].pattern
        /\ packages[i][action] # Undefined /\ g \in packages[i][action]}

\* For an unpublish the list for publish counts when there is none of its own.
Rule(r) ==
    CASE kind[r] \in {"access", "web"} -> Listed(r, "access")
      [] kind[r] = "publish"           -> Listed(r, "publish")
      [] OTHER                         ->
            IF Listed(r, "unpublish") = {} THEN Listed(r, "publish") ELSE Listed(r, "unpublish")

\* The list names who makes the request; auth-memory, where it is configured,
\* reads it in its own way.
Permitted(r, rule) ==
    HasPermission(rule, remote[r]) \/ ("memory" \in ToSet(plugins) /\ MemoryPermission(rule, remote[r]))

\* A request reaches its handler only if the configuration lists who makes it
\* for this package and this action, or the custom plugin said so: across the
\* chains of plugins, the shaping of the configuration and the choice of the
\* entry.
GrantedByRules ==
    \A r \in Request : kind[r] # "adduser" /\ stage[r] \in {"handler", "served"} =>
        \/ r \in granted
        \/ Permitted(r, Rule(r))
        \/ kind[r] = "unpublish" /\ "custom" \in ToSet(plugins) /\ Permitted(r, Listed(r, "publish"))

\* A request whose client is told that it is refused is not carried out.  But
\* for an unpublish, about which every plugin is asked at once, and for one of
\* the web interface with a header that is not understood: it is answered, and
\* goes on.
RefusedNotServed ==
    \A r \in Request : stage[r] = "served" /\ response[r] # "ok" =>
        (kind[r] = "unpublish" /\ "custom" \in ToSet(plugins)) \/ (kind[r] = "web" /\ cred[r] = Garbled)

\* Every request is answered, whatever plugins there are.
RequestAnswered == \A r \in Request : kind[r] # "none" ~> response[r] # "none"
=============================================================================
