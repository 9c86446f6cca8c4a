---------------------------- MODULE Auth_proofs -----------------------------
(***************************************************************************)
(* Who a request acts for, and that it passes only where the rules of its   *)
(* package or a plugin let it, for any users, passwords, packages, rules    *)
(* and lists of plugins.                                                    *)
(*                                                                          *)
(* A step of one request leaves the others alone, but for what only grows:  *)
(* the tokens, the passwords that were proved and the grants.  So the       *)
(* invariant is one of each request (Fits), and of the passwords that are   *)
(* right now (Witnessed).                                                   *)
(***************************************************************************)
EXTENDS Auth, SequenceTheorems, WellFoundedInduction, TLAPS

HasPlugin(x) == x \in ToSet(plugins)

\* An unpublish is answered by several plugins when there is one of the custom
\* ones.
Twofold(r) == kind[r] = "unpublish" /\ HasPlugin("custom")

Excused(r) == Twofold(r) \/ (kind[r] = "web" /\ cred[r] = Garbled)

\* A request that has not come yet.
Fresh(r) ==
    kind[r] = "none" =>
        /\ stage[r] = "none" /\ response[r] = "none" /\ jobs[r] = {}
        /\ remote[r] = Anonymous /\ cred[r] = Nothing

\* Where a chain of callbacks may stand, and for whom.
Placed(r, j) ==
    /\ j.at \in 1..Len(Chain)
    /\ j.from = "bound" => j.method = "authenticate" /\ r \in valid
    /\ j.from = "custom" => HasPlugin("custom")
    /\ j.method = "adduser" => kind[r] = "adduser"
    /\ j.method = "authenticate" =>
          /\ kind[r] \in {"adduser", "access", "publish", "unpublish"}
          /\ Password1(cred[r])
    /\ j.method \in {"adduser", "authenticate"} => stage[r] = "identity"
    /\ j.method \in {"allow_access", "allow_publish", "allow_unpublish"} =>
          stage[r] \notin {"none", "identity"}
    /\ j.method = "allow_access" => kind[r] \in {"access", "web"}
    /\ j.method = "allow_publish" =>
          \/ kind[r] = "publish"
          \/ kind[r] = "unpublish" /\ j.from = "default" /\ Listed(r, "unpublish") = {}
          \/ kind[r] = "unpublish" /\ j.from = "custom"
    /\ j.method = "allow_unpublish" => kind[r] = "unpublish"

\* There is one chain at a time, and none once the request has passed or was
\* refused.
OneChain(r) ==
    ~Twofold(r) =>
        /\ \A j, k \in jobs[r] : j = k
        /\ stage[r] \in {"handler", "served", "over"} => jobs[r] = {}

\* Nothing is told before the handler has done its work.
Silent(r) == ~Excused(r) /\ stage[r] \in {"identity", "allow", "handler"} => response[r] = "none"

\* A login passes no routes.
LoginStage(r) == kind[r] = "adduser" => stage[r] \in {"identity", "served", "over"} /\ cred[r].type = "basic"

\* A token was given out before it comes back.
TokenKnown(r) == cred[r].type \in {"aes", "jwt"} => cred[r] \in tokens

\* A password that is right now is witnessed.
Witnessed(r) ==
    Password1(cred[r]) /\ Right(users, cred[r].user, cred[r].password) => r \in valid

\* The properties, of one request.
Proved(r) ==
    /\ remote[r].name # NoUser =>
        /\ remote[r].name = cred[r].user
        /\ (cred[r].type = "jwt" /\ cred[r] \in tokens) \/ r \in valid
    /\ kind[r] = "adduser" /\ stage[r] = "served" => r \in valid

Rightful(r) ==
    \/ r \in granted
    \/ Permitted(r, Rule(r))
    \/ kind[r] = "unpublish" /\ HasPlugin("custom") /\ Permitted(r, Listed(r, "publish"))

Granted(r) == kind[r] # "adduser" /\ stage[r] \in {"handler", "served"} => Rightful(r)

Served(r) == stage[r] = "served" /\ response[r] # "ok" => Excused(r)

Fits(r) ==
    /\ Fresh(r) /\ (\A j \in jobs[r] : Placed(r, j)) /\ OneChain(r) /\ Silent(r)
    /\ LoginStage(r) /\ TokenKnown(r)
    /\ Proved(r) /\ Granted(r) /\ Served(r)

Inv == TypeOK /\ \A r \in Request : Fits(r) /\ Witnessed(r)

-----------------------------------------------------------------------------
\* A set of numbers has a least one.
LEMMA LeastNatural ==
    ASSUME NEW T \in SUBSET Nat, T # {}
    PROVE  \E x \in T : \A y \in T : x <= y
<1> DEFINE R == OpToRel(<, Nat)
<1>1. \A a, b \in Nat : <<a, b>> \in R <=> a < b
    BY DEF OpToRel
<1>2. IsWellFoundedOn(R, Nat)
    BY NatLessThanWellFounded
<1> HIDE DEF R
<1>3. PICK x \in T : \A y \in T : ~(<<y, x>> \in R)
    BY <1>2, WFMin
<1>4. ASSUME NEW y \in T PROVE x <= y
    <2>1. x \in Nat /\ y \in Nat
        OBVIOUS
    <2>2. ~(y < x)
        BY <2>1, <1>1, <1>3
    <2> QED
        BY <2>1, <2>2
<1> QED
    BY <1>4

\* What normalisePackageAccess and getMatchedPackagesSpec make of the
\* configuration is what is written there: the first entry that matches counts,
\* and what it leaves unsaid, or no entry says, is said to nobody.
LEMMA RulesAreListed ==
    ASSUME TypeOK, NEW r \in Request,
           NEW action \in {"access", "publish", "unpublish"}
    PROVE  Rules(r)[action] = Listed(r, action)
<1> DEFINE p == pkg[r]
           Norm == NormalisePackageAccess(packages)
           Shape(e) == [e EXCEPT !.access = NormalizeUserList(@), !.publish = NormalizeUserList(@),
                                 !.unpublish = NormalizeUserList(@)]
           A == [i \in DOMAIN packages |-> Shape(packages[i])]
           None1 == [pattern |-> Package, access |-> {}, publish |-> {}, unpublish |-> {}]
           B == IF \E i \in DOMAIN packages : packages[i].pattern = Package THEN <<>> ELSE <<None1>>
           n == Len(packages)
           First1(i) == p \in Norm[i].pattern /\ \A j \in 1..i - 1 : p \notin Norm[j].pattern
<1>1. packages \in Seq(Written) /\ p \in Package /\ n \in Nat /\ DOMAIN packages = 1..n
    BY AuthAssumption DEF TypeOK
<1>2. \A i \in 1..n : packages[i] \in Written
    BY <1>1
<1>3. \A i \in 1..n : /\ Shape(packages[i]).pattern = packages[i].pattern
                      /\ Shape(packages[i])[action] = NormalizeUserList(packages[i][action])
    BY <1>2 DEF Written
<1> DEFINE M == {Shape(packages[i]) : i \in 1..n} \cup {None1}
<1>4. A \in Seq(M) /\ Len(A) = n /\ \A i \in 1..n : A[i] = Shape(packages[i])
    <2>1. A \in [1..n -> M]
        BY <1>1
    <2>2. \A i \in 1..n : A[i] = Shape(packages[i])
        BY <1>1
    <2> HIDE DEF A, M, Shape
    <2>3. A \in Seq(M) /\ Len(A) = n
        BY <2>1, <1>1
    <2> QED
        BY <2>2, <2>3
<1>5. B \in Seq(M) /\ Len(B) \in {0, 1} /\ (Len(B) = 1 => B[1] = None1)
    <2>1. <<>> \in Seq(M) /\ Len(<<>>) = 0
        OBVIOUS
    <2>2. <<None1>> \in Seq(M) /\ Len(<<None1>>) = 1 /\ <<None1>>[1] = None1
        OBVIOUS
    <2>3. B = <<>> \/ B = <<None1>>
        BY Zenon
    <2> HIDE DEF B, M, None1
    <2>4. CASE B = <<>>
        BY <2>1, <2>4
    <2>5. CASE B = <<None1>>
        BY <2>2, <2>5
    <2> QED
        BY <2>3, <2>4, <2>5
<1>6. Norm = A \o B
    BY Zenon DEF NormalisePackageAccess
<1>7. /\ DOMAIN Norm = 1..n + Len(B)
      /\ \A i \in 1..n : Norm[i] = Shape(packages[i])
      /\ Len(B) = 1 => Norm[n + 1] = None1
    <2> HIDE DEF Norm, A, B, M, Shape, None1
    <2>1. A \in Seq(M) /\ B \in Seq(M) /\ Len(A) = n /\ Len(B) \in {0, 1}
        BY <1>4, <1>5
    <2>2. /\ A \o B \in Seq(M) /\ Len(A \o B) = Len(A) + Len(B)
          /\ \A i \in 1..Len(A) + Len(B) : (A \o B)[i] = IF i <= Len(A) THEN A[i] ELSE B[i - Len(A)]
        BY <2>1, ConcatProperties, SMTT(60)
    <2>3. /\ Norm \in Seq(M) /\ Len(Norm) = n + Len(B)
          /\ \A i \in 1..n + Len(B) : Norm[i] = IF i <= n THEN A[i] ELSE B[i - n]
        BY <2>1, <2>2, <1>6, Zenon
    <2>4. DOMAIN Norm = 1..n + Len(B)
        BY <2>3
    <2>5. ASSUME NEW i \in 1..n PROVE Norm[i] = Shape(packages[i])
        <3>1. i \in 1..n + Len(B) /\ i <= n
            BY <1>1, <2>1
        <3> QED
            BY <1>4, <2>3, <3>1, Zenon
    <2>6. ASSUME Len(B) = 1 PROVE Norm[n + 1] = None1
        <3>1. n + 1 \in 1..n + Len(B) /\ ~(n + 1 <= n) /\ (n + 1) - n = 1
            BY <1>1, <2>6
        <3> QED
            BY <1>5, <2>3, <2>6, <3>1, Zenon
    <2> QED
        BY <2>4, <2>5, <2>6
<1>8. Rules(r) = Norm[CHOOSE i \in DOMAIN Norm : First1(i)]
    BY DEF Rules, GetMatchedPackagesSpec
<1> HIDE DEF Norm, A, Shape, B, M
<1>9. CASE \E i \in 1..n : p \in packages[i].pattern
    <2> DEFINE T == {i \in 1..n : p \in packages[i].pattern}
    <2>1. PICK m \in T : \A i \in T : m <= i
        <3>1. T \in SUBSET Nat /\ T # {}
            BY <1>9
        <3> QED
            BY <3>1, LeastNatural
    <2>2. m \in 1..n /\ p \in packages[m].pattern /\ \A i \in 1..m - 1 : i \in 1..n /\ p \notin packages[i].pattern
        BY <2>1, <1>1
    <2>3. \A i \in 1..n : Norm[i].pattern = packages[i].pattern
        BY <1>3, <1>7
    <2>4. m \in DOMAIN Norm /\ First1(m)
        BY <2>2, <2>3, <1>1, <1>5, <1>7
    <2>5. \A i \in DOMAIN Norm : First1(i) => i = m
        <3>1. ASSUME NEW i \in DOMAIN Norm, First1(i) PROVE i = m
            <4>1. i \in Nat /\ i >= 1 /\ m \in Nat /\ m >= 1
                BY <1>1, <1>5, <1>7, <2>2
            <4>2. ~(i < m)
                BY <2>2, <2>3, <3>1, <4>1
            <4>3. ~(m < i)
                BY <2>2, <2>3, <3>1, <4>1
            <4> QED
                BY <4>1, <4>2, <4>3
        <3> QED
            BY <3>1
    <2>6. m \in DOMAIN Norm /\ First1(m) /\ \A i \in DOMAIN Norm : First1(i) => i = m
        BY <2>4, <2>5, Zenon
    <2>7. Rules(r) = Norm[m]
        BY <2>6, <1>8
    <2>8. Rules(r)[action] = NormalizeUserList(packages[m][action])
        BY <2>1, <2>7, <1>3, <1>7
    <2>9. packages[m][action] \in (SUBSET Group) \cup {Undefined}
        BY <2>1, <1>2 DEF Written
    <2>10. Listed(r, action) = {g \in Group : packages[m][action] # Undefined /\ g \in packages[m][action]}
        BY <2>1, <1>1 DEF Listed
    <2>11. CASE packages[m][action] = Undefined
        BY <2>8, <2>10, <2>11 DEF NormalizeUserList
    <2>12. CASE packages[m][action] # Undefined
        <3> DEFINE X == packages[m][action]
        <3>0. X \in (SUBSET Group) \cup {Undefined} /\ X # Undefined
            BY <2>9, <2>12
        <3>2. Listed(r, action) = {g \in Group : X # Undefined /\ g \in X}
            BY <2>10
        <3> HIDE DEF X
        <3>1. X \in SUBSET Group
            BY <3>0, Zenon
        <3>3. {g \in Group : X # Undefined /\ g \in X} = X
            BY <3>0, <3>1, Zenon
        <3>4. Rules(r)[action] = X
            BY <2>8, <2>12 DEF NormalizeUserList, X
        <3> QED
            BY <3>2, <3>3, <3>4
    <2> QED
        BY <2>11, <2>12
<1>10. CASE \A i \in 1..n : p \notin packages[i].pattern
    <2>0. ~\E i \in DOMAIN packages : packages[i].pattern = Package
        BY <1>10, <1>1
    <2>1. B = <<None1>>
        BY <2>0, Zenon DEF B
    <2>2. Len(B) = 1
        BY <2>1
    <2>3. n + 1 \in DOMAIN Norm /\ First1(n + 1) /\ \A i \in DOMAIN Norm : First1(i) => i = n + 1
        BY <2>2, <1>1, <1>3, <1>7, <1>10
    <2>4. Rules(r) = None1
        BY <2>2, <2>3, <1>7, <1>8
    <2>5. Listed(r, action) = {}
        BY <1>1, <1>10 DEF Listed
    <2> QED
        BY <2>4, <2>5
<1> QED
    BY <1>9, <1>10

-----------------------------------------------------------------------------
(* Types *)

\* What the plugins are, and that the default one is the last and only there.
LEMMA ChainFacts ==
    ASSUME TypeOK
    PROVE  /\ Len(plugins) \in Nat /\ Len(Chain) = Len(plugins) + 1
           /\ \A i \in 1..Len(Chain) :
                 /\ Chain[i] \in {"memory", "directory", "custom", "default"}
                 /\ Chain[i] = "default" <=> i = Len(Chain)
                 /\ Chain[i] # "default" => HasPlugin(Chain[i])
<1> DEFINE S == {"memory", "directory", "custom"}
<1>1. plugins \in Seq(S)
    BY AuthAssumption DEF TypeOK
<1>2. plugins \in Seq(S \cup {"default"})
    BY <1>1
<1>3. /\ Len(Chain) = Len(plugins) + 1
      /\ \A i \in 1..Len(plugins) : Chain[i] = plugins[i]
      /\ Chain[Len(plugins) + 1] = "default"
    BY <1>2, AppendProperties DEF Chain
<1>4. Len(plugins) \in Nat /\ \A i \in 1..Len(plugins) : plugins[i] \in S
    BY <1>1
<1>5. \A i \in 1..Len(plugins) : HasPlugin(plugins[i])
    BY <1>1 DEF HasPlugin, ToSet
<1> QED
    BY <1>3, <1>4, <1>5

Credential == Basic \cup Token \cup {Nothing, Garbled}
Acting == [name : User \cup {NoUser}, groups : SUBSET Group]

LEMMA CredentialTyped ==
    ASSUME NEW c \in Credential
    PROVE  /\ c.type \in {"nothing", "garbled", "basic", "aes", "jwt"}
           /\ Password1(c) => c.user \in User /\ c.password \in Password
           /\ c.type = "jwt" => c.user \in User /\ c.groups \in SUBSET {"staff"}
           /\ c.type = "garbled" <=> c = Garbled
           /\ c.type \in {"aes", "jwt"} <=> c \in Token
BY DEF Credential, Basic, Token, Nothing, Garbled, Password1

LEMMA RemoteTyped ==
    /\ Anonymous \in Acting /\ Anonymous.name = NoUser
    /\ \A u \in User, groups \in SUBSET Group :
          RemoteUser(u, groups) \in Acting /\ RemoteUser(u, groups).name = u
BY AuthAssumption DEF Anonymous, RemoteUser, Acting

LEMMA JobTyped ==
    /\ \A m \in Methods : Job1(m) \in Job /\ Job1(m).method = m /\ Job1(m).at = 1 /\ Job1(m).from = "route"
    /\ \A j \in Job : /\ j.method \in Methods /\ j.at \in Nat /\ j.at >= 1
                      /\ j.from \in {"route", "bound", "custom", "default"}
BY DEF Job, Job1

-----------------------------------------------------------------------------
(* A step of a request *)

\* What a step of r leaves alone.
Others(r) == \A q \in Request \ {r} :
    /\ kind'[q] = kind[q] /\ pkg'[q] = pkg[q] /\ cred'[q] = cred[q]
    /\ jobs'[q] = jobs[q] /\ remote'[q] = remote[q]
    /\ stage'[q] = stage[q] /\ response'[q] = response[q]

Grows == tokens \subseteq tokens' /\ valid \subseteq valid' /\ granted \subseteq granted'

Local(r) == UNCHANGED config /\ Others(r) /\ Grows

Proper(r) == TypeOK' /\ Local(r) /\ Fits(r)'

LEMMA SameRules ==
    ASSUME NEW q \in Request, UNCHANGED config, pkg'[q] = pkg[q], kind'[q] = kind[q]
    PROVE  /\ Chain' = Chain
           /\ \A x : HasPlugin(x)' <=> HasPlugin(x)
           /\ Twofold(q)' <=> Twofold(q)
           /\ \A action : Listed(q, action)' = Listed(q, action)
           /\ Rule(q)' = Rule(q)
<1>1. Chain' = Chain
    BY DEF Chain, config
<1>2. \A x : HasPlugin(x)' <=> HasPlugin(x)
    BY DEF HasPlugin, config
<1>3. \A action : Listed(q, action)' = Listed(q, action)
    BY DEF Listed, config
<1>4. Rule(q)' = Rule(q)
    <2>1. /\ Listed(q, "access")' = Listed(q, "access") /\ Listed(q, "publish")' = Listed(q, "publish")
          /\ Listed(q, "unpublish")' = Listed(q, "unpublish")
        BY <1>3
    <2> QED
        BY <2>1 DEF Rule
<1>5. Twofold(q)' <=> Twofold(q)
    BY <1>2, Zenon DEF Twofold
<1> QED
    BY <1>1, <1>2, <1>3, <1>4, <1>5, Zenon

LEMMA SameRight ==
    ASSUME NEW q \in Request, UNCHANGED config, pkg'[q] = pkg[q], kind'[q] = kind[q],
           remote'[q] = remote[q], granted \subseteq granted', Rightful(q)
    PROVE  Rightful(q)'
<1>1. plugins' = plugins /\ Rule(q)' = Rule(q) /\ Listed(q, "publish")' = Listed(q, "publish")
    BY SameRules DEF config
<1>2. Permitted(q, Rule(q))' <=> Permitted(q, Rule(q))
    BY <1>1 DEF Permitted, HasPermission, MemoryPermission
<1>3. Permitted(q, Listed(q, "publish"))' <=> Permitted(q, Listed(q, "publish"))
    BY <1>1 DEF Permitted, HasPermission, MemoryPermission
<1>4. HasPlugin("custom")' <=> HasPlugin("custom")
    BY SameRules
<1> QED
    BY <1>2, <1>3, <1>4 DEF Rightful

LEMMA SamePlace ==
    ASSUME NEW q \in Request, UNCHANGED config, pkg'[q] = pkg[q], kind'[q] = kind[q],
           cred'[q] = cred[q], stage'[q] = stage[q], valid \subseteq valid',
           NEW j, Placed(q, j)
    PROVE  Placed(q, j)'
BY SameRules DEF Placed

LEMMA OthersFit ==
    ASSUME NEW r \in Request, Local(r), NEW q \in Request \ {r}, Fits(q)
    PROVE  Fits(q)'
<1>1. /\ kind'[q] = kind[q] /\ pkg'[q] = pkg[q] /\ cred'[q] = cred[q]
      /\ jobs'[q] = jobs[q] /\ remote'[q] = remote[q]
      /\ stage'[q] = stage[q] /\ response'[q] = response[q]
      /\ UNCHANGED config /\ Grows
    BY DEF Local, Others
<1>2. \A j \in jobs[q]' : Placed(q, j)'
    BY <1>1, SamePlace DEF Fits, Grows
<1>3. OneChain(q)' /\ Silent(q)' /\ Served(q)'
    BY <1>1, SameRules DEF Fits, OneChain, Silent, Served, Excused
<1>4. Granted(q)'
    BY <1>1, SameRight DEF Fits, Granted, Grows
<1>5. Fresh(q)' /\ LoginStage(q)' /\ TokenKnown(q)' /\ Proved(q)'
    BY <1>1 DEF Fits, Fresh, LoginStage, TokenKnown, Proved, Grows
<1> QED
    BY <1>2, <1>3, <1>4, <1>5 DEF Fits

-----------------------------------------------------------------------------
(* What the steps are made of *)

\* A chain goes on to another plugin or to another method.
LEMMA BecomesProper ==
    ASSUME Inv, NEW r \in Request, NEW j \in jobs[r], NEW k \in Job, Placed(r, k), Becomes(r, j, k),
           UNCHANGED <<config, tokens, request, remote, httpVars>>,
           users' \in [User -> Password \cup {None}],
           valid \subseteq valid', granted \subseteq granted',
           valid' \subseteq Request, granted' \subseteq Request
    PROVE  Proper(r)
<1>1. /\ UNCHANGED config /\ tokens' = tokens /\ kind' = kind /\ pkg' = pkg /\ cred' = cred
      /\ remote' = remote /\ stage' = stage /\ response' = response
    BY DEF config, request, httpVars
<1>2. TypeOK /\ Fits(r)
    BY DEF Inv
<1>3. jobs'[r] = (jobs[r] \ {j}) \cup {k} /\ \A q \in Request \ {r} : jobs'[q] = jobs[q]
    BY <1>2 DEF TypeOK, Becomes
<1>4. TypeOK'
    <2>1. jobs' \in [Request -> SUBSET Job]
        BY <1>2 DEF TypeOK, Becomes
    <2> QED
        BY <1>1, <1>2, <2>1 DEF TypeOK, HttpTypeOK, config
<1>5. Local(r)
    BY <1>1, <1>3 DEF Local, Others, Grows
<1>6. \A i \in jobs[r]' : Placed(r, i)'
    BY <1>1, <1>2, <1>3, SamePlace DEF Fits
<1>7. OneChain(r)' /\ Silent(r)' /\ Served(r)'
    <2>1. Twofold(r)' <=> Twofold(r)
        BY <1>1, SameRules
    <2> QED
        BY <1>1, <1>2, <1>3, <2>1 DEF Fits, OneChain, Silent, Served, Excused
<1>8. Granted(r)'
    BY <1>1, <1>2, SameRight DEF Fits, Granted
<1>9. Fresh(r)' /\ LoginStage(r)' /\ TokenKnown(r)' /\ Proved(r)'
    BY <1>1, <1>2, <1>3 DEF Fits, Fresh, LoginStage, TokenKnown, Proved
<1> QED
    BY <1>4, <1>5, <1>6, <1>7, <1>8, <1>9 DEF Proper, Fits

\* A chain ends without a word, or goes on elsewhere: what is left of it.
LEMMA EndsProper ==
    ASSUME Inv, NEW r \in Request, NEW j \in jobs[r], Ends(r, j),
           UNCHANGED <<config, users, tokens, request, remote, httpVars, valid, granted>>
    PROVE  Proper(r)
<1>1. /\ UNCHANGED config /\ users' = users /\ tokens' = tokens /\ kind' = kind /\ pkg' = pkg
      /\ cred' = cred /\ remote' = remote /\ stage' = stage /\ response' = response
      /\ valid' = valid /\ granted' = granted
    BY DEF config, request, httpVars
<1>2. TypeOK /\ Fits(r)
    BY DEF Inv
<1>3. jobs'[r] = jobs[r] \ {j} /\ \A q \in Request \ {r} : jobs'[q] = jobs[q]
    BY <1>2 DEF TypeOK, Ends
<1>4. TypeOK'
    <2>1. jobs' \in [Request -> SUBSET Job]
        BY <1>2 DEF TypeOK, Ends
    <2> QED
        BY <1>1, <1>2, <2>1 DEF TypeOK, HttpTypeOK, config
<1>5. Local(r)
    BY <1>1, <1>3 DEF Local, Others, Grows
<1>6. \A i \in jobs[r]' : Placed(r, i)'
    BY <1>1, <1>2, <1>3, SamePlace DEF Fits
<1>7. OneChain(r)' /\ Silent(r)' /\ Served(r)'
    <2>1. Twofold(r)' <=> Twofold(r)
        BY <1>1, SameRules
    <2> QED
        BY <1>1, <1>2, <1>3, <2>1 DEF Fits, OneChain, Silent, Served, Excused
<1>8. Granted(r)'
    BY <1>1, <1>2, SameRight DEF Fits, Granted
<1>9. Fresh(r)' /\ LoginStage(r)' /\ TokenKnown(r)' /\ Proved(r)'
    BY <1>1, <1>2, <1>3 DEF Fits, Fresh, LoginStage, TokenKnown, Proved
<1> QED
    BY <1>4, <1>5, <1>6, <1>7, <1>8, <1>9 DEF Proper, Fits

\* A login is answered.
LEMMA LoginProper ==
    ASSUME Inv, NEW r \in Request, NEW j \in jobs[r], Ends(r, j),
           kind[r] = "adduser", stage[r] = "identity",
           (LoggedIn(r) /\ r \in valid) \/ Refused(r),
           tokens \subseteq tokens', tokens' \subseteq Token,
           UNCHANGED <<config, users, request, remote, valid, granted>>
    PROVE  Proper(r)
<1>1. /\ UNCHANGED config /\ users' = users /\ kind' = kind /\ pkg' = pkg /\ cred' = cred
      /\ remote' = remote /\ valid' = valid /\ granted' = granted
    BY DEF config, request
<1>2. TypeOK /\ Fits(r)
    BY DEF Inv
<1>3. jobs'[r] = {} /\ \A q \in Request \ {r} : jobs'[q] = jobs[q]
    BY <1>2 DEF TypeOK, Ends, Fits, OneChain, Twofold
<1>4. response[r] = "none"
    BY <1>2 DEF Fits, Silent, Excused, Twofold
<1>5. /\ \A q \in Request \ {r} : stage'[q] = stage[q] /\ response'[q] = response[q]
      /\ \/ stage'[r] = "served" /\ response'[r] = "ok" /\ r \in valid
         \/ stage'[r] = "over" /\ response'[r] = "error"
    BY <1>2, <1>4 DEF TypeOK, HttpTypeOK, LoggedIn, Refused, HandleError, ReportError, Final
<1>6. TypeOK'
    <2>1. jobs' \in [Request -> SUBSET Job]
        BY <1>2 DEF TypeOK, Ends
    <2>2. HttpTypeOK'
        BY <1>2 DEF TypeOK, HttpTypeOK, LoggedIn, Refused, HandleError, ReportError, Final, Stages
    <2> QED
        BY <1>1, <1>2, <2>1, <2>2 DEF TypeOK, config
<1>7. Local(r)
    BY <1>1, <1>3, <1>5 DEF Local, Others, Grows
<1> QED
    BY <1>1, <1>2, <1>3, <1>5, <1>6, <1>7
    DEF Proper, Fits, Fresh, OneChain, Silent, LoginStage, TokenKnown, Proved, Granted, Served

\* A request is known to be of somebody, or of nobody, and goes on.
LEMMA RouteProper ==
    ASSUME Inv, NEW r \in Request, NEW u \in Acting, NEW told \in {"none", "error"}, Onto(r, u, told),
           kind[r] \in {"access", "publish", "unpublish", "web"},
           told # "none" => kind[r] = "web" /\ cred[r] = Garbled,
           u.name # NoUser => /\ u.name = cred[r].user
                              /\ (cred[r].type = "jwt" /\ cred[r] \in tokens) \/ r \in valid,
           UNCHANGED <<config, users, tokens, request, valid, granted>>
    PROVE  Proper(r)
<1>1. /\ UNCHANGED config /\ users' = users /\ kind' = kind /\ pkg' = pkg /\ cred' = cred
      /\ tokens' = tokens /\ valid' = valid /\ granted' = granted
    BY DEF config, request
<1>2. TypeOK /\ Fits(r)
    BY DEF Inv
<1>3. /\ remote' = [remote EXCEPT ![r] = u]
      /\ \/ /\ jobs' = [jobs EXCEPT ![r] = JobsOf(kind[r])]
            /\ stage' = [stage EXCEPT ![r] = "allow"] /\ response' = [response EXCEPT ![r] = told]
         \/ /\ jobs' = [jobs EXCEPT ![r] = {}]
            /\ stage' = [stage EXCEPT ![r] = "over"] /\ response' = [response EXCEPT ![r] = "error"]
    BY DEF Onto
<1>4. /\ JobsOf(kind[r]) \in SUBSET Job
      /\ \A j \in JobsOf(kind[r]) :
            /\ j.at \in 1..Len(Chain)
            /\ \/ j.from = "route" /\ j.method = "allow_access" /\ kind[r] \in {"access", "web"}
               \/ j.from = "route" /\ j.method = "allow_publish" /\ kind[r] = "publish"
               \/ /\ j.method = "allow_unpublish" /\ kind[r] = "unpublish"
                  /\ j.from = "default" \/ (j.from = "custom" /\ HasPlugin("custom"))
      /\ ~Twofold(r) => \A j, k \in JobsOf(kind[r]) : j = k
    <2>1. Len(Chain) \in Nat /\ 1 \in 1..Len(Chain)
        BY <1>2, ChainFacts
    <2>2. CASE kind[r] \in {"access", "web"}
        <3>1. JobsOf(kind[r]) = {Job1("allow_access")}
            BY <2>2 DEF JobsOf
        <3> QED
            BY <2>1, <2>2, <3>1, JobTyped DEF Methods
    <2>3. CASE kind[r] = "publish"
        <3>1. JobsOf(kind[r]) = {Job1("allow_publish")}
            BY <2>3 DEF JobsOf
        <3> QED
            BY <2>1, <2>3, <3>1, JobTyped DEF Methods
    <2>4. CASE kind[r] = "unpublish"
        <3> DEFINE J(i) == [method |-> "allow_unpublish", at |-> i, from |-> Chain[i]]
                   I == {n \in 1..Len(Chain) : Chain[n] \in {"custom", "default"}}
        <3>1. JobsOf(kind[r]) = {J(i) : i \in I}
            BY <2>4 DEF JobsOf, Implements
        <3>2. \A i \in I : /\ J(i) \in Job /\ J(i).at = i /\ J(i).method = "allow_unpublish"
                           /\ J(i).from = Chain[i] /\ Chain[i] \in {"custom", "default"}
            BY <2>1 DEF Job, Methods
        <3>3. \A i \in I : /\ Chain[i] = "custom" => HasPlugin("custom")
                           /\ Chain[i] = "default" => i = Len(Chain)
            BY <1>2, ChainFacts
        <3> HIDE DEF J
        <3>4. ~Twofold(r) => \A i, k \in I : i = k
            BY <2>4, <3>2, <3>3 DEF Twofold
        <3> HIDE DEF I
        <3>5. I \subseteq 1..Len(Chain)
            BY DEF I
        <3>6. JobsOf(kind[r]) \in SUBSET Job
            BY <3>1, <3>2
        <3>7. ASSUME NEW j \in JobsOf(kind[r])
              PROVE  /\ j.at \in 1..Len(Chain) /\ j.method = "allow_unpublish"
                     /\ j.from = "default" \/ (j.from = "custom" /\ HasPlugin("custom"))
            <4>1. PICK i \in I : j = J(i)
                BY <3>1
            <4> QED
                BY <3>2, <3>3, <3>5, <4>1
        <3>8. ~Twofold(r) => \A j, k \in JobsOf(kind[r]) : j = k
            BY <3>1, <3>4
        <3> QED
            BY <2>4, <3>6, <3>7, <3>8
    <2> QED
        BY <2>2, <2>3, <2>4
<1>5. /\ remote'[r] = u
      /\ \/ jobs'[r] = JobsOf(kind[r]) /\ stage'[r] = "allow" /\ response'[r] = told
         \/ jobs'[r] = {} /\ stage'[r] = "over" /\ response'[r] = "error"
    BY <1>2, <1>3 DEF TypeOK, HttpTypeOK
<1>6. TypeOK'
    <2>1. remote' \in [Request -> Acting]
        BY <1>2, <1>3 DEF TypeOK, Acting
    <2>2. jobs' \in [Request -> SUBSET Job]
        BY <1>2, <1>3, <1>4 DEF TypeOK
    <2>3. HttpTypeOK'
        BY <1>2, <1>3 DEF TypeOK, HttpTypeOK, Stages
    <2> QED
        BY <1>1, <1>2, <2>1, <2>2, <2>3 DEF TypeOK, config, Acting
<1>7. Local(r)
    BY <1>1, <1>2, <1>3 DEF Local, Others, Grows, TypeOK, HttpTypeOK
<1>8. \A j \in jobs[r]' : Placed(r, j)'
    BY <1>1, <1>4, <1>5, SameRules DEF Placed
<1>9. OneChain(r)' /\ Silent(r)'
    BY <1>1, <1>4, <1>5, SameRules DEF OneChain, Silent, Excused
<1> QED
    BY <1>1, <1>2, <1>5, <1>6, <1>7, <1>8, <1>9
    DEF Proper, Fits, Fresh, LoginStage, TokenKnown, Proved, Granted, Served

\* A chain of callbacks ends with an answer of allow.
LEMMA AnsweredProper ==
    ASSUME Inv, NEW r \in Request, NEW j \in jobs[r], NEW x \in {"passed", "denied"}, Answered(r, j, x),
           j.method \in {"allow_access", "allow_publish", "allow_unpublish"},
           UNCHANGED <<config, users, tokens, request, remote, valid>>,
           granted \subseteq granted', granted' \subseteq Request,
           x = "passed" => Rightful(r) \/ r \in granted'
    PROVE  Proper(r)
<1>1. /\ UNCHANGED config /\ users' = users /\ kind' = kind /\ pkg' = pkg /\ cred' = cred
      /\ tokens' = tokens /\ valid' = valid /\ remote' = remote
    BY DEF config, request
<1>2. TypeOK /\ Fits(r) /\ Placed(r, j)
    BY DEF Inv, Fits
<1>3. kind[r] \in {"access", "publish", "unpublish", "web"} /\ stage[r] \notin {"none", "identity"}
    BY <1>2 DEF Placed
<1>4. Ends(r, j) /\ jobs'[r] = jobs[r] \ {j} /\ \A q \in Request \ {r} : jobs'[q] = jobs[q]
    BY <1>2 DEF TypeOK, Ends, Answered
<1>5. ~Twofold(r) => stage[r] = "allow" /\ jobs'[r] = {}
    BY <1>2, <1>3, <1>4 DEF Fits, OneChain, TypeOK, HttpTypeOK, Stages
<1>6. \/ /\ stage[r] = "allow" /\ stage' = [stage EXCEPT ![r] = "handler"] /\ response' = response
         /\ x = "passed"
      \/ stage[r] = "allow" /\ stage' = [stage EXCEPT ![r] = "over"] /\ Final(r, "error")
      \/ stage[r] # "allow" /\ stage' = stage /\ Final(r, "error")
    <2>1. CASE x = "passed"
        <3>1. PICK results : Pass(r, results)
            BY <2>1 DEF Answered, Told
        <3>2. CASE stage[r] = "allow"
            <4>1. \/ stage' = [stage EXCEPT ![r] = "handler"] /\ response' = response
                  \/ HandleError(r)
                BY <3>1, <3>2 DEF Pass
            <4> QED
                BY <1>2, <2>1, <3>2, <4>1 DEF HandleError, ReportError, TypeOK, HttpTypeOK
        <3>3. CASE stage[r] # "allow"
            BY <3>1, <3>3 DEF Pass
        <3> QED
            BY <3>2, <3>3
    <2>2. CASE x = "denied"
        <3>1. HandleError(r)
            BY <2>2 DEF Answered, Told, Deny
        <3> QED
            BY <1>2, <1>3, <3>1 DEF HandleError, ReportError, TypeOK, HttpTypeOK
    <2> QED
        BY <2>1, <2>2
<1>7. /\ \A q \in Request \ {r} : stage'[q] = stage[q] /\ response'[q] = response[q]
      /\ \/ stage[r] = "allow" /\ stage'[r] = "handler" /\ response'[r] = response[r] /\ x = "passed"
         \/ stage[r] = "allow" /\ stage'[r] = "over"
         \/ stage[r] # "allow" /\ stage'[r] = stage[r]
    BY <1>2, <1>6 DEF Final, TypeOK, HttpTypeOK
<1>8. TypeOK'
    <2>1. jobs' \in [Request -> SUBSET Job]
        BY <1>2, <1>4 DEF TypeOK, Ends
    <2>2. HttpTypeOK'
        BY <1>2, <1>6 DEF TypeOK, HttpTypeOK, Stages, Final
    <2> QED
        BY <1>1, <1>2, <2>1, <2>2 DEF TypeOK, config
<1>9. Local(r)
    BY <1>1, <1>4, <1>7 DEF Local, Others, Grows
<1>10. \A k \in jobs[r]' : Placed(r, k)'
    <2>1. ASSUME NEW k \in jobs[r], k # j PROVE Placed(r, k)'
        <3>1. Placed(r, k) /\ Twofold(r)
            BY <1>2, <2>1 DEF Fits, OneChain
        <3>2. kind[r] = "unpublish"
            BY <3>1 DEF Twofold
        <3>3. stage'[r] \notin {"none", "identity"} /\ k.method \notin {"adduser", "authenticate"}
            BY <1>3, <1>7, <3>1 DEF Placed
        <3> QED
            BY <1>1, <3>1, <3>2, <3>3, SameRules DEF Placed
    <2> QED
        BY <1>4, <2>1
<1>11. OneChain(r)' /\ Silent(r)' /\ Served(r)'
    BY <1>1, <1>2, <1>3, <1>5, <1>7, SameRules DEF Fits, OneChain, Silent, Served, Excused
<1>12. Granted(r)'
    <2>1. Rightful(r) => Rightful(r)'
        BY <1>1, SameRight
    <2>2. r \in granted' => Rightful(r)'
        BY DEF Rightful
    <2> QED
        BY <1>1, <1>2, <1>7, <2>1, <2>2 DEF Fits, Granted
<1>13. Fresh(r)' /\ LoginStage(r)' /\ TokenKnown(r)' /\ Proved(r)'
    BY <1>1, <1>2, <1>3, <1>7 DEF Fits, Fresh, LoginStage, TokenKnown, Proved
<1> QED
    BY <1>8, <1>9, <1>10, <1>11, <1>12, <1>13 DEF Proper, Fits

-----------------------------------------------------------------------------
(* The steps *)

LEMMA AuthenticatedProper ==
    ASSUME Inv, NEW r \in Request, NEW j \in jobs[r], j.method = "authenticate", r \in valid,
           NEW groups \in SUBSET {"staff", cred[r].user}, Authenticated(r, j, groups),
           UNCHANGED <<config, users, request, valid, granted>>
    PROVE  Proper(r)
<1>1. TypeOK /\ Placed(r, j)
    BY DEF Inv, Fits
<1>2. cred[r] \in Credential
    BY <1>1 DEF TypeOK, Credential
<1>3. /\ cred[r].user \in User /\ cred[r].password \in Password /\ stage[r] = "identity"
      /\ kind[r] \in {"adduser", "access", "publish", "unpublish"}
    BY <1>1, <1>2, CredentialTyped DEF Placed
<1>4. CASE kind[r] = "adduser"
    <2>1. GetApiToken(cred[r].user, cred[r].password, groups) \in Token
        BY <1>3 DEF GetApiToken, JwtEncrypt, Token
    <2> QED
        BY <1>1, <1>3, <1>4, <2>1, LoginProper DEF Authenticated, TypeOK
<1>5. CASE kind[r] # "adduser"
    <2>1. groups \in SUBSET Group
        BY <1>3, AuthAssumption
    <2> QED
        BY <1>3, <1>5, <2>1, RemoteTyped, RouteProper DEF Authenticated, Route
<1> QED
    BY <1>4, <1>5

LEMMA RejectedProper ==
    ASSUME Inv, NEW r \in Request, NEW j \in jobs[r], j.method = "authenticate", Rejected(r, j),
           UNCHANGED <<config, users, tokens, request, valid, granted>>
    PROVE  Proper(r)
<1>1. TypeOK /\ Placed(r, j)
    BY DEF Inv, Fits
<1>2. stage[r] = "identity" /\ kind[r] \in {"adduser", "access", "publish", "unpublish"}
    BY <1>1 DEF Placed
<1>3. CASE kind[r] = "adduser"
    BY <1>1, <1>2, <1>3, LoginProper DEF Rejected, TypeOK
<1>4. CASE kind[r] # "adduser"
    BY <1>2, <1>4, RemoteTyped, RouteProper DEF Rejected, Route
<1> QED
    BY <1>3, <1>4

\* The next plugin is there: the default one is asked last.
LEMMA OnwardProper ==
    ASSUME Inv, NEW r \in Request, NEW j \in jobs[r], Plugin(j) # "default", Onward(r, j),
           j.method # "allow_unpublish",
           UNCHANGED <<config, users, tokens, request, remote, httpVars, valid>>,
           granted' = granted
    PROVE  Proper(r)
<1> DEFINE k == [j EXCEPT !.at = @ + 1, !.from = IF @ = "bound" THEN "route" ELSE @]
<1>1. TypeOK /\ Placed(r, j)
    BY DEF Inv, Fits
<1>2. j \in Job
    BY <1>1 DEF TypeOK
<1>3. k \in Job /\ k.method = j.method /\ k.at = j.at + 1
      /\ k.from = IF j.from = "bound" THEN "route" ELSE j.from
    <2> DEFINE from == IF j.from = "bound" THEN "route" ELSE j.from
    <2>1. from \in {"route", "bound", "custom", "default"} /\ j.at + 1 \in Nat \ {0}
        BY <1>2, JobTyped
    <2>2. k = [j EXCEPT !.at = j.at + 1, !.from = from]
        OBVIOUS
    <2> HIDE DEF from
    <2>3. k \in Job /\ k.method = j.method /\ k.at = j.at + 1 /\ k.from = from
        BY <1>2, <2>1, <2>2 DEF Job
    <2> QED
        BY <2>3 DEF from
<1>4. Becomes(r, j, k)
    BY DEF Onward
<1> HIDE DEF k
<1>5. j.at \in 1..Len(Chain) /\ j.at # Len(Chain) /\ Len(Chain) \in Nat
    BY <1>1, ChainFacts DEF Placed, Plugin
<1>6. Placed(r, k)
    BY <1>1, <1>2, <1>3, <1>5, JobTyped DEF Placed
<1> QED
    BY <1>1, <1>3, <1>4, <1>6, BecomesProper DEF TypeOK

LEMMA ArriveProper ==
    ASSUME Inv, NEW r \in Request, NEW k \in Kinds, NEW p \in Package,
           NEW c \in Basic \cup tokens \cup {Nothing, Garbled}, Arrive(r, k, p, c)
    PROVE  Proper(r)
<1>1. TypeOK /\ Fits(r)
    BY DEF Inv
<1>2. c \in Credential /\ Basic \cup Token \cup {Nothing, Garbled} = Credential
    BY <1>1 DEF TypeOK, Credential
<1>3. /\ UNCHANGED config /\ users' = users /\ tokens' = tokens /\ remote' = remote
      /\ response' = response /\ granted' = granted
      /\ kind' = [kind EXCEPT ![r] = k] /\ stage' = [stage EXCEPT ![r] = "identity"]
      /\ cred' = [cred EXCEPT ![r] = c] /\ pkg' = [pkg EXCEPT ![r] = p]
      /\ jobs' = [jobs EXCEPT ![r] = IF k = "adduser" THEN {Job1("adduser")} ELSE {}]
      /\ k = "adduser" => c.type = "basic"
      /\ c.type \in {"aes", "jwt"} => c \in tokens
      /\ valid \subseteq valid' /\ valid' \subseteq valid \cup {r}
    BY DEF Arrive
<1>4. stage[r] = "none" /\ response[r] = "none" /\ remote[r] = Anonymous
    BY <1>1 DEF Fits, Fresh, Arrive
<1>5. Job1("adduser") \in Job
    BY JobTyped DEF Methods
<1>6. TypeOK'
    <2>1. kind' \in [Request -> Kinds \cup {"none"}] /\ pkg' \in [Request -> Package]
        BY <1>1, <1>3 DEF TypeOK
    <2>2. cred' \in [Request -> Basic \cup Token \cup {Nothing, Garbled}]
        BY <1>1, <1>2, <1>3 DEF TypeOK
    <2>3. jobs' \in [Request -> SUBSET Job]
        BY <1>1, <1>3, <1>5 DEF TypeOK
    <2>4. HttpTypeOK'
        BY <1>1, <1>3 DEF TypeOK, HttpTypeOK, Stages
    <2> QED
        BY <1>1, <1>3, <2>1, <2>2, <2>3, <2>4 DEF TypeOK, config
<1>7. Local(r)
    BY <1>1, <1>3 DEF Local, Others, Grows, TypeOK, HttpTypeOK
<1>8. /\ kind'[r] = k /\ stage'[r] = "identity" /\ cred'[r] = c
      /\ jobs'[r] = IF k = "adduser" THEN {Job1("adduser")} ELSE {}
    BY <1>1, <1>3 DEF TypeOK, HttpTypeOK
<1>9. \A j \in jobs[r]' : Placed(r, j)'
    <2>1. CASE k = "adduser"
        <3>1. Chain' = Chain
            BY <1>3 DEF Chain, config
        <3>2. Len(Chain) \in Nat /\ 1 \in 1..Len(Chain)
            BY <1>1, ChainFacts
        <3> QED
            BY <1>8, <2>1, <3>1, <3>2, JobTyped DEF Placed, Methods
    <2> QED
        BY <1>8, <2>1
<1>10. OneChain(r)' /\ Silent(r)' /\ Served(r)' /\ Granted(r)'
    BY <1>3, <1>4, <1>8 DEF OneChain, Silent, Served, Granted
<1>11. Fresh(r)' /\ LoginStage(r)' /\ TokenKnown(r)' /\ Proved(r)'
    BY <1>3, <1>4, <1>8, RemoteTyped DEF Fresh, LoginStage, TokenKnown, Proved, Kinds
<1> QED
    BY <1>6, <1>7, <1>9, <1>10, <1>11 DEF Proper, Fits

\* A signed token is taken at its word: it was given out.
LEMMA SignedProper ==
    ASSUME Inv, NEW r \in Request, Signed(r, cred[r]),
           kind[r] \in {"access", "publish", "unpublish", "web"},
           UNCHANGED <<config, users, tokens, request, valid, granted>>
    PROVE  Proper(r)
<1>1. TypeOK /\ TokenKnown(r)
    BY DEF Inv, Fits
<1>2. cred[r] \in Credential
    BY <1>1 DEF TypeOK, Credential
<1>3. CASE Route(r, Anonymous)
    BY <1>3, RemoteTyped, RouteProper DEF Route
<1>4. CASE cred[r].type = "jwt" /\ Route(r, RemoteUser(cred[r].user, cred[r].groups \cup {cred[r].user}))
    <2>1. cred[r].user \in User /\ cred[r].groups \cup {cred[r].user} \in SUBSET Group /\ cred[r] \in tokens
        BY <1>1, <1>2, <1>4, CredentialTyped, AuthAssumption DEF TokenKnown
    <2> QED
        BY <1>4, <2>1, RemoteTyped, RouteProper DEF Route
<1> QED
    BY <1>3, <1>4 DEF Signed

\* A token that cannot be verified: the client is told, and nobody acts.
LEMMA NotYetProper ==
    ASSUME Inv, NEW r \in Request, NotYet(r, cred[r]), Entering(r),
           kind[r] \in {"access", "publish", "unpublish"},
           UNCHANGED <<config, users, tokens, request, valid, granted>>
    PROVE  Proper(r)
<1>1. TypeOK /\ Fits(r)
    BY DEF Inv
<1>2. stage[r] = "identity" /\ jobs[r] = {}
    BY DEF Entering
<1>3. /\ UNCHANGED config /\ users' = users /\ tokens' = tokens /\ kind' = kind /\ pkg' = pkg
      /\ cred' = cred /\ jobs' = jobs /\ valid' = valid /\ granted' = granted
    BY DEF NotYet, config, request
<1>4. /\ remote' = [remote EXCEPT ![r] = Anonymous]
      /\ response' = [response EXCEPT ![r] = IF @ = "none" THEN "error" ELSE @]
      /\ stage' = [stage EXCEPT ![r] = IF @ \in {"identity", "allow"} THEN "over" ELSE @]
    BY DEF NotYet, HandleError, ReportError, Final
<1>5. TypeOK'
    <2>1. HttpTypeOK'
        BY <1>1, <1>4 DEF TypeOK, HttpTypeOK, Stages
    <2>2. remote' \in [Request -> [name : User \cup {NoUser}, groups : SUBSET Group]]
        BY <1>1, <1>4, RemoteTyped DEF TypeOK, Acting
    <2> QED
        BY <1>1, <1>3, <2>1, <2>2 DEF TypeOK, config
<1>6. Local(r)
    BY <1>1, <1>3, <1>4 DEF Local, Others, Grows, TypeOK, HttpTypeOK
<1>7. stage'[r] = "over" /\ remote'[r] = Anonymous /\ Anonymous.name = NoUser
    BY <1>1, <1>2, <1>4, RemoteTyped DEF TypeOK, HttpTypeOK
<1> QED
    BY <1>1, <1>2, <1>3, <1>5, <1>6, <1>7
    DEF Proper, Fits, Fresh, OneChain, Silent, LoginStage, TokenKnown, Proved, Granted, Served

LEMMA EnterProper ==
    ASSUME Inv, NEW r \in Request, Enter(r)
    PROVE  Proper(r)
<1>1. TypeOK /\ Fits(r)
    BY DEF Inv
<1>2. cred[r] \in Credential
    BY <1>1 DEF TypeOK, Credential
<1>3. /\ kind[r] \in {"access", "publish", "unpublish"} /\ stage[r] = "identity" /\ Entering(r)
      /\ UNCHANGED <<config, users, tokens, request, valid, granted>>
    BY DEF Enter, Entering
<1>4. \/ Route(r, Anonymous) \/ Signed(r, cred[r]) \/ NotYet(r, cred[r])
      \/ /\ cred[r].type \in {"basic", "aes"}
         /\ jobs' = [jobs EXCEPT ![r] = {Job1("authenticate")}] /\ UNCHANGED <<remote, httpVars>>
    BY <1>2, CredentialTyped DEF Enter
<1>5. CASE Route(r, Anonymous)
    BY <1>3, <1>5, RemoteTyped, RouteProper DEF Route
<1>6. CASE Signed(r, cred[r])
    BY <1>3, <1>6, SignedProper
<1>7. CASE /\ cred[r].type \in {"basic", "aes"}
           /\ jobs' = [jobs EXCEPT ![r] = {Job1("authenticate")}] /\ UNCHANGED <<remote, httpVars>>
    <2>1. /\ UNCHANGED config /\ users' = users /\ tokens' = tokens /\ kind' = kind /\ pkg' = pkg
          /\ cred' = cred /\ remote' = remote /\ stage' = stage /\ response' = response
          /\ valid' = valid /\ granted' = granted
        BY <1>3, <1>7 DEF config, request, httpVars
    <2>2. jobs'[r] = {Job1("authenticate")} /\ \A q \in Request \ {r} : jobs'[q] = jobs[q]
        BY <1>1, <1>7 DEF TypeOK
    <2>3. Job1("authenticate") \in Job
        BY JobTyped DEF Methods
    <2>4. TypeOK'
        <3>1. jobs' \in [Request -> SUBSET Job]
            BY <1>1, <1>7, <2>3 DEF TypeOK
        <3> QED
            BY <1>1, <2>1, <3>1 DEF TypeOK, HttpTypeOK, config
    <2>5. Local(r)
        BY <2>1, <2>2 DEF Local, Others, Grows
    <2>6. \A j \in jobs[r]' : Placed(r, j)'
        <3>1. Chain' = Chain
            BY <2>1 DEF Chain, config
        <3>2. Len(Chain) \in Nat /\ 1 \in 1..Len(Chain)
            BY <1>1, ChainFacts
        <3> QED
            BY <1>3, <1>7, <2>1, <2>2, <3>1, <3>2, JobTyped DEF Placed, Methods, Password1
    <2>7. OneChain(r)' /\ Granted(r)' /\ Served(r)'
        BY <1>3, <2>1, <2>2 DEF OneChain, Granted, Served
    <2>8. Silent(r)'
        BY <1>1, <2>1, SameRules DEF Fits, Silent, Excused
    <2>9. Fresh(r)' /\ LoginStage(r)' /\ TokenKnown(r)' /\ Proved(r)'
        BY <1>1, <1>3, <2>1 DEF Fits, Fresh, LoginStage, TokenKnown, Proved
    <2> QED
        BY <2>4, <2>5, <2>6, <2>7, <2>8, <2>9 DEF Proper, Fits
<1> QED
    BY <1>3, <1>4, <1>5, <1>6, <1>7, NotYetProper

LEMMA EnterWebProper ==
    ASSUME Inv, NEW r \in Request, EnterWeb(r)
    PROVE  Proper(r)
<1>1. TypeOK
    BY DEF Inv
<1>2. cred[r] \in Credential
    BY <1>1 DEF TypeOK, Credential
<1>3. kind[r] = "web" /\ UNCHANGED <<config, users, tokens, request, valid, granted>>
    BY DEF EnterWeb
<1>4. \/ Route(r, Anonymous) \/ Signed(r, cred[r])
      \/ cred[r] = Garbled /\ Onto(r, Anonymous, "error")
    BY <1>2, CredentialTyped DEF EnterWeb
<1> QED
    BY <1>3, <1>4, RemoteTyped, RouteProper, SignedProper DEF Route

LEMMA AuditProper ==
    ASSUME Inv, NEW r \in Request, Audit(r)
    PROVE  Proper(r)
<1>1. TypeOK /\ Fits(r)
    BY DEF Inv
<1>2. kind[r] = "audit" /\ jobs[r] = {}
    BY DEF Audit, Entering
<1>3. /\ UNCHANGED config /\ users' = users /\ tokens' = tokens /\ kind' = kind /\ pkg' = pkg
      /\ cred' = cred /\ jobs' = jobs /\ remote' = remote /\ valid' = valid /\ granted' = granted
    BY DEF Audit, config, request
<1>4. PICK x \in {"ok", "error"} : response' = [response EXCEPT ![r] = x]
    BY DEF Audit, AuditAnswers
<1>5. stage' = [stage EXCEPT ![r] = "over"]
    BY DEF Audit
<1>6. TypeOK'
    <2>1. HttpTypeOK'
        BY <1>1, <1>4, <1>5 DEF TypeOK, HttpTypeOK, Stages
    <2> QED
        BY <1>1, <1>3, <2>1 DEF TypeOK, config
<1>7. Local(r)
    BY <1>1, <1>3, <1>4, <1>5 DEF Local, Others, Grows, TypeOK, HttpTypeOK
<1>8. stage'[r] = "over"
    BY <1>1, <1>5 DEF TypeOK, HttpTypeOK
<1> QED
    BY <1>1, <1>2, <1>3, <1>6, <1>7, <1>8
    DEF Proper, Fits, Fresh, OneChain, Silent, LoginStage, TokenKnown, Proved, Granted, Served

LEMMA HandlerProper ==
    ASSUME Inv, NEW r \in Request, Handler(r)
    PROVE  Proper(r)
<1>1. TypeOK /\ Fits(r)
    BY DEF Inv
<1>2. stage[r] = "handler"
    BY DEF Handler, Serve
<1>3. /\ UNCHANGED config /\ users' = users /\ tokens' = tokens /\ kind' = kind /\ pkg' = pkg
      /\ cred' = cred /\ jobs' = jobs /\ remote' = remote /\ valid' = valid /\ granted' = granted
    BY DEF Handler, config, request
<1>4. /\ stage' = [stage EXCEPT ![r] = "served"]
      /\ response' = [response EXCEPT ![r] = IF @ = "none" THEN "ok" ELSE @]
    BY DEF Handler, Serve, Final
<1>5. TypeOK'
    <2>1. HttpTypeOK'
        BY <1>1, <1>4 DEF TypeOK, HttpTypeOK, Stages
    <2> QED
        BY <1>1, <1>3, <2>1 DEF TypeOK, config
<1>6. Local(r)
    BY <1>1, <1>3, <1>4 DEF Local, Others, Grows, TypeOK, HttpTypeOK
<1>7. stage'[r] = "served" /\ (response[r] = "none" => response'[r] = "ok")
    BY <1>1, <1>4 DEF TypeOK, HttpTypeOK
<1>8. \A j \in jobs[r]' : Placed(r, j)'
    BY <1>1, <1>2, <1>3, <1>7, SameRules DEF Fits, Placed
<1>9. OneChain(r)' /\ Silent(r)' /\ Served(r)'
    BY <1>1, <1>2, <1>3, <1>7, SameRules DEF Fits, OneChain, Silent, Served, Excused
<1>10. Granted(r)'
    BY <1>1, <1>2, <1>3, SameRight DEF Fits, Granted
<1>11. Fresh(r)' /\ LoginStage(r)' /\ TokenKnown(r)' /\ Proved(r)'
    BY <1>1, <1>2, <1>3, <1>7 DEF Fits, Fresh, LoginStage, TokenKnown, Proved
<1> QED
    BY <1>5, <1>6, <1>8, <1>9, <1>10, <1>11 DEF Proper, Fits

\* What proves a password: auth-memory and the directory are asked, and know it.
LEMMA CallbackOfLogin ==
    ASSUME Inv, NEW r \in Request, NEW j \in jobs[r],
           \/ PassOver(r, j) \/ MemoryAuthenticate(r, j) \/ DirectoryBind(r, j) \/ DirectoryGroups(r, j)
           \/ DefaultAuthenticate(r, j)
    PROVE  Proper(r)
<1>1. TypeOK /\ Placed(r, j) /\ Witnessed(r)
    BY DEF Inv, Fits
<1>2. j \in Job
    BY <1>1 DEF TypeOK
<1>3. cred[r] \in Credential
    BY <1>1 DEF TypeOK, Credential
<1>4. j.method = "authenticate" => /\ Password1(cred[r]) /\ cred[r].user \in User
                                   /\ kind[r] \in {"adduser", "access", "publish", "unpublish"}
                                   /\ stage[r] = "identity"
    BY <1>1, <1>3, CredentialTyped DEF Placed
<1>5. CASE PassOver(r, j)
    <2>1. Plugin(j) # "default"
        BY <1>2, <1>5, JobTyped DEF PassOver, Implements, Methods
    <2> QED
        BY <1>5, <2>1, OnwardProper DEF PassOver
<1>6. CASE MemoryAuthenticate(r, j)
    <2>1. j.method = "authenticate" /\ Plugin(j) = "memory"
        BY <1>6 DEF MemoryAuthenticate, Asked
    <2>2. \/ Onward(r, j) /\ UNCHANGED <<tokens, remote, httpVars>>
          \/ users[cred[r].user] = cred[r].password /\ Authenticated(r, j, {cred[r].user})
          \/ Rejected(r, j) /\ UNCHANGED tokens
        BY <1>6 DEF MemoryAuthenticate
    <2>3. UNCHANGED <<config, users, request, valid, granted>>
        BY <1>6 DEF MemoryAuthenticate
    <2>4. CASE Onward(r, j) /\ UNCHANGED <<tokens, remote, httpVars>>
        BY <2>1, <2>3, <2>4, OnwardProper
    <2>5. CASE users[cred[r].user] = cred[r].password /\ Authenticated(r, j, {cred[r].user})
        <3>1. r \in valid
            BY <1>1, <1>4, <2>1, <2>5 DEF Witnessed, Right
        <3> QED
            BY <2>1, <2>3, <2>5, <3>1, AuthenticatedProper
    <2>6. CASE Rejected(r, j) /\ UNCHANGED tokens
        BY <2>1, <2>3, <2>6, RejectedProper
    <2> QED
        BY <2>2, <2>4, <2>5, <2>6
<1>7. CASE DirectoryBind(r, j)
    <2>1. j.method = "authenticate" /\ Plugin(j) = "directory" /\ j.from = "route"
        BY <1>7 DEF DirectoryBind, Asked
    <2>2. UNCHANGED <<config, users, request, valid, granted>>
        BY <1>7 DEF DirectoryBind
    <2>3. CASE Rejected(r, j) /\ UNCHANGED tokens
        BY <2>1, <2>2, <2>3, RejectedProper
    <2>4. CASE cred[r].user = DirUser /\ cred[r].password = DirPassword
        <3>1. HasPlugin("directory")
            BY <1>1, <2>1, ChainFacts DEF Placed, Plugin
        <3>2. r \in valid
            BY <1>1, <1>4, <2>1, <2>4, <3>1 DEF Witnessed, Right, HasPlugin
        <3>3. CASE Authenticated(r, j, {cred[r].user})
            BY <2>1, <2>2, <3>2, <3>3, AuthenticatedProper
        <3>4. CASE /\ Becomes(r, j, [j EXCEPT !.from = "bound"])
                   /\ UNCHANGED <<tokens, remote, httpVars>>
            <4> DEFINE k == [j EXCEPT !.from = "bound"]
            <4>1. k \in Job /\ k.method = "authenticate" /\ k.at = j.at /\ k.from = "bound"
                BY <1>2, <2>1 DEF Job
            <4> HIDE DEF k
            <4>2. Placed(r, k)
                BY <1>1, <1>4, <2>1, <3>2, <4>1 DEF Placed
            <4>3. Becomes(r, j, k)
                BY <3>4 DEF k
            <4> QED
                BY <1>1, <2>2, <3>4, <4>1, <4>2, <4>3, BecomesProper DEF TypeOK
        <3> QED
            BY <1>7, <2>3, <3>3, <3>4 DEF DirectoryBind
    <2> QED
        BY <1>7, <2>3, <2>4 DEF DirectoryBind
<1>8. CASE DirectoryGroups(r, j)
    <2>1. j.method = "authenticate" /\ r \in valid
        BY <1>1, <1>8 DEF DirectoryGroups, Asked, Placed
    <2>2. \/ Rejected(r, j) /\ UNCHANGED tokens
          \/ Authenticated(r, j, {"staff", cred[r].user})
        BY <1>8 DEF DirectoryGroups
    <2>3. UNCHANGED <<config, users, request, valid, granted>>
        BY <1>8 DEF DirectoryGroups
    <2> QED
        BY <2>1, <2>2, <2>3, AuthenticatedProper, RejectedProper
<1>9. CASE DefaultAuthenticate(r, j)
    BY <1>9, RejectedProper DEF DefaultAuthenticate, Asked
<1> QED
    BY <1>5, <1>6, <1>7, <1>8, <1>9

LEMMA CallbackOfAdding ==
    ASSUME Inv, NEW r \in Request, NEW j \in jobs[r], MemoryAdd(r, j) \/ DefaultAdd(r, j)
    PROVE  Proper(r)
<1>1. TypeOK /\ Fits(r) /\ Placed(r, j)
    BY DEF Inv, Fits
<1>2. j.method = "adduser" /\ kind[r] = "adduser" /\ stage[r] = "identity" /\ cred[r].type = "basic"
    BY <1>1 DEF MemoryAdd, DefaultAdd, Asked, Placed, Fits, LoginStage
<1>3. cred[r].user \in User /\ cred[r].password \in Password
    BY <1>1, <1>2, CredentialTyped DEF TypeOK, Credential, Password1
<1>4. CASE Ends(r, j) /\ Refused(r) /\ UNCHANGED <<config, users, tokens, request, remote, valid, granted>>
    BY <1>1, <1>2, <1>4, LoginProper DEF TypeOK
<1>5. CASE /\ users' = IF users[cred[r].user] = None
                       THEN [users EXCEPT ![cred[r].user] = cred[r].password] ELSE users
           /\ Becomes(r, j, Job1("authenticate")) /\ Witness(users') /\ UNCHANGED httpVars
           /\ UNCHANGED <<config, tokens, request, remote, granted>>
    <2>1. users' \in [User -> Password \cup {None}]
        BY <1>1, <1>3, <1>5 DEF TypeOK
    <2>2. valid \subseteq valid' /\ valid' \subseteq Request
        BY <1>1, <1>5 DEF TypeOK, Witness
    <2>3. Len(Chain) \in Nat /\ 1 \in 1..Len(Chain)
        BY <1>1, ChainFacts
    <2>4. Job1("authenticate") \in Job /\ Placed(r, Job1("authenticate"))
        BY <1>2, <2>3, JobTyped DEF Placed, Methods, Password1
    <2>5. granted \subseteq granted' /\ granted' \subseteq Request
        BY <1>1, <1>5 DEF TypeOK
    <2> QED
        BY <1>5, <2>1, <2>2, <2>4, <2>5, BecomesProper
<1> QED
    BY <1>4, <1>5 DEF MemoryAdd, DefaultAdd

\* auth-memory and the last plugin let pass by the rule that counts for what the
\* request wants.
LEMMA CallbackOfAllow ==
    ASSUME Inv, NEW r \in Request, NEW j \in jobs[r], Allow(r, j) \/ AllowCustom(r, j)
    PROVE  Proper(r)
<1>1. TypeOK /\ Placed(r, j)
    BY DEF Inv, Fits
<1>2. j.method \in {"allow_access", "allow_publish"}
    BY DEF Allow, AllowCustom
<1>3. CASE Allow(r, j)
    <2> DEFINE rule == Rules(r)[Action(j)]
               permission == IF Plugin(j) = "memory" THEN MemoryPermission(rule, remote[r])
                             ELSE HasPermission(rule, remote[r])
    <2>1. Answered(r, j, Verdict(permission)) /\ UNCHANGED <<config, users, tokens, request, remote, valid, granted>>
        BY <1>3 DEF Allow
    <2>2. Verdict(permission) \in {"passed", "denied"} /\ (Verdict(permission) = "passed" => permission)
        BY DEF Verdict
    <2>3. permission => Permitted(r, rule)
        <3>1. Plugin(j) = "memory" => HasPlugin("memory")
            BY <1>1, ChainFacts DEF Placed, Plugin
        <3> QED
            BY <3>1 DEF Permitted, HasPlugin
    <2> HIDE DEF permission
    <2>4. Permitted(r, rule) => Rightful(r)
        <3>1. CASE j.method = "allow_access"
            <4>1. rule = Listed(r, "access") /\ kind[r] \in {"access", "web"}
                BY <1>1, <3>1, RulesAreListed DEF Placed, Action
            <4>2. Rule(r) = Listed(r, "access")
                BY <4>1 DEF Rule
            <4> QED
                BY <4>1, <4>2 DEF Rightful
        <3>2. CASE j.method = "allow_publish"
            <4>1. rule = Listed(r, "publish")
                BY <1>1, <3>2, RulesAreListed DEF Action
            <4>2. \/ kind[r] = "publish"
                  \/ kind[r] = "unpublish" /\ Listed(r, "unpublish") = {}
                  \/ kind[r] = "unpublish" /\ HasPlugin("custom")
                BY <1>1, <3>2 DEF Placed
            <4>3. kind[r] = "publish" \/ (kind[r] = "unpublish" /\ Listed(r, "unpublish") = {})
                  => Rule(r) = Listed(r, "publish")
                BY DEF Rule
            <4> QED
                BY <4>1, <4>2, <4>3 DEF Rightful
        <3> QED
            BY <1>2, <3>1, <3>2
    <2>5. granted \subseteq granted' /\ granted' \subseteq Request
        BY <1>1, <2>1 DEF TypeOK
    <2> QED
        BY <1>2, <2>1, <2>2, <2>3, <2>4, <2>5, AnsweredProper
<1>4. CASE AllowCustom(r, j)
    <2>1. Plugin(j) = "custom" /\ UNCHANGED <<config, users, tokens, request, remote, valid>>
        BY <1>4 DEF AllowCustom
    <2>2. granted' \in {granted, granted \cup {r}}
        BY <1>4 DEF AllowCustom
    <2>3. granted \subseteq granted' /\ granted' \subseteq Request
        BY <1>1, <2>2 DEF TypeOK
    <2>4. \/ Answered(r, j, "passed") /\ r \in granted'
          \/ Answered(r, j, "denied")
          \/ Onward(r, j) /\ UNCHANGED <<httpVars, granted>>
        BY <1>4 DEF AllowCustom
    <2>5. CASE Onward(r, j) /\ UNCHANGED <<httpVars, granted>>
        BY <1>2, <2>1, <2>5, OnwardProper
    <2> QED
        BY <1>2, <2>1, <2>3, <2>4, <2>5, AnsweredProper
<1> QED
    BY <1>3, <1>4

\* The default plugin answers an unpublish by the rule for it, and goes on to
\* that for publish only when there is none.
LEMMA CallbackOfUnpublish ==
    ASSUME Inv, NEW r \in Request, NEW j \in jobs[r], UnpublishDefault(r, j) \/ UnpublishCustom(r, j)
    PROVE  Proper(r)
<1> DEFINE k(from) == [method |-> "allow_publish", at |-> 1, from |-> from]
<1>1. TypeOK /\ Fits(r) /\ Placed(r, j)
    BY DEF Inv, Fits
<1>2. j.method = "allow_unpublish" /\ kind[r] = "unpublish" /\ stage[r] \notin {"none", "identity"}
    BY <1>1 DEF UnpublishDefault, UnpublishCustom, Placed
<1>3. Len(Chain) \in Nat /\ 1 \in 1..Len(Chain)
    BY <1>1, ChainFacts
<1>4. \A from \in {"default", "custom"} :
         k(from) \in Job /\ k(from).method = "allow_publish" /\ k(from).at = 1 /\ k(from).from = from
    BY DEF Job, Methods
<1> HIDE DEF k
<1>5. /\ Listed(r, "unpublish") = {} => Placed(r, k("default"))
      /\ HasPlugin("custom") => Placed(r, k("custom"))
    BY <1>2, <1>3, <1>4 DEF Placed
<1>6. CASE UnpublishDefault(r, j)
    <2>1. UNCHANGED <<config, users, tokens, request, remote, valid, granted>>
        BY <1>6 DEF UnpublishDefault
    <2>2. Rules(r)["unpublish"] = Listed(r, "unpublish")
        BY <1>1, RulesAreListed
    <2>3. granted \subseteq granted' /\ granted' \subseteq Request
        BY <1>1, <2>1 DEF TypeOK
    <2>4. CASE Listed(r, "unpublish") = {}
        <3>1. Becomes(r, j, k("default")) /\ UNCHANGED httpVars
            BY <1>6, <2>2, <2>4 DEF UnpublishDefault, k
        <3> QED
            BY <1>1, <1>4, <1>5, <2>1, <2>3, <2>4, <3>1, BecomesProper DEF TypeOK
    <2>5. CASE Listed(r, "unpublish") # {}
        <3> DEFINE permission == HasPermission(Listed(r, "unpublish"), remote[r])
        <3>1. Answered(r, j, Verdict(permission))
            BY <1>6, <2>2, <2>5 DEF UnpublishDefault
        <3>2. Verdict(permission) \in {"passed", "denied"} /\ (Verdict(permission) = "passed" => permission)
            BY DEF Verdict
        <3>3. Rule(r) = Listed(r, "unpublish")
            BY <1>2, <2>5 DEF Rule
        <3>4. permission => Rightful(r)
            BY <3>3 DEF Rightful, Permitted
        <3> HIDE DEF permission
        <3> QED
            BY <1>2, <2>1, <2>3, <3>1, <3>2, <3>4, AnsweredProper
    <2> QED
        BY <2>4, <2>5
<1>7. CASE UnpublishCustom(r, j)
    <2>1. HasPlugin("custom") /\ UNCHANGED <<config, users, tokens, request, remote, valid>>
        BY <1>1, <1>7 DEF UnpublishCustom, Placed
    <2>2. granted' \in {granted, granted \cup {r}}
        BY <1>7 DEF UnpublishCustom
    <2>3. granted \subseteq granted' /\ granted' \subseteq Request
        BY <1>1, <2>2 DEF TypeOK
    <2>4. \/ Answered(r, j, "passed") /\ r \in granted'
          \/ Answered(r, j, "denied")
          \/ Ends(r, j) /\ UNCHANGED <<httpVars, granted>>
          \/ Becomes(r, j, k("custom")) /\ UNCHANGED <<httpVars, granted>>
        BY <1>7 DEF UnpublishCustom, k
    <2>5. CASE Ends(r, j) /\ UNCHANGED <<httpVars, granted>>
        BY <1>1, <1>2, <2>1, <2>5, EndsProper
    <2>6. CASE Becomes(r, j, k("custom")) /\ UNCHANGED <<httpVars, granted>>
        BY <1>1, <1>4, <1>5, <2>1, <2>3, <2>6, BecomesProper DEF TypeOK
    <2> QED
        BY <1>2, <2>1, <2>3, <2>4, <2>5, <2>6, AnsweredProper
<1> QED
    BY <1>6, <1>7

-----------------------------------------------------------------------------
(* The invariant *)

\* Passwords that are right stay proved, also when one is added or changed.
LEMMA StaysWitnessed ==
    ASSUME Inv, [Next]_vars, NEW q \in Request
    PROVE  Witnessed(q)'
<1>1. TypeOK /\ Witnessed(q)
    BY DEF Inv
<1>2. CASE UNCHANGED <<plugins, users, cred>> /\ valid \subseteq valid'
    BY <1>1, <1>2 DEF Witnessed, Right
<1>3. CASE Witness(users') /\ UNCHANGED <<plugins, cred>>
    BY <1>3 DEF Witnessed, Witness, Right
<1>4. ASSUME NEW r \in Request, NEW k \in Kinds, NEW p \in Package,
             NEW c \in Basic \cup tokens \cup {Nothing, Garbled}, Arrive(r, k, p, c)
      PROVE  Witnessed(q)'
    <2>1. UNCHANGED <<plugins, users>> /\ cred' = [cred EXCEPT ![r] = c]
          /\ valid' = IF Password1(c) /\ Right(users, c.user, c.password) THEN valid \cup {r} ELSE valid
        BY <1>4 DEF Arrive, config
    <2>2. CASE q = r
        <3>1. cred'[q] = c
            BY <1>1, <2>1, <2>2 DEF TypeOK
        <3> QED
            BY <2>1, <2>2, <3>1 DEF Witnessed, Right
    <2>3. CASE q # r
        <3>1. cred'[q] = cred[q]
            BY <1>1, <2>1, <2>3 DEF TypeOK
        <3> QED
            BY <1>1, <2>1, <3>1 DEF Witnessed, Right
    <2> QED
        BY <2>2, <2>3
<1>5. ASSUME NEW r \in Request, Enter(r) \/ EnterWeb(r) \/ Audit(r) \/ Handler(r)
      PROVE  UNCHANGED <<plugins, users, cred>> /\ valid \subseteq valid'
    BY <1>5 DEF Enter, EnterWeb, Audit, Handler, config, request
<1>6. ASSUME NEW r \in Request, NEW j \in jobs[r], Callback(r, j)
      PROVE  \/ UNCHANGED <<plugins, users, cred>> /\ valid \subseteq valid'
             \/ Witness(users') /\ UNCHANGED <<plugins, cred>>
    <2>1. CASE MemoryAdd(r, j)
        BY <2>1 DEF MemoryAdd, config, request
    <2>2. CASE \/ PassOver(r, j) \/ MemoryAuthenticate(r, j) \/ DirectoryBind(r, j)
               \/ DirectoryGroups(r, j) \/ DefaultAuthenticate(r, j) \/ DefaultAdd(r, j)
        BY <2>2 DEF PassOver, MemoryAuthenticate, DirectoryBind, DirectoryGroups, DefaultAuthenticate,
                    DefaultAdd, config, request
    <2>3. CASE Allow(r, j) \/ AllowCustom(r, j) \/ UnpublishDefault(r, j) \/ UnpublishCustom(r, j)
        BY <2>3 DEF Allow, AllowCustom, UnpublishDefault, UnpublishCustom, config, request
    <2> QED
        BY <1>6, <2>1, <2>2, <2>3 DEF Callback
<1>7. ASSUME NEW u \in User, NEW old \in Password, NEW new \in Password, ChangePassword(u, old, new)
      PROVE  Witness(users') /\ UNCHANGED <<plugins, cred>>
    BY <1>7 DEF ChangePassword, config, request
<1>8. CASE UNCHANGED vars
    BY <1>2, <1>8 DEF vars, config, request
<1> QED
    BY <1>2, <1>3, <1>4, <1>5, <1>6, <1>7, <1>8 DEF Next, Step, Finished

LEMMA StepProper ==
    ASSUME Inv, NEW r \in Request, Step(r)
    PROVE  Proper(r)
<1>1. ASSUME NEW j \in jobs[r], Callback(r, j) PROVE Proper(r)
    BY <1>1, CallbackOfLogin, CallbackOfAdding, CallbackOfAllow, CallbackOfUnpublish DEF Callback
<1> QED
    BY <1>1, EnterProper, EnterWebProper, AuditProper, HandlerProper DEF Step

LEMMA InvInit == Init => Inv
<1> SUFFICES ASSUME Init PROVE Inv
    OBVIOUS
<1>1. TypeOK
    <2>1. packages \in PackageLists /\ plugins \in Chains /\ legacy \in BOOLEAN /\ signs \in BOOLEAN
        BY DEF Init, IsAESLegacy
    <2>2. pkg \in [Request -> Package]
        BY AuthAssumption DEF Init
    <2>3. remote \in [Request -> Acting]
        BY RemoteTyped DEF Init
    <2> QED
        BY <2>1, <2>2, <2>3 DEF Init, TypeOK, HttpTypeOK, HttpInit, Stages, Acting
<1>2. ASSUME NEW r \in Request PROVE Fits(r) /\ Witnessed(r)
    BY RemoteTyped
    DEF Init, HttpInit, Fits, Fresh, OneChain, Silent, LoginStage, TokenKnown, Proved, Granted, Served,
        Witnessed, Password1, Nothing
<1> QED
    BY <1>1, <1>2 DEF Inv

LEMMA InvNext == Inv /\ [Next]_vars => Inv'
<1> SUFFICES ASSUME Inv, [Next]_vars PROVE Inv'
    OBVIOUS
<1>1. \A q \in Request : Witnessed(q)'
    BY StaysWitnessed
<1>2. ASSUME NEW r \in Request, Proper(r)
      PROVE  TypeOK' /\ \A q \in Request : Fits(q)'
    BY <1>2, OthersFit DEF Proper, Inv
<1>3. ASSUME NEW r \in Request, NEW k \in Kinds, NEW p \in Package,
             NEW c \in Basic \cup tokens \cup {Nothing, Garbled}, Arrive(r, k, p, c)
      PROVE  Proper(r)
    BY <1>3, ArriveProper
<1>4. CASE UNCHANGED <<config, tokens, request, jobs, remote, httpVars, granted>>
           /\ users' \in [User -> Password \cup {None}] /\ valid \subseteq valid' /\ valid' \subseteq Request
    <2>1. /\ UNCHANGED config /\ tokens' = tokens /\ kind' = kind /\ pkg' = pkg /\ cred' = cred
          /\ jobs' = jobs /\ remote' = remote /\ stage' = stage /\ response' = response
          /\ granted' = granted
        BY <1>4 DEF config, request, httpVars
    <2>2. TypeOK'
        BY <1>4, <2>1 DEF Inv, TypeOK, HttpTypeOK, config
    <2>3. ASSUME NEW q \in Request PROVE Fits(q)'
        <3>1. Fits(q)
            BY DEF Inv
        <3>2. \A j \in jobs[q]' : Placed(q, j)'
            BY <1>4, <2>1, <3>1, SamePlace DEF Fits
        <3>3. OneChain(q)' /\ Silent(q)' /\ Served(q)'
            BY <2>1, <3>1, SameRules DEF Fits, OneChain, Silent, Served, Excused
        <3>4. Granted(q)'
            BY <2>1, <3>1, SameRight DEF Fits, Granted
        <3>5. Fresh(q)' /\ LoginStage(q)' /\ TokenKnown(q)' /\ Proved(q)'
            BY <1>4, <2>1, <3>1 DEF Fits, Fresh, LoginStage, TokenKnown, Proved
        <3> QED
            BY <3>2, <3>3, <3>4, <3>5 DEF Fits
    <2> QED
        BY <1>1, <2>2, <2>3 DEF Inv
<1>5. ASSUME NEW u \in User, NEW old \in Password, NEW new \in Password, ChangePassword(u, old, new)
      PROVE  Inv'
    <2>1. users' \in [User -> Password \cup {None}]
        BY <1>5 DEF ChangePassword, MemoryChangePassword, Inv, TypeOK
    <2>2. valid \subseteq valid' /\ valid' \subseteq Request
        BY <1>5 DEF ChangePassword, Witness, Inv, TypeOK
    <2> QED
        BY <1>4, <1>5, <2>1, <2>2 DEF ChangePassword
<1>6. CASE UNCHANGED vars
    BY <1>4, <1>6 DEF vars, Inv, TypeOK
<1>7. ASSUME NEW r \in Request, Step(r) PROVE Proper(r)
    BY <1>7, StepProper
<1> QED
    BY <1>1, <1>2, <1>3, <1>5, <1>6, <1>7 DEF Next, Finished, Inv

LEMMA Invariant == Spec => []Inv
<1> QED
    BY InvInit, InvNext, PTL DEF Spec

-----------------------------------------------------------------------------
\* The variables keep their types, whatever the plugins answer.
THEOREM TypeCorrect == Spec => []TypeOK
<1>1. Inv => TypeOK
    BY DEF Inv
<1> QED
    BY <1>1, Invariant, PTL

\* Nobody acts for a user without a password that was that user's while the
\* request ran, or a signed token that was given out for one: for any plugins in
\* any order, with users added and passwords changed in between.
THEOREM IdentityIsProved == Spec => []IdentityProved
<1>1. Inv => IdentityProved
    BY DEF Inv, Fits, Proved, IdentityProved
<1> QED
    BY <1>1, Invariant, PTL

\* What is carried out was allowed by the first entry of the configuration that
\* matches the package, or by a plugin that said so: for any entries, and any
\* plugins.
THEOREM ServedByRules == Spec => []GrantedByRules
<1>1. Inv => GrantedByRules
    BY DEF Inv, Fits, Granted, Rightful, GrantedByRules, HasPlugin
<1> QED
    BY <1>1, Invariant, PTL

\* A request that was refused is not carried out, but for the two kinds that are
\* answered more than once.
THEOREM RefusedIsNotServed == Spec => []RefusedNotServed
<1>1. Inv => RefusedNotServed
    BY DEF Inv, Fits, Served, Excused, Twofold, RefusedNotServed, HasPlugin
<1> QED
    BY <1>1, Invariant, PTL
=============================================================================
