-------------------------- MODULE UplinkSync_proofs --------------------------
(***************************************************************************)
(* An etag in package.json, or in an answer, stands for versions that are   *)
(* there or were unpublished: for any number of uplinks, requests, versions *)
(* and failures.  No lock is needed for it, because a request that stores   *)
(* an etag over another stores the versions that came with it as well.  The *)
(* invariant says the same of the package every request under way has in    *)
(* memory, and that an answer on its way has a request that waits for it.   *)
(***************************************************************************)
EXTENDS UplinkSync, FiniteSetTheorems, WellFoundedInduction, TLAPS

\* Honest with W for the versions that were unpublished.
HonestBut(p, W) ==
    \A u \in Uplink : p.etag[u] # None => p.etag[u].versions \subseteq Known(p) \cup W

Busy == {"waiting", "saving", "creating"}

MemHonest ==
    \A r \in Req : pc[r] \in Busy \/ answer[r] = "found" =>
        mem[r] \in Package /\ HonestBut(mem[r], withdrawn)

ReplyAwaited ==
    \A r \in Req, u \in Uplink : reply[r][u] # None => Awaits(r, u)

FileHonest == local # NoPkg => HonestBut(local, withdrawn)

Inv == TypeOK /\ MemHonest /\ ReplyAwaited /\ FileHonest

-----------------------------------------------------------------------------
(* The operators on packages *)

\* The maximum of a finite set of numbers is one of its elements, and none is
\* above it: the element with the fewest others above it.
LEMMA MaxIsIn ==
    ASSUME NEW S \in SUBSET Nat, IsFiniteSet(S), S # {}
    PROVE  Max(S) \in S /\ \A y \in S : Max(S) >= y
<1> DEFINE Above(x) == {y \in S : y > x}
           R == OpToRel(<, Nat)
           N == {Cardinality(Above(x)) : x \in S}
<1>1. \A x \in S : IsFiniteSet(Above(x)) /\ Cardinality(Above(x)) \in Nat
    BY FS_Subset, FS_CardinalityType
<1>2. \A a, b \in Nat : a < b => <<a, b>> \in R
    BY DEF OpToRel
<1> HIDE DEF R
<1>3. PICK x \in S : \A y \in S : <<Cardinality(Above(y)), Cardinality(Above(x))>> \notin R
    <2>1. N \subseteq Nat /\ N # {}
        BY <1>1
    <2>2. IsWellFoundedOn(R, Nat)
        BY NatLessThanWellFounded DEF R
    <2> HIDE DEF N
    <2>3. PICK n \in N : \A k \in N : ~(<<k, n>> \in R)
        BY <2>1, <2>2, WFMin
    <2> QED
        BY <2>3, Zenon DEF N
<1>4. ASSUME NEW y \in S, y > x PROVE FALSE
    <2>1. x \in Int /\ y \in Int /\ \A z \in S : z \in Int
        OBVIOUS
    <2>2. ~(y > y) /\ \A z \in S : z > y => z > x
        BY <1>4, <2>1
    <2>3. Above(y) \in SUBSET Above(x) /\ y \in Above(x) /\ y \notin Above(y)
        BY <1>4, <2>2
    <2>4. Cardinality(Above(y)) <= Cardinality(Above(x)) /\ Cardinality(Above(y)) # Cardinality(Above(x))
        BY <1>1, <2>3, FS_Subset
    <2>5. <<Cardinality(Above(y)), Cardinality(Above(x))>> \in R
        BY <1>1, <1>2, <2>4
    <2> QED
        BY <1>3, <2>5
<1>5. \E m \in S : \A y \in S : m >= y
    BY <1>4
<1> QED
    BY <1>5 DEF Max

\* The higher of two numbers is one of the two.
LEMMA MaxOfTwo ==
    ASSUME NEW a \in Nat, NEW b \in Nat
    PROVE  Max({a, b}) \in {a, b} /\ Max({a, b}) >= a /\ Max({a, b}) >= b
<1>1. \E x \in {a, b} : \A y \in {a, b} : x >= y
    OBVIOUS
<1> QED
    BY <1>1 DEF Max

\* The known versions are versions, and there is a highest one.
LEMMA KnownType ==
    ASSUME NEW p
    PROVE  Known(p) \in SUBSET Version /\ (Known(p) # {} => Max(Known(p)) \in Version)
<1>1. Known(p) \in SUBSET Version
    BY DEF Known
<1>2. IsFiniteSet(Known(p)) /\ Known(p) \in SUBSET Nat
    BY <1>1, VersionAssumption, FS_Subset
<1> QED
    BY <1>1, <1>2, MaxIsIn

\* generatePackageTemplate makes a package without versions and without etags.
LEMMA TemplateHonest ==
    ASSUME NEW W
    PROVE  Template \in Package /\ HonestBut(Template, W)
BY DEF Template, Package, HonestBut

\* normalizePackage touches neither the versions nor the etags.
LEMMA NormalizeHonest ==
    ASSUME NEW W, NEW p \in Package, HonestBut(p, W)
    PROVE  Normalize(p) \in Package /\ HonestBut(Normalize(p), W)
<1>1. Normalize(p).versions = p.versions /\ Normalize(p).etag = p.etag
    BY DEF Normalize, Package
<1>2. Normalize(p) \in Package
    BY KnownType DEF Normalize, Package
<1>3. Known(Normalize(p)) = Known(p)
    BY <1>1 DEF Known
<1> QED
    BY <1>1, <1>2, <1>3 DEF HonestBut

\* The tag that mergeVersions leaves is one of the two.
LEMMA LaterType ==
    ASSUME NEW p \in Package, NEW c \in Content
    PROVE  Later(p, c) \in Version \cup {Bad, None}
<1>1. p.latest \in Version \cup {Bad, None} /\ c.latest \in Version \cup {Bad}
    BY DEF Package, Content
<1>2. CASE p.latest \in {None, c.latest}
    BY <1>1, <1>2 DEF Later
<1>3. CASE p.latest \notin {None, c.latest} /\ Throws(p, c)
    BY <1>1, <1>3 DEF Later
<1>4. CASE p.latest \notin {None, c.latest} /\ ~Throws(p, c)
    <2>1. p.latest \in Version /\ c.latest \in Version
        BY <1>1, <1>4 DEF Throws
    <2>2. Max({p.latest, c.latest}) \in Version
        BY <2>1, VersionAssumption, MaxOfTwo
    <2> QED
        BY <1>4, <2>2 DEF Later
<1> QED
    BY <1>2, <1>3, <1>4

\* mergeVersions takes every version of the content whose etag it records.
LEMMA MergeHonest ==
    ASSUME NEW W, NEW p \in Package, HonestBut(p, W), NEW u \in Uplink, NEW c \in Content
    PROVE  MergeVersions(p, u, c) \in Package /\ HonestBut(MergeVersions(p, u, c), W)
<1> DEFINE q == MergeVersions(p, u, c)
<1>1. q \in Package
    BY LaterType DEF MergeVersions, UpdateVersionsHiddenUpLink, Package, Origin
<1>2. Known(p) \subseteq Known(q) /\ c.versions \subseteq Known(q)
    BY MarkAssumption DEF Known, MergeVersions, UpdateVersionsHiddenUpLink, Content, Origin
<1>3. \A w \in Uplink : q.etag[w] = IF w = u THEN c ELSE p.etag[w]
    BY DEF MergeVersions, Package
<1> QED
    BY <1>1, <1>2, <1>3 DEF HonestBut

\* updateVersions keeps the versions of both packages, and an etag of either.
LEMMA UpdateHonest ==
    ASSUME NEW W, NEW p \in Package, HonestBut(p, W), NEW q \in Package, HonestBut(q, W)
    PROVE  UpdateVersions(p, q) \in Package /\ HonestBut(UpdateVersions(p, q), W)
<1> DEFINE s == UpdateVersions(p, q)
<1>1. s \in Package
    BY DEF UpdateVersions, Package
<1>2. Known(p) \subseteq Known(s) /\ Known(q) \subseteq Known(s)
    BY DEF Known, UpdateVersions
<1>3. \A w \in Uplink : s.etag[w] = p.etag[w] \/ s.etag[w] = q.etag[w]
    BY DEF UpdateVersions
<1> QED
    BY <1>1, <1>2, <1>3 DEF HonestBut

\* A version that goes joins those unpublished; a tag may change.
LEMMA WithdrawHonest ==
    ASSUME NEW W, NEW p \in Package, HonestBut(p, W), NEW v \in Version,
           NEW t \in Version \cup {Bad, None}
    PROVE  LET q == [p EXCEPT !.versions[v] = None, !.latest = t]
           IN  q \in Package /\ HonestBut(q, W \cup {v})
<1> DEFINE q == [p EXCEPT !.versions[v] = None, !.latest = t]
<1>1. q \in Package /\ q.etag = p.etag
    BY DEF Package
<1>2. Known(p) \subseteq Known(q) \cup {v}
    BY DEF Known, Package
<1> QED
    BY <1>1, <1>2 DEF HonestBut

\* A version that a client publishes takes nothing away.
LEMMA PublishHonest ==
    ASSUME NEW W, NEW p \in Package, HonestBut(p, W), NEW v \in Version
    PROVE  LET q == [p EXCEPT !.versions[v] = Local, !.latest = v]
           IN  q \in Package /\ HonestBut(q, W)
<1> DEFINE q == [p EXCEPT !.versions[v] = Local, !.latest = v]
<1>1. q \in Package /\ q.etag = p.etag
    BY DEF Package, Origin
<1>2. Known(p) \subseteq Known(q)
    BY MarkAssumption DEF Known, Package, Origin
<1> QED
    BY <1>1, <1>2 DEF HonestBut

\* What is honest stays so when more versions are unpublished.
LEMMA HonestMonotone ==
    ASSUME NEW W, NEW X, NEW p, HonestBut(p, W), W \subseteq X
    PROVE  HonestBut(p, X)
BY DEF HonestBut

-----------------------------------------------------------------------------
(* The invariant *)

Partial == UNION {[asked -> Results] : asked \in SUBSET Uplink}

\* One more result of an uplink that was asked.
LEMMA ResultType ==
    ASSUME NEW f \in Partial, NEW u \in DOMAIN f, NEW x \in Results
    PROVE  [f EXCEPT ![u] = x] \in Partial /\ DOMAIN f \subseteq Uplink
BY DEF Partial

\* The registry begins without packages and without requests.
LEMMA InitInv == Init => Inv
<1> SUFFICES ASSUME Init PROVE Inv
    OBVIOUS
<1> USE DEF Init
<1>1. result \in [Req -> Partial]
    <2>1. [u \in {} |-> "asked"] \in [{} -> Results]
        OBVIOUS
    <2>2. [{} -> Results] \subseteq Partial
        BY DEF Partial
    <2> QED
        BY <2>1, <2>2
<1>2. TypeOK
    BY <1>1 DEF TypeOK, Partial, Answers
<1>3. MemHonest /\ ReplyAwaited /\ FileHonest
    BY DEF MemHonest, ReplyAwaited, FileHonest, Busy
<1> QED
    BY <1>2, <1>3 DEF Inv

\* What happens besides the requests leaves them alone; the unpublished versions
\* only grow, and the file stays honest.
LEMMA OutsideStep ==
    ASSUME Inv, TypeOK', UNCHANGED <<pc, mem, result, reply, answer>>,
           withdrawn \subseteq withdrawn',
           local' # NoPkg => HonestBut(local', withdrawn')
    PROVE  Inv'
<1>1. MemHonest'
    BY HonestMonotone DEF Inv, MemHonest, TypeOK
<1>2. ReplyAwaited'
    BY DEF Inv, ReplyAwaited, Awaits
<1>3. FileHonest'
    BY DEF FileHonest
<1> QED
    BY <1>1, <1>2, <1>3 DEF Inv

\* npm publish at an uplink.
LEMMA RemotePublishInv ==
    ASSUME Inv, NEW u \in Uplink, NEW v \in Version, RemotePublish(u, v)
    PROVE  Inv'
<1> USE DEF Inv, RemotePublish
<1> DEFINE old == IF remote[u] = NoPkg THEN {} ELSE remote[u].versions
<1>1. old \in SUBSET Version /\ (remote[u] # NoPkg => remote[u].latest \in Version \cup {Bad})
    BY DEF TypeOK, Content
<1>2. PICK t \in {v, Bad} \cup (IF old = {} THEN {} ELSE {remote[u].latest}) :
          remote' = [remote EXCEPT ![u] = [versions |-> old \cup {v}, latest |-> t]]
    OBVIOUS
<1>3. t \in Version \cup {Bad}
    BY <1>1
<1>4. [versions |-> old \cup {v}, latest |-> t] \in Content
    BY <1>1, <1>3 DEF Content
<1>5. remote' \in [Uplink -> Content \cup {NoPkg}]
    <2> DEFINE c == [versions |-> old \cup {v}, latest |-> t]
    <2>1. remote \in [Uplink -> Content \cup {NoPkg}] /\ c \in Content /\ remote' = [remote EXCEPT ![u] = c]
        BY <1>2, <1>4 DEF TypeOK
    <2> HIDE DEF c
    <2> QED
        BY ONLY <2>1
<1>6. changes' \in Nat
    BY DEF TypeOK
<1>7. TypeOK'
    BY <1>5, <1>6 DEF TypeOK
<1> QED
    BY <1>7, OutsideStep DEF FileHonest

\* npm publish here.
LEMMA PublishInv ==
    ASSUME Inv, NEW v \in Version, Publish(v)
    PROVE  Inv'
<1> USE DEF Inv, Publish, Written
<1>1. local \in Package /\ HonestBut(local, withdrawn)
    BY DEF TypeOK, FileHonest
<1>2. local' \in Package /\ HonestBut(local', withdrawn)
    BY <1>1, PublishHonest
<1>3. TypeOK'
    BY <1>2 DEF TypeOK
<1> QED
    BY <1>2, <1>3, OutsideStep

\* npm unpublish of a version: what the file loses is unpublished.
LEMMA UnpublishInv ==
    ASSUME Inv, NEW v \in Version, Unpublish(v)
    PROVE  Inv'
<1> USE DEF Inv, Unpublish, Written
<1> DEFINE t == IF local.latest = v THEN None ELSE local.latest
           q == [local EXCEPT !.versions[v] = None, !.latest = t]
<1>1. local \in Package /\ HonestBut(local, withdrawn)
    BY DEF TypeOK, FileHonest
<1>2. t \in Version \cup {Bad, None}
    BY <1>1 DEF Package
<1>3. q \in Package /\ HonestBut(q, withdrawn')
    BY <1>1, <1>2, WithdrawHonest
<1>4. local' = Normalize(q)
    BY <1>1 DEF Package
<1>5. local' \in Package /\ HonestBut(local', withdrawn')
    BY <1>3, <1>4, NormalizeHonest
<1>6. TypeOK'
    BY <1>5 DEF TypeOK
<1> QED
    BY <1>5, <1>6, OutsideStep

\* npm unpublish --force: there is no file any more.
LEMMA RemoveInv ==
    ASSUME Inv, Remove
    PROVE  Inv'
<1> USE DEF Inv, Remove, Written
<1>1. Known(local) \in SUBSET Version
    BY DEF Known
<1>2. TypeOK'
    BY <1>1 DEF TypeOK
<1> QED
    BY <1>2, OutsideStep

\* The uplinks are asked for a package that is honest.
LEMMA AskInv ==
    ASSUME Inv, NEW r \in Req, NEW p \in Package, HonestBut(p, withdrawn),
           NEW asked \in SUBSET Uplink, pc[r] = "idle", Ask(r, p, asked),
           found' \in SUBSET Req, UNCHANGED <<outside, local, reply, answer, lost, faults>>
    PROVE  Inv'
<1> USE DEF Inv
<1>1. PICK fresh \in SUBSET asked :
          result' = [result EXCEPT ![r] = [u \in asked |-> IF u \in fresh THEN "fresh" ELSE "asked"]]
    BY DEF Ask
<1>2. [u \in asked |-> IF u \in fresh THEN "fresh" ELSE "asked"] \in [asked -> Results]
    BY DEF Results
<1>3. result' \in [Req -> Partial]
    BY <1>1, <1>2 DEF TypeOK, Partial
<1>4. pc' = [pc EXCEPT ![r] = "waiting"] /\ mem' = [mem EXCEPT ![r] = p]
    BY DEF Ask, Goto
<1>5. TypeOK'
    BY <1>3, <1>4 DEF TypeOK, Partial, outside
<1>6. MemHonest'
    BY <1>4 DEF MemHonest, TypeOK, Busy, outside
<1>7. ReplyAwaited'
    <2> SUFFICES ASSUME NEW s \in Req, NEW u \in Uplink, reply[s][u] # None
                 PROVE  Awaits(s, u)'
        BY DEF ReplyAwaited
    <2>1. Awaits(s, u) /\ s # r
        BY DEF ReplyAwaited, Awaits
    <2> QED
        BY <2>1, <1>1, <1>4 DEF Awaits, TypeOK
<1>8. FileHonest'
    BY DEF FileHonest, outside
<1> QED
    BY <1>5, <1>6, <1>7, <1>8

\* getPackage.
LEMMA GetInv ==
    ASSUME Inv, NEW g \in Getters, Get(g)
    PROVE  Inv'
<1> DEFINE p == IF local = NoPkg THEN Template ELSE Normalize(local)
<1>1. p \in Package /\ HonestBut(p, withdrawn)
    BY TemplateHonest, NormalizeHonest DEF Inv, TypeOK, FileHonest
<1>2. PICK asked \in SUBSET Uplink : Ask(g, p, asked)
    BY DEF Get
<1>3. found' \in SUBSET Req
    BY DEF Get, Inv, TypeOK, Req
<1>4. UNCHANGED <<outside, local, reply, answer, lost, faults>> /\ pc[g] = "idle" /\ g \in Req
    BY DEF Get, Req
<1> HIDE DEF p
<1> QED
    BY <1>1, <1>2, <1>3, <1>4, AskInv

\* A request is answered: if with the package, it was honest before.
LEMMA AnswerInv ==
    ASSUME Inv, NEW r \in Req, NEW a \in Answers,
           a = "found" => pc[r] \in Busy,
           \A u \in Uplink : reply[r][u] = None,
           pc' = [pc EXCEPT ![r] = "done"], answer' = [answer EXCEPT ![r] = a],
           UNCHANGED <<outside, local, mem, found, result, reply, lost>>, faults' \in Nat
    PROVE  Inv'
<1>1. TypeOK'
    BY DEF Inv, TypeOK, outside
<1>2. MemHonest'
    BY DEF Inv, TypeOK, MemHonest, Busy, outside
<1>3. ReplyAwaited'
    BY DEF Inv, TypeOK, ReplyAwaited, Awaits
<1>4. FileHonest'
    BY DEF Inv, FileHonest, outside
<1> QED
    BY <1>1, <1>2, <1>3, <1>4 DEF Inv

\* An uplink has settled what it answers, and nothing of it is on the way.
LEMMA SettleInv ==
    ASSUME Inv, NEW r \in Req, NEW u \in Uplink, NEW x \in Results,
           pc[r] = "waiting", u \in DOMAIN result[r], Result(r, u, x),
           reply' \in [Req -> [Uplink -> Content \cup {None}]],
           reply'[r][u] = None, \A s \in Req, w \in Uplink : reply'[s][w] \in {reply[s][w], None},
           UNCHANGED <<outside, local, pc, answer, lost>>, found' \in SUBSET Req, faults' \in Nat,
           mem'[r] \in Package, HonestBut(mem'[r], withdrawn), mem' = [mem EXCEPT ![r] = mem'[r]]
    PROVE  Inv'
<1>1. result' \in [Req -> Partial] /\ result' = [result EXCEPT ![r] = [@ EXCEPT ![u] = x]]
    BY ResultType DEF Inv, TypeOK, Result, Partial
<1>2. TypeOK'
    BY <1>1 DEF Inv, TypeOK, outside, Partial
<1>3. MemHonest'
    BY DEF Inv, TypeOK, MemHonest, outside
<1>4. ReplyAwaited'
    <2> SUFFICES ASSUME NEW s \in Req, NEW w \in Uplink, reply'[s][w] # None
                 PROVE  Awaits(s, w)'
        BY DEF ReplyAwaited
    <2>1. Awaits(s, w) /\ ~(s = r /\ w = u)
        BY DEF Inv, ReplyAwaited
    <2> QED
        BY <2>1, <1>1 DEF Awaits, Inv, TypeOK
<1>5. FileHonest'
    BY DEF Inv, FileHonest, outside
<1> QED
    BY <1>2, <1>3, <1>4, <1>5 DEF Inv

\* A request that has not begun yet is answered.
LEMMA BeginAnswered ==
    ASSUME Inv, NEW r \in Req, NEW a \in {"conflict", "error"}, pc[r] = "idle", Answer(r, a),
           UNCHANGED <<outside, local, mem, found, result, reply, lost>>, faults' \in Nat
    PROVE  Inv'
<1>1. pc' = [pc EXCEPT ![r] = "done"] /\ answer' = [answer EXCEPT ![r] = a]
    BY DEF Answer, Goto
<1>2. \A u \in Uplink : reply[r][u] = None
    BY DEF Inv, ReplyAwaited, Awaits
<1> QED
    BY <1>1, <1>2, AnswerInv DEF Answers

\* addPackage: the package is here.
LEMMA CheckPackageLocalInv ==
    ASSUME Inv, NEW c \in Creators, CheckPackageLocal(c)
    PROVE  Inv'
BY BeginAnswered DEF CheckPackageLocal, Req, Inv, TypeOK

\* The package cannot be read.
LEMMA UnreadableInv ==
    ASSUME Inv, NEW r \in Req, Unreadable(r)
    PROVE  Inv'
BY BeginAnswered DEF Unreadable, Inv, TypeOK

\* addPackage: a package to be created.
LEMMA AddInv ==
    ASSUME Inv, NEW c \in Creators, Add(c)
    PROVE  Inv'
<1>1. c \in Req /\ found' \in SUBSET Req
    BY DEF Add, Req, Inv, TypeOK
<1> QED
    BY <1>1, AskInv, TemplateHonest DEF Add

\* An uplink answers 404 or 304, or its package is on the way.
LEMMA ServeInv ==
    ASSUME Inv, NEW r \in Req, NEW u \in Uplink, Serve(r, u)
    PROVE  Inv'
<1> USE DEF Serve
<1>1. ASSUME NEW x \in Results, Result(r, u, x), UNCHANGED reply
      PROVE  Inv'
    <2>1. pc[r] = "waiting" /\ u \in DOMAIN result[r] /\ found' \in SUBSET Req /\ faults' \in Nat
        BY DEF Awaits, Inv, TypeOK
    <2>2. mem'[r] \in Package /\ HonestBut(mem'[r], withdrawn) /\ mem' = [mem EXCEPT ![r] = mem'[r]]
        BY <2>1 DEF Inv, TypeOK, MemHonest, Busy
    <2>3. reply' \in [Req -> [Uplink -> Content \cup {None}]] /\ reply'[r][u] = None
        BY <1>1 DEF Inv, TypeOK
    <2> QED
        BY <1>1, <2>1, <2>2, <2>3, SettleInv
<1>2. CASE remote[u] # NoPkg /\ remote[u] # mem[r].etag[u]
    <2>1. remote[u] \in Content
        BY <1>2 DEF Inv, TypeOK
    <2>2. reply' = [reply EXCEPT ![r][u] = remote[u]] /\ UNCHANGED result
        BY <1>2
    <2>3. TypeOK'
        BY <2>1, <2>2 DEF Inv, TypeOK, outside
    <2>4. MemHonest' /\ FileHonest'
        BY DEF Inv, MemHonest, FileHonest, outside
    <2>5. ReplyAwaited'
        BY <2>2 DEF Inv, TypeOK, ReplyAwaited, Awaits
    <2> QED
        BY <2>3, <2>4, <2>5 DEF Inv
<1> QED
    BY <1>1, <1>2 DEF Results


\* An uplink fails or is late: if its package was on the way, it is dropped.
LEMMA FailInv ==
    ASSUME Inv, NEW r \in Req, NEW u \in Uplink, Fail(r, u)
    PROVE  Inv'
<1>1. PICK x \in {"failed", "timeout"} : Result(r, u, x)
    BY DEF Fail
<1>2. pc[r] = "waiting" /\ u \in DOMAIN result[r] /\ found' \in SUBSET Req /\ faults' \in Nat /\ x \in Results
    BY DEF Fail, Awaits, Inv, TypeOK, Results
<1>3. mem'[r] \in Package /\ HonestBut(mem'[r], withdrawn) /\ mem' = [mem EXCEPT ![r] = mem'[r]]
    BY <1>2 DEF Fail, Inv, TypeOK, MemHonest, Busy
<1>4. reply' = [reply EXCEPT ![r][u] = None] /\ UNCHANGED <<outside, local, pc, answer, lost>>
    BY DEF Fail
<1>5. reply' \in [Req -> [Uplink -> Content \cup {None}]] /\ reply'[r][u] = None
    BY <1>4 DEF Inv, TypeOK
<1>6. \A s \in Req, w \in Uplink : reply'[s][w] \in {reply[s][w], None}
    BY <1>4 DEF Inv, TypeOK
<1> QED
    BY <1>1, <1>2, <1>3, <1>4, <1>5, <1>6, SettleInv

\* The package of an uplink arrives and is merged with its versions.
LEMMA ArriveInv ==
    ASSUME Inv, NEW r \in Req, NEW u \in Uplink, Arrive(r, u)
    PROVE  Inv'
<1> DEFINE c == reply[r][u]
<1>1. c \in Content
    BY DEF Arrive, Inv, TypeOK
<1>2. PICK x \in Results : Result(r, u, x)
    BY DEF Arrive, Results
<1>3. pc[r] = "waiting" /\ u \in DOMAIN result[r] /\ found' \in SUBSET Req /\ faults' \in Nat
    BY DEF Arrive, Inv, TypeOK, ReplyAwaited, Awaits
<1>4. mem' = [mem EXCEPT ![r] = MergeVersions(mem[r], u, c)] /\ UNCHANGED <<outside, local, pc, answer, lost>>
    BY DEF Arrive
<1>5. mem'[r] \in Package /\ HonestBut(mem'[r], withdrawn) /\ mem' = [mem EXCEPT ![r] = mem'[r]]
    <2>1. mem[r] \in Package /\ HonestBut(mem[r], withdrawn) /\ mem'[r] = MergeVersions(mem[r], u, c)
        BY <1>3, <1>4 DEF Inv, TypeOK, MemHonest, Busy
    <2> HIDE DEF c
    <2> QED
        BY <1>1, <1>4, <2>1, MergeHonest
<1>6. reply' = [reply EXCEPT ![r][u] = None]
    BY DEF Arrive
<1>7. reply' \in [Req -> [Uplink -> Content \cup {None}]] /\ reply'[r][u] = None
    BY <1>6 DEF Inv, TypeOK
<1>8. \A s \in Req, w \in Uplink : reply'[s][w] \in {reply[s][w], None}
    BY <1>6 DEF Inv, TypeOK
<1> QED
    BY <1>2, <1>3, <1>4, <1>5, <1>7, <1>8, SettleInv

\* When every uplink has settled, no answer is on the way.
LEMMA SettledQuiet ==
    ASSUME Inv, NEW r \in Req, Settled(r) \/ pc[r] \in {"saving", "creating"}
    PROVE  \A u \in Uplink : reply[r][u] = None
BY DEF Inv, ReplyAwaited, Awaits, Settled

\* A request changes the package it holds for an honest one, or goes on.
LEMMA HoldInv ==
    ASSUME Inv, NEW r \in Req, NEW s \in {"saving", "creating"}, NEW p \in Package,
           HonestBut(p, withdrawn), \A u \in Uplink : reply[r][u] = None,
           pc' = [pc EXCEPT ![r] = s], mem' = [mem EXCEPT ![r] = p],
           UNCHANGED <<outside, local, found, result, reply, answer, lost, faults>>
    PROVE  Inv'
<1>1. TypeOK'
    BY DEF Inv, TypeOK, outside
<1>2. MemHonest'
    BY DEF Inv, TypeOK, MemHonest, Busy, outside
<1>3. ReplyAwaited'
    BY DEF Inv, TypeOK, ReplyAwaited, Awaits
<1>4. FileHonest'
    BY DEF Inv, FileHonest, outside
<1> QED
    BY <1>1, <1>2, <1>3, <1>4 DEF Inv

\* Nobody has the package.
LEMMA NowhereInv ==
    ASSUME Inv, NEW r \in Req, Nowhere(r)
    PROVE  Inv'
<1>1. UNCHANGED <<outside, local, mem, found, result, reply, lost, faults>> /\ Settled(r)
    BY DEF Nowhere
<1>2. (\A u \in Uplink : reply[r][u] = None) /\ faults' \in Nat
    BY <1>1, SettledQuiet DEF Inv, TypeOK
<1>3. CASE \E a \in {"unavailable", "missing"} : Answer(r, a)
    <2>1. PICK a \in {"unavailable", "missing"} : Answer(r, a)
        BY <1>3
    <2> QED
        BY <1>1, <1>2, <2>1, AnswerInv DEF Answer, Goto, Answers
<1>4. CASE Goto(r, "creating") /\ UNCHANGED answer
    <2>1. mem[r] \in Package /\ HonestBut(mem[r], withdrawn) /\ mem' = [mem EXCEPT ![r] = mem[r]]
        BY <1>1 DEF Settled, Inv, TypeOK, MemHonest, Busy
    <2> QED
        BY <1>1, <1>2, <1>4, <2>1, HoldInv DEF Goto
<1> QED
    BY <1>3, <1>4 DEF Nowhere

\* Without uplinks the package is what was read.
LEMMA UnaskedInv ==
    ASSUME Inv, NEW r \in Req, Unasked(r)
    PROVE  Inv'
<1>1. pc[r] \in Busy /\ faults' \in Nat /\ \A u \in Uplink : reply[r][u] = None
    BY SettledQuiet DEF Unasked, Settled, Busy, Inv, TypeOK
<1> QED
    BY <1>1, AnswerInv DEF Unasked, Answer, Goto, Answers

\* updateVersions has read the file: what it holds now is honest again.
LEMMA LoadInv ==
    ASSUME Inv, NEW r \in Req, Load(r)
    PROVE  Inv'
<1> DEFINE p == IF local = NoPkg THEN Template ELSE Normalize(local)
           q == UpdateVersions(p, mem[r])
<1>1. p \in Package /\ HonestBut(p, withdrawn)
    BY TemplateHonest, NormalizeHonest DEF Inv, TypeOK, FileHonest
<1>2. mem[r] \in Package /\ HonestBut(mem[r], withdrawn) /\ pc[r] \in Busy
    BY DEF Load, Settled, Inv, MemHonest, Busy
<1>3. q \in Package /\ HonestBut(q, withdrawn)
    <2> HIDE DEF p
    <2> QED
        BY <1>1, <1>2, UpdateHonest
<1>4. \A u \in Uplink : reply[r][u] = None
    BY SettledQuiet DEF Load
<1>5. mem' = [mem EXCEPT ![r] = q] /\ UNCHANGED <<outside, local, found, result, reply, lost, faults>>
    BY DEF Load
<1>6. CASE Goto(r, "saving") /\ UNCHANGED answer
    <2> HIDE DEF q
    <2> QED
        BY <1>3, <1>4, <1>5, <1>6, HoldInv DEF Goto
<1>7. CASE Found(r)
    <2> HIDE DEF q
    <2> DEFINE a == IF r \in Getters THEN "found" ELSE "conflict"
    <2>1. pc' = [pc EXCEPT ![r] = "done"] /\ answer' = [answer EXCEPT ![r] = a] /\ a \in Answers
        BY <1>7 DEF Found, Answer, Goto, Answers
    <2> HIDE DEF a
    <2>2. TypeOK'
        BY <1>3, <1>5, <2>1 DEF Inv, TypeOK, outside
    <2>3. MemHonest'
        BY <1>3, <1>5, <2>1 DEF Inv, TypeOK, MemHonest, Busy, outside
    <2>4. ReplyAwaited'
        BY <1>4, <1>5, <2>1 DEF Inv, TypeOK, ReplyAwaited, Awaits
    <2>5. FileHonest'
        BY <1>5 DEF Inv, FileHonest, outside
    <2> QED
        BY <2>2, <2>3, <2>4, <2>5 DEF Inv
<1> QED
    BY <1>6, <1>7 DEF Load

\* What a request holds becomes the file.
LEMMA SaveInv ==
    ASSUME Inv, NEW r \in Req, Save(r)
    PROVE  Inv'
<1> DEFINE a == IF r \in Getters THEN "found" ELSE "conflict"
<1>1. pc' = [pc EXCEPT ![r] = "done"] /\ answer' = [answer EXCEPT ![r] = a] /\ a \in Answers
    BY DEF Save, Found, Answer, Goto, Answers
<1>2. local' = mem[r] /\ lost' \in BOOLEAN /\ UNCHANGED <<outside, mem, found, result, reply, faults>>
    BY DEF Save, Written, Inv, TypeOK
<1>3. pc[r] \in Busy /\ mem[r] \in Package /\ HonestBut(mem[r], withdrawn)
    BY DEF Save, Busy, Inv, MemHonest
<1>4. \A u \in Uplink : reply[r][u] = None
    BY SettledQuiet DEF Save
<1> HIDE DEF a
<1>5. TypeOK'
    BY <1>1, <1>2, <1>3 DEF Inv, TypeOK, outside
<1>6. MemHonest'
    BY <1>1, <1>2, <1>3 DEF Inv, TypeOK, MemHonest, Busy, outside
<1>7. ReplyAwaited'
    BY <1>1, <1>2, <1>4 DEF Inv, TypeOK, ReplyAwaited, Awaits
<1>8. FileHonest'
    BY <1>2, <1>3 DEF FileHonest, outside
<1> QED
    BY <1>5, <1>6, <1>7, <1>8 DEF Inv

\* The write fails, and the file stays.
LEMMA SaveFailInv ==
    ASSUME Inv, NEW r \in Req, SaveFail(r)
    PROVE  Inv'
<1>1. faults' \in Nat /\ \A u \in Uplink : reply[r][u] = None
    BY SettledQuiet DEF SaveFail, Inv, TypeOK
<1> QED
    BY <1>1, AnswerInv DEF SaveFail, Answer, Goto, Answers

\* publishPackage creates an empty package, or finds one.
LEMMA CreateInv ==
    ASSUME Inv, NEW c \in Req, Create(c)
    PROVE  Inv'
<1>1. PICK a \in {"created", "conflict"} :
          pc' = [pc EXCEPT ![c] = "done"] /\ answer' = [answer EXCEPT ![c] = a]
    BY DEF Create, Answer, Goto
<1>2. UNCHANGED <<outside, mem, found, result, reply, faults>> /\ pc[c] = "creating"
    BY DEF Create
<1>3. local' \in {local, Template} /\ lost' \in BOOLEAN
    BY DEF Create, Written, Inv, TypeOK
<1>4. \A u \in Uplink : reply[c][u] = None
    BY <1>2, SettledQuiet
<1>5. TypeOK'
    BY <1>1, <1>2, <1>3, TemplateHonest DEF Inv, TypeOK, outside, Answers
<1>6. MemHonest'
    BY <1>1, <1>2 DEF Inv, TypeOK, MemHonest, Busy, outside
<1>7. ReplyAwaited'
    BY <1>1, <1>2, <1>4 DEF Inv, TypeOK, ReplyAwaited, Awaits
<1>8. FileHonest'
    BY <1>2, <1>3, TemplateHonest DEF Inv, FileHonest, outside
<1> QED
    BY <1>5, <1>6, <1>7, <1>8 DEF Inv

-----------------------------------------------------------------------------
(* The theorems *)

\* Every step keeps the invariant.
LEMMA StepInv == Inv /\ [Next]_vars => Inv'
<1> SUFFICES ASSUME Inv, [Next]_vars PROVE Inv'
    OBVIOUS
<1>1. CASE \E u \in Uplink, v \in Version : RemotePublish(u, v)
    BY <1>1, RemotePublishInv
<1>2. CASE \E v \in Version : Publish(v)
    BY <1>2, PublishInv
<1>3. CASE \E v \in Version : Unpublish(v)
    BY <1>3, UnpublishInv
<1>4. CASE Remove
    BY <1>4, RemoveInv
<1>5. CASE \E g \in Getters : Get(g)
    BY <1>5, GetInv
<1>6. CASE \E c \in Creators : Add(c)
    BY <1>6, AddInv
<1>7. CASE \E r \in Req, u \in Uplink : Serve(r, u)
    BY <1>7, ServeInv
<1>8. CASE \E r \in Req, u \in Uplink : Fail(r, u)
    BY <1>8, FailInv
<1>9. CASE \E r \in Req, u \in Uplink : Arrive(r, u)
    BY <1>9, ArriveInv
<1>10. CASE \E r \in Req : Nowhere(r)
    BY <1>10, NowhereInv
<1>11. CASE \E r \in Req : Unasked(r)
    BY <1>11, UnaskedInv
<1>12. CASE \E r \in Req : Load(r)
    BY <1>12, LoadInv
<1>13. CASE \E r \in Req : Save(r)
    BY <1>13, SaveInv
<1>14. CASE \E r \in Req : Create(r)
    BY <1>14, CreateInv
<1>15. CASE \E r \in Req : SaveFail(r)
    BY <1>15, SaveFailInv
<1>16. CASE \E c \in Creators : CheckPackageLocal(c)
    BY <1>16, CheckPackageLocalInv
<1>17. CASE \E r \in Req : Unreadable(r)
    BY <1>17, UnreadableInv
<1>18. CASE UNCHANGED vars
    BY <1>18 DEF Inv, TypeOK, MemHonest, HonestBut, Known, ReplyAwaited, Awaits, FileHonest, vars, outside
<1> QED
    BY <1>1, <1>2, <1>3, <1>4, <1>5, <1>6, <1>7, <1>8, <1>9, <1>10, <1>11, <1>12, <1>13, <1>14,
       <1>15, <1>16, <1>17, <1>18 DEF Next, Work, Finished

\* Every variable keeps its type.
THEOREM TypeCorrect == Spec => []TypeOK
<1>1. Inv => TypeOK
    BY DEF Inv
<1> QED
    BY <1>1, InitInv, StepInv, PTL DEF Spec

\* An etag in package.json or in an answer never stands for versions that are
\* missing: the uplink's 304 hides no version from the clients of this registry.
THEOREM EtagsHonest == Spec => []EtagHonest
<1>1. Inv => EtagHonest
    BY DEF Inv, FileHonest, MemHonest, EtagHonest, Honest, HonestBut
<1> QED
    BY <1>1, InitInv, StepInv, PTL DEF Spec

-----------------------------------------------------------------------------
(* Nobody has the package *)

Absent == {"missing", "unavailable", "created"}

\* A request that does not know the package to exist holds nothing of it: a
\* merge that throws, and so does not make it found, needs a tag that is there.
NothingHeld ==
    \A r \in Req :
        /\ pc[r] = "waiting" /\ r \notin found => mem[r] = Template
        /\ pc[r] = "creating" => mem[r] = Template
        /\ answer[r] \in Absent => pc[r] = "done" /\ mem[r] = Template

\* A step that leaves what the requests hold, and answers nobody so.
LEMMA HeldStep ==
    ASSUME NothingHeld, UNCHANGED <<pc, mem, answer>>, found \subseteq found'
    PROVE  NothingHeld'
BY DEF NothingHeld

\* One request goes on, and the others stay what they are.
LEMMA HeldRequest ==
    ASSUME Inv, NothingHeld, NEW r \in Req,
           \A s \in Req \ {r} : pc'[s] = pc[s] /\ mem'[s] = mem[s] /\ answer'[s] = answer[s]
                              /\ (s \in found' <=> s \in found),
           pc'[r] = "waiting" /\ r \notin found' => mem'[r] = Template,
           pc'[r] = "creating" => mem'[r] = Template,
           answer'[r] \in Absent => pc'[r] = "done" /\ mem'[r] = Template
    PROVE  NothingHeld'
<1> SUFFICES ASSUME NEW s \in Req
             PROVE  /\ pc'[s] = "waiting" /\ s \notin found' => mem'[s] = Template
                    /\ pc'[s] = "creating" => mem'[s] = Template
                    /\ answer'[s] \in Absent => pc'[s] = "done" /\ mem'[s] = Template
    BY DEF NothingHeld
<1>1. CASE s = r
    BY <1>1
<1>2. CASE s # r
    BY <1>2 DEF NothingHeld
<1> QED
    BY <1>1, <1>2

\* getPackage and addPackage begin with nothing, or with a package that is found.
LEMMA HeldBegin ==
    ASSUME Inv, NothingHeld, NEW r \in Req, Get(r) \/ Add(r) \/ CheckPackageLocal(r) \/ Unreadable(r)
    PROVE  NothingHeld'
<1>1. CASE Get(r)
    <2>1. mem' = [mem EXCEPT ![r] = IF local = NoPkg THEN Template ELSE Normalize(local)]
          /\ pc' = [pc EXCEPT ![r] = "waiting"] /\ UNCHANGED answer /\ pc[r] = "idle"
        BY <1>1 DEF Get, Ask, Goto
    <2>2. found' = IF local = NoPkg THEN found ELSE found \cup {r}
        BY <1>1 DEF Get
    <2> QED
        BY <2>1, <2>2, HeldRequest DEF Inv, TypeOK, NothingHeld
<1>2. CASE Add(r)
    <2>1. mem' = [mem EXCEPT ![r] = Template] /\ pc' = [pc EXCEPT ![r] = "waiting"]
          /\ UNCHANGED <<answer, found>> /\ pc[r] = "idle"
        BY <1>2 DEF Add, Ask, Goto
    <2> QED
        BY <2>1, HeldRequest DEF Inv, TypeOK, NothingHeld
<1>3. CASE CheckPackageLocal(r) \/ Unreadable(r)
    <2>1. PICK a \in {"conflict", "error"} : answer' = [answer EXCEPT ![r] = a]
        BY <1>3 DEF CheckPackageLocal, Unreadable, Answer
    <2>2. pc' = [pc EXCEPT ![r] = "done"] /\ UNCHANGED <<mem, found>>
        BY <1>3 DEF CheckPackageLocal, Unreadable, Answer, Goto
    <2> QED
        BY <2>1, <2>2, HeldRequest DEF Inv, TypeOK, NothingHeld, Absent
<1> QED
    BY <1>1, <1>2, <1>3

\* The package of an uplink arrives: it is found, or it was before.
LEMMA HeldArrive ==
    ASSUME Inv, NothingHeld, NEW r \in Req, NEW u \in Uplink, Arrive(r, u)
    PROVE  NothingHeld'
<1> DEFINE c == reply[r][u]
<1>1. c \in Content /\ pc[r] = "waiting"
    BY DEF Arrive, Inv, TypeOK, ReplyAwaited, Awaits
<1>2. mem' = [mem EXCEPT ![r] = MergeVersions(mem[r], u, c)] /\ UNCHANGED <<pc, answer>>
    BY DEF Arrive
<1>3. found' = IF Throws(mem[r], c) THEN found ELSE found \cup {r}
    BY DEF Arrive
<1>4. r \in found'
    <2>1. ~Throws(Template, c)
        BY DEF Throws, Template
    <2> QED
        BY <1>1, <1>3, <2>1 DEF NothingHeld
<1>5. answer[r] \notin Absent
    BY <1>1 DEF NothingHeld
<1> HIDE DEF c
<1> QED
    BY <1>1, <1>2, <1>3, <1>4, <1>5, HeldRequest DEF Inv, TypeOK

\* Nobody has the package: what is answered, and what is created, is nothing.
LEMMA HeldNowhere ==
    ASSUME Inv, NothingHeld, NEW r \in Req, Nowhere(r)
    PROVE  NothingHeld'
<1>1. mem[r] = Template /\ UNCHANGED <<mem, found>>
    BY DEF Nowhere, Settled, NothingHeld
<1>2. CASE \E a \in Answers : Answer(r, a)
    <2>1. PICK a \in Answers : answer' = [answer EXCEPT ![r] = a] /\ pc' = [pc EXCEPT ![r] = "done"]
        BY <1>2 DEF Answer, Goto
    <2> QED
        BY <1>1, <2>1, HeldRequest DEF Inv, TypeOK
<1>3. CASE Goto(r, "creating") /\ UNCHANGED answer
    <2>1. answer[r] \notin Absent
        BY DEF Nowhere, Settled, NothingHeld
    <2> QED
        BY <1>1, <1>3, <2>1, HeldRequest DEF Goto, Inv, TypeOK
<1> QED
    BY <1>2, <1>3 DEF Nowhere, Answers

\* The other steps of a request that was told, or knows, what there is.
LEMMA HeldOther ==
    ASSUME Inv, NothingHeld, NEW r \in Req, Unasked(r) \/ Load(r) \/ Save(r) \/ SaveFail(r) \/ Create(r)
    PROVE  NothingHeld'
<1>1. answer[r] \notin Absent /\ UNCHANGED found
    BY DEF Unasked, Load, Save, SaveFail, Create, Settled, NothingHeld
<1>2. CASE Load(r) /\ Goto(r, "saving") /\ UNCHANGED answer
    <2>1. \A s \in Req \ {r} : mem'[s] = mem[s] /\ pc'[s] = pc[s]
        BY <1>2 DEF Load, Goto, Inv, TypeOK
    <2>2. pc'[r] = "saving"
        BY <1>2 DEF Goto, Inv, TypeOK
    <2> QED
        BY <1>1, <1>2, <2>1, <2>2, HeldRequest
<1>3. CASE \E a \in {"found", "conflict", "error"} : Answer(r, a)
    <2>1. PICK a \in {"found", "conflict", "error"} :
              answer' = [answer EXCEPT ![r] = a] /\ pc' = [pc EXCEPT ![r] = "done"]
        BY <1>3 DEF Answer, Goto
    <2>2. \A s \in Req \ {r} : mem'[s] = mem[s]
        BY DEF Unasked, Load, Save, SaveFail, Create, Inv, TypeOK
    <2>3. answer'[r] \notin Absent /\ pc'[r] = "done"
        BY <2>1 DEF Absent, Inv, TypeOK
    <2>4. \A s \in Req \ {r} : answer'[s] = answer[s] /\ pc'[s] = pc[s]
        BY <2>1 DEF Inv, TypeOK
    <2> QED
        BY <1>1, <2>2, <2>3, <2>4, HeldRequest
<1>4. CASE Create(r) /\ Answer(r, "created")
    <2>1. mem[r] = Template /\ UNCHANGED mem
        BY <1>4 DEF Create, NothingHeld
    <2> QED
        BY <1>1, <1>4, <2>1, HeldRequest DEF Answer, Goto, Inv, TypeOK
<1> QED
    BY <1>2, <1>3, <1>4 DEF Unasked, Load, Save, SaveFail, Create, Found

LEMMA HeldNext == Inv /\ NothingHeld /\ [Next]_vars => NothingHeld'
<1> SUFFICES ASSUME Inv, NothingHeld, [Next]_vars
             PROVE  NothingHeld'
    OBVIOUS
<1>1. CASE \E v \in Version : (\E u \in Uplink : RemotePublish(u, v)) \/ Publish(v) \/ Unpublish(v)
    BY <1>1, HeldStep DEF RemotePublish, Publish, Unpublish
<1>2. CASE Remove \/ UNCHANGED vars
    BY <1>2, HeldStep DEF Remove, vars
<1>3. CASE \E g \in Getters : Get(g)
    BY <1>3, HeldBegin DEF Req
<1>4. CASE \E c \in Creators : CheckPackageLocal(c) \/ Add(c)
    BY <1>4, HeldBegin DEF Req
<1>5. CASE \E r \in Req : Unreadable(r)
    BY <1>5, HeldBegin
<1>6. CASE \E r \in Req, u \in Uplink : Serve(r, u) \/ Fail(r, u)
    BY <1>6, HeldStep DEF Serve, Fail
<1>7. CASE \E r \in Req, u \in Uplink : Arrive(r, u)
    BY <1>7, HeldArrive
<1>8. CASE \E r \in Req : Nowhere(r)
    BY <1>8, HeldNowhere
<1>9. CASE \E r \in Req : Unasked(r) \/ Load(r) \/ Save(r) \/ SaveFail(r) \/ Create(r)
    BY <1>9, HeldOther
<1> QED
    BY <1>1, <1>2, <1>3, <1>4, <1>5, <1>6, <1>7, <1>8, <1>9 DEF Next, Work, Finished

\* Nobody is told that there is no such package, and none is created, by a
\* request that an uplink has sent any of it: also when the merge of what a
\* second uplink sends throws, in whatever order the answers arrive.
THEOREM AbsenceHonest == Spec => []NotFoundHonest
<1>1. Init => NothingHeld
    BY DEF Init, NothingHeld, Absent
<1>2. NothingHeld => NotFoundHonest
    BY DEF NothingHeld, NotFoundHonest, Absent, Template, Known
<1> QED
    BY <1>1, <1>2, InitInv, StepInv, HeldNext, PTL DEF Spec
-----------------------------------------------------------------------------
(* What the requests get is one package *)

\* What was answered, and what will be without asking anybody.
Fixed(r) == answer[r] = "found" \/ (pc[r] = "waiting" /\ DOMAIN result[r] = {})

\* The versions of p are in the file, each with its origin, but for those that
\* were unpublished.
Kept(p) == \A v \in Known(p) \ withdrawn : local # NoPkg /\ local.versions[v] = p.versions[v]

\* p takes nothing from the file.
Extends(p) == local # NoPkg => \A v \in Known(local) : p.versions[v] = local.versions[v]

Agreed ==
    /\ \A r \in Req : answer[r] = "found" => pc[r] = "done"
    /\ ~lost => \A r \in Req : (Fixed(r) => Kept(mem[r])) /\ (pc[r] = "saving" => Extends(mem[r]))


\* Steps of one request that leave the file alone.
LEMMA AgreedRequest ==
    ASSUME Inv, Agreed, NEW r \in Req, UNCHANGED <<local, lost, withdrawn>>,
           \A s \in Req \ {r} : /\ pc'[s] = pc[s] /\ mem'[s] = mem[s] /\ answer'[s] = answer[s]
                                /\ result'[s] = result[s],
           answer'[r] = "found" => pc'[r] = "done",
           ~lost /\ Fixed(r)' => Kept(mem'[r]),
           ~lost /\ pc'[r] = "saving" => Extends(mem'[r])
    PROVE  Agreed'
<1>1. ASSUME NEW s \in Req
      PROVE  /\ answer'[s] = "found" => pc'[s] = "done"
             /\ ~lost => (Fixed(s)' => Kept(mem[s])') /\ (pc'[s] = "saving" => Extends(mem[s])')
    <2>1. CASE s = r
        BY <2>1 DEF Kept, Extends
    <2>2. CASE s # r
        BY <2>2 DEF Agreed, Fixed, Kept, Extends
    <2> QED
        BY <2>1, <2>2
<1> QED
    BY <1>1 DEF Agreed

\* The file changes, and nobody is about to write it back.
LEMMA AgreedOutside ==
    ASSUME Inv, Agreed, UNCHANGED <<pc, mem, answer, result>>, NEW p, Written(None, p),
           \A q \in Package : Kept(q) => Kept(q)'
    PROVE  Agreed'
<1>1. ~lost' => ~lost /\ \A s \in Req : pc[s] # "saving"
    BY MarkAssumption DEF Written
<1>2. ASSUME NEW s \in Req, ~lost', Fixed(s) PROVE Kept(mem[s])'
    <2>1. mem[s] \in Package /\ Kept(mem[s])
        BY <1>1, <1>2 DEF Inv, MemHonest, Busy, Agreed, Fixed
    <2>2. Kept(mem[s]) => \A v \in Known(mem[s]) \ withdrawn' : local' # NoPkg /\ local'.versions[v] = mem[s].versions[v]
        BY <2>1 DEF Kept
    <2> QED
        BY <2>1, <2>2 DEF Kept
<1> QED
    BY <1>1, <1>2 DEF Agreed, Fixed

LEMMA AgreedPublish ==
    ASSUME Inv, Agreed, NEW v \in Version, Publish(v)
    PROVE  Agreed'
<1> DEFINE p == [local EXCEPT !.versions[v] = Local, !.latest = v]
<1>1. local \in Package /\ local.versions[v] = None /\ withdrawn' = withdrawn /\ local' = p
    BY DEF Publish, Written, Inv, TypeOK
<1>2. p \in Package /\ p # NoPkg /\ \A w \in Version \ {v} : p.versions[w] = local.versions[w]
    <2>1. p \in Package
        BY <1>1 DEF Package, Origin
    <2>2. \A w \in Version \ {v} : p.versions[w] = local.versions[w]
        BY <1>1 DEF Package
    <2> HIDE DEF p
    <2> QED
        BY <2>1, <2>2, PackageAssumption
<1>3. ASSUME NEW q \in Package, Kept(q) PROVE Kept(q)'
    <2>1. \A w \in Known(q) \ withdrawn : w \in Version /\ q.versions[w] # None /\ local.versions[w] = q.versions[w]
        BY <1>3 DEF Kept, Known
    <2> HIDE DEF p
    <2> QED
        BY <1>1, <1>2, <2>1 DEF Kept
<1> HIDE DEF p
<1> QED
    BY <1>1, <1>3, AgreedOutside DEF Publish, p

LEMMA AgreedUnpublish ==
    ASSUME Inv, Agreed, NEW v \in Version, Unpublish(v)
    PROVE  Agreed'
<1> DEFINE t == IF local.latest = v THEN None ELSE local.latest
           q == [local EXCEPT !.versions[v] = None, !.latest = t]
<1>1. local \in Package /\ withdrawn' = withdrawn \cup {v}
    BY DEF Unpublish, Inv, TypeOK
<1>2. q \in Package /\ \A w \in Version \ {v} : q.versions[w] = local.versions[w]
    BY <1>1 DEF Package
<1>3. local' = Normalize(q) /\ Written(None, local')
    BY <1>1 DEF Unpublish, Written, Package
<1> HIDE DEF q
<1>4. Normalize(q) \in Package /\ Normalize(q).versions = q.versions
    BY <1>2, KnownType DEF Normalize, Package
<1>5. local' # NoPkg /\ \A w \in Version \ {v} : local'.versions[w] = local.versions[w]
    BY <1>2, <1>3, <1>4, PackageAssumption
<1>6. ASSUME NEW p \in Package, Kept(p) PROVE Kept(p)'
    BY <1>1, <1>5, <1>6 DEF Kept, Known
<1> QED
    BY <1>3, <1>6, AgreedOutside DEF Unpublish

LEMMA AgreedRemove ==
    ASSUME Inv, Agreed, Remove
    PROVE  Agreed'
<1>1. withdrawn' = withdrawn \cup Known(local) /\ Written(None, NoPkg) /\ UNCHANGED <<pc, mem, answer, result>>
    BY DEF Remove
<1>2. ASSUME NEW p \in Package, Kept(p) PROVE Kept(p)'
    BY <1>1, <1>2 DEF Kept, Known
<1> QED
    BY <1>1, <1>2, AgreedOutside

\* Whoever reads the file has its versions.
LEMMA AgreedBegin ==
    ASSUME Inv, Agreed, NEW r \in Req, Get(r) \/ Add(r) \/ CheckPackageLocal(r) \/ Unreadable(r)
    PROVE  Agreed'
<1>1. UNCHANGED <<local, lost, withdrawn>> /\ pc[r] = "idle"
    BY DEF Get, Add, CheckPackageLocal, Unreadable, outside
<1>2. CASE Get(r) \/ Add(r)
    <2> DEFINE p == IF local = NoPkg THEN Template ELSE Normalize(local)
    <2>1. PICK asked : Ask(r, p, asked) /\ UNCHANGED answer
        BY <1>2 DEF Get, Add
    <2>2. Kept(p)
        <3>1. local # NoPkg => p.versions = local.versions
            BY DEF Normalize, Inv, TypeOK, Package
        <3>2. local = NoPkg => Known(p) = {}
            BY DEF Known, Template
        <3> QED
            BY <3>1, <3>2 DEF Kept, Known
    <2>3. mem' = [mem EXCEPT ![r] = p] /\ pc' = [pc EXCEPT ![r] = "waiting"]
        BY <2>1 DEF Ask, Goto
    <2>4. \E f : result' = [result EXCEPT ![r] = f]
        BY <2>1 DEF Ask
    <2> HIDE DEF p
    <2> QED
        BY <1>1, <2>1, <2>2, <2>3, <2>4, AgreedRequest DEF Inv, TypeOK, Agreed
<1>3. CASE CheckPackageLocal(r) \/ Unreadable(r)
    <2>1. PICK a \in {"conflict", "error"} : answer' = [answer EXCEPT ![r] = a]
        BY <1>3 DEF CheckPackageLocal, Unreadable, Answer
    <2>2. pc' = [pc EXCEPT ![r] = "done"] /\ UNCHANGED <<mem, result>>
        BY <1>3 DEF CheckPackageLocal, Unreadable, Answer, Goto
    <2> QED
        BY <1>1, <2>1, <2>2, AgreedRequest DEF Inv, TypeOK, Fixed
<1> QED
    BY <1>2, <1>3

\* A request that waits for an uplink will be answered with the file.
LEMMA AgreedUplink ==
    ASSUME Inv, Agreed, NEW r \in Req, NEW u \in Uplink, Serve(r, u) \/ Fail(r, u) \/ Arrive(r, u)
    PROVE  Agreed'
<1>1. Awaits(r, u)
    BY DEF Serve, Fail, Arrive, Inv, ReplyAwaited
<1>2. UNCHANGED <<local, lost, withdrawn, pc, answer>>
    BY DEF Serve, Fail, Arrive, outside
<1>3. \A s \in Req \ {r} : mem'[s] = mem[s]
    BY DEF Serve, Fail, Arrive, Inv, TypeOK
<1>4. UNCHANGED result \/ \E x : Result(r, u, x)
    BY DEF Serve, Fail, Arrive
<1>5. DOMAIN result'[r] = DOMAIN result[r] /\ \A s \in Req \ {r} : result'[s] = result[s]
    BY <1>4 DEF Result, Inv, TypeOK
<1>6. pc[r] = "waiting" /\ DOMAIN result[r] # {} /\ answer[r] # "found"
    BY <1>1 DEF Awaits, Agreed
<1> QED
    BY <1>2, <1>3, <1>5, <1>6, AgreedRequest DEF Fixed

\* A request that has settled goes on.  What it loads takes nothing from the
\* file; what it saves is all there was in the file, if nobody was overtaken.
LEMMA AgreedWork ==
    ASSUME Inv, Agreed, NEW r \in Req, Nowhere(r) \/ Unasked(r) \/ Load(r) \/ SaveFail(r)
    PROVE  Agreed'
<1>1. UNCHANGED <<local, lost, withdrawn, result>> /\ answer[r] # "found"
    BY DEF Nowhere, Unasked, Load, SaveFail, Settled, outside, Agreed
<1>2. CASE Nowhere(r)
    <2>1. PICK a \in Answers \ {"found"}, s \in {"done", "creating"} :
              /\ pc' = [pc EXCEPT ![r] = s] /\ answer' = [answer EXCEPT ![r] = a] /\ UNCHANGED mem
        <3>1. answer' = [answer EXCEPT ![r] = answer[r]] \/ UNCHANGED answer => answer' = [answer EXCEPT ![r] = answer[r]]
            BY DEF Inv, TypeOK
        <3>2. answer[r] \in Answers \ {"found"}
            BY <1>1 DEF Inv, TypeOK
        <3> QED
            BY <1>2, <3>1, <3>2 DEF Nowhere, Answer, Goto, Answers
    <2> QED
        BY <1>1, <2>1, AgreedRequest DEF Inv, TypeOK, Fixed
<1>3. CASE Unasked(r)
    <2>1. /\ pc' = [pc EXCEPT ![r] = "done"] /\ answer' = [answer EXCEPT ![r] = "found"] /\ UNCHANGED mem
          /\ Fixed(r)
        BY <1>3 DEF Unasked, Answer, Goto, Settled, Fixed
    <2>2. ~lost => Kept(mem'[r])
        BY <2>1 DEF Agreed
    <2> QED
        BY <1>1, <2>1, <2>2, AgreedRequest DEF Inv, TypeOK
<1>4. CASE Load(r)
    <2> DEFINE p == IF local = NoPkg THEN Template ELSE Normalize(local)
               q == UpdateVersions(p, mem[r])
    <2>1. mem' = [mem EXCEPT ![r] = q] /\ pc[r] = "waiting" /\ DOMAIN result[r] # {}
        BY <1>4 DEF Load, Settled
    <2>2. local # NoPkg => p.versions = local.versions
        BY DEF Normalize, Inv, TypeOK, Package
    <2>3. local = NoPkg => Known(p) = {}
        BY DEF Known, Template
    <2>4. Extends(q)
        BY <2>2 DEF Extends, UpdateVersions, Known
    <2>5. q = p => Kept(q)
        <3> HIDE DEF p, q
        <3> QED
            BY <2>2, <2>3 DEF Kept, Known
    <2>6. \/ pc' = [pc EXCEPT ![r] = "saving"] /\ UNCHANGED answer
          \/ q = p /\ pc' = [pc EXCEPT ![r] = "done"] /\ \E a : answer' = [answer EXCEPT ![r] = a]
        BY <1>4 DEF Load, Goto, Found, Answer
    <2> HIDE DEF p, q
    <2>7. mem'[r] = q /\ \A s \in Req \ {r} : mem'[s] = mem[s]
        BY <2>1 DEF Inv, TypeOK
    <2>8. CASE pc' = [pc EXCEPT ![r] = "saving"] /\ UNCHANGED answer
        BY <1>1, <2>4, <2>7, <2>8, AgreedRequest DEF Inv, TypeOK, Fixed
    <2>9. CASE q = p /\ pc' = [pc EXCEPT ![r] = "done"] /\ \E a : answer' = [answer EXCEPT ![r] = a]
        BY <1>1, <2>5, <2>7, <2>9, AgreedRequest DEF Inv, TypeOK, Fixed
    <2> QED
        BY <2>6, <2>8, <2>9
<1>5. CASE SaveFail(r)
    <2>1. pc' = [pc EXCEPT ![r] = "done"] /\ answer' = [answer EXCEPT ![r] = "error"] /\ UNCHANGED mem
        BY <1>5 DEF SaveFail, Answer, Goto
    <2> QED
        BY <1>1, <2>1, AgreedRequest DEF Inv, TypeOK, Fixed
<1> QED
    BY <1>2, <1>3, <1>4, <1>5

LEMMA AgreedSave ==
    ASSUME Inv, Agreed, NEW r \in Req, Save(r)
    PROVE  Agreed'
<1>1. /\ UNCHANGED <<mem, result, withdrawn>> /\ pc[r] = "saving" /\ local' = mem[r]
      /\ lost' = (lost \/ \E q \in Req \ {r} : pc[q] = "saving")
    BY DEF Save, Written, outside
<1>2. pc' = [pc EXCEPT ![r] = "done"] /\ \E a : answer' = [answer EXCEPT ![r] = a]
    BY DEF Save, Found, Answer, Goto
<1>3. \A s \in Req \ {r} : pc'[s] = pc[s] /\ answer'[s] = answer[s]
    BY <1>2 DEF Inv, TypeOK
<1>4. mem[r] \in Package /\ mem[r] # NoPkg
    BY <1>1, PackageAssumption DEF Inv, MemHonest, Busy
<1>5. ASSUME NEW s \in Req, ~lost'
      PROVE  (Fixed(s)' => Kept(mem[s])') /\ (pc'[s] = "saving" => Extends(mem[s])')
    <2>1. ~lost /\ Extends(mem[r])
        BY <1>1, <1>5 DEF Agreed
    <2>2. CASE s = r
        <3>1. pc'[s] = "done"
            BY <1>2, <2>2 DEF Inv, TypeOK
        <3> QED
            BY <1>1, <1>4, <2>2, <3>1 DEF Kept
    <2>3. CASE s # r
        <3>1. pc'[s] # "saving" /\ (Fixed(s)' <=> Fixed(s))
            BY <1>1, <1>3, <1>5, <2>3 DEF Fixed
        <3>2. Fixed(s) => \A v \in Known(mem[s]) \ withdrawn : v \in Known(local) /\ mem[r].versions[v] = mem[s].versions[v]
            BY <2>1 DEF Agreed, Kept, Known, Extends
        <3> QED
            BY <1>1, <1>4, <3>1, <3>2 DEF Kept
    <2> QED
        BY <2>2, <2>3
<1>6. \A s \in Req : answer'[s] = "found" => pc'[s] = "done"
    BY <1>2, <1>3 DEF Agreed, Inv, TypeOK
<1> QED
    BY <1>5, <1>6 DEF Agreed

\* An empty package is created only where there is none: nobody was answered
\* with a version that was not unpublished.
LEMMA AgreedCreate ==
    ASSUME Inv, Agreed, NEW r \in Req, Create(r)
    PROVE  Agreed'
<1>1. UNCHANGED <<mem, result, withdrawn>> /\ pc[r] = "creating"
    BY DEF Create, outside
<1>2. pc' = [pc EXCEPT ![r] = "done"] /\ \E a \in {"created", "conflict"} : answer' = [answer EXCEPT ![r] = a]
    BY DEF Create, Answer, Goto
<1>3. CASE local = NoPkg
    <2>1. lost' = (lost \/ \E q \in Req \ {r} : pc[q] = "saving") /\ local' = Template
        BY <1>3 DEF Create, Written
    <2>2. ASSUME NEW s \in Req, ~lost'
          PROVE  (Fixed(s)' => Kept(mem[s])') /\ (pc'[s] = "saving" => Extends(mem[s])')
        <3>1. pc'[s] # "saving" /\ (Fixed(s)' => Fixed(s))
            BY <1>1, <1>2, <2>1, <2>2 DEF Fixed, Inv, TypeOK
        <3>2. Fixed(s) => Known(mem[s]) \ withdrawn = {}
            BY <1>3, <2>1, <2>2 DEF Agreed, Kept
        <3> QED
            BY <1>1, <3>1, <3>2 DEF Kept, Known
    <2>3. \A s \in Req : answer'[s] = "found" => pc'[s] = "done"
        BY <1>2 DEF Agreed, Inv, TypeOK
    <2> QED
        BY <2>2, <2>3 DEF Agreed
<1>4. CASE local # NoPkg
    <2>1. UNCHANGED <<local, lost>>
        BY <1>4 DEF Create
    <2> QED
        BY <1>1, <1>2, <2>1, AgreedRequest DEF Inv, TypeOK, Fixed
<1> QED
    BY <1>3, <1>4

LEMMA AgreedNext == Inv /\ Agreed /\ [Next]_vars => Agreed'
<1> SUFFICES ASSUME Inv, Agreed, [Next]_vars
             PROVE  Agreed'
    OBVIOUS
<1>1. CASE \E v \in Version, u \in Uplink : RemotePublish(u, v)
    BY <1>1 DEF RemotePublish, Agreed, Fixed, Kept, Extends
<1>2. CASE \E v \in Version : Publish(v)
    BY <1>2, AgreedPublish
<1>3. CASE \E v \in Version : Unpublish(v)
    BY <1>3, AgreedUnpublish
<1>4. CASE Remove
    BY <1>4, AgreedRemove
<1>5. CASE \E g \in Getters : Get(g)
    BY <1>5, AgreedBegin DEF Req
<1>6. CASE \E c \in Creators : CheckPackageLocal(c) \/ Add(c)
    BY <1>6, AgreedBegin DEF Req
<1>7. CASE \E r \in Req : Unreadable(r)
    BY <1>7, AgreedBegin
<1>8. CASE \E r \in Req, u \in Uplink : Serve(r, u) \/ Fail(r, u) \/ Arrive(r, u)
    BY <1>8, AgreedUplink
<1>9. CASE \E r \in Req : Nowhere(r) \/ Unasked(r) \/ Load(r) \/ SaveFail(r)
    BY <1>9, AgreedWork
<1>10. CASE \E r \in Req : Save(r)
    BY <1>10, AgreedSave
<1>11. CASE \E r \in Req : Create(r)
    BY <1>11, AgreedCreate
<1>12. CASE UNCHANGED vars
    BY <1>12 DEF vars, outside, Agreed, Fixed, Kept, Extends
<1> QED
    BY <1>1, <1>2, <1>3, <1>4, <1>5, <1>6, <1>7, <1>8, <1>9, <1>10, <1>11, <1>12 DEF Next, Work, Finished

\* Two requests never get different packages under one version number, for any
\* uplinks that have different ones, as long as no write was overtaken: what was
\* once answered is in the file, and stays what it is until it is unpublished.
THEOREM SamePackageForAll == Spec => []SameForAll
<1>1. Init => Agreed
    BY DEF Init, Agreed, Fixed
<1>2. Agreed => SameForAll
    <2> SUFFICES ASSUME Agreed, ~lost, NEW r \in Req, NEW s \in Req, answer[r] = "found", answer[s] = "found",
                        NEW v \in (Known(mem[r]) \cap Known(mem[s])) \ withdrawn
                 PROVE  mem[r].versions[v] = mem[s].versions[v]
        BY DEF SameForAll
    <2>1. Kept(mem[r]) /\ Kept(mem[s])
        BY DEF Agreed, Fixed
    <2> QED
        BY <2>1 DEF Kept
<1> QED
    BY <1>1, <1>2, InitInv, StepInv, AgreedNext, PTL DEF Spec

-----------------------------------------------------------------------------
(* The tag *)

\* The tag of p is not below that of a content that came with an etag of it.
Follows(p) ==
    \A u \in Uplink : p.etag[u] # None /\ p.etag[u].latest # Bad =>
        p.latest \in Version /\ p.latest >= p.etag[u].latest

\* All uplinks were asked, or none.
AskedAll == \A r \in Req : DOMAIN result[r] \in {{}, Uplink} /\ (pc[r] = "idle" => DOMAIN result[r] = {})

Clean ==
    /\ published = {} /\ withdrawn = {}
    /\ \A r \in Req : ~Got(r, "missing") /\ ~Got(r, "failed") /\ ~Got(r, "timeout")

TagsFollow ==
    Clean =>
        /\ local # NoPkg => Follows(local)
        /\ \A r \in Req :
            /\ pc[r] \in {"waiting", "saving"} => Follows(mem[r])
            /\ pc[r] = "waiting" => \A u \in DOMAIN result[r] : result[r][u] # "asked" => mem[r].etag[u] # None

LEMMA NormalizeFollows ==
    ASSUME NEW p \in Package, Follows(p)
    PROVE  Follows(Normalize(p))
<1>1. Normalize(p).etag = p.etag
    BY DEF Normalize, Package
<1>2. CASE p.latest \in Version
    <2>1. Normalize(p) = p
        BY <1>2, MarkAssumption DEF Normalize
    <2> QED
        BY <2>1
<1>3. CASE p.latest \notin Version
    BY <1>1, <1>3 DEF Follows
<1> QED
    BY <1>2, <1>3

\* The tag moves upwards, unless it is no version.
LEMMA MergeFollows ==
    ASSUME NEW p \in Package, Follows(p), NEW u \in Uplink, NEW c \in Content, ~Throws(p, c)
    PROVE  Follows(MergeVersions(p, u, c))
<1> DEFINE q == MergeVersions(p, u, c)
<1>1. q.latest = Later(p, c) /\ \A w \in Uplink : q.etag[w] = IF w = u THEN c ELSE p.etag[w]
    BY DEF MergeVersions, Package
<1>2. p.latest \in Version \cup {Bad, None} /\ c.latest \in Version \cup {Bad} /\ Version \subseteq Nat
    BY VersionAssumption DEF Package, Content
<1>3. CASE c.latest = Bad
    <2>1. p.latest \notin Version
        BY <1>3, MarkAssumption DEF Throws
    <2>2. ASSUME NEW w \in Uplink, p.etag[w] # None PROVE p.etag[w].latest = Bad
        BY <2>1, <2>2 DEF Follows
    <2>3. ASSUME NEW w \in Uplink, q.etag[w] # None PROVE q.etag[w].latest = Bad
        <3> HIDE DEF q
        <3>1. q.etag[w] = IF w = u THEN c ELSE p.etag[w]
            BY <1>1
        <3> QED
            BY <1>3, <2>2, <2>3, <3>1
    <2> QED
        BY <2>3 DEF Follows
<1>4. CASE c.latest # Bad
    <2>1. p.latest = None \/ p.latest = c.latest \/ (p.latest \in Version /\ p.latest # c.latest)
        BY <1>2, <1>4 DEF Throws
    <2>2. /\ Later(p, c) \in Version /\ Later(p, c) >= c.latest
          /\ p.latest \in Version => Later(p, c) >= p.latest
        <3>1. CASE p.latest \in {None, c.latest}
            BY <1>2, <1>4, <3>1, MarkAssumption DEF Later
        <3>2. CASE p.latest \in Version /\ p.latest \notin {None, c.latest}
            <4>1. Later(p, c) = Max({p.latest, c.latest})
                BY <3>2 DEF Later
            <4>2. Max({p.latest, c.latest}) \in {p.latest, c.latest} /\ Max({p.latest, c.latest}) >= p.latest
                  /\ Max({p.latest, c.latest}) >= c.latest
                BY <1>2, <1>4, <3>2, MaxOfTwo
            <4> QED
                BY <1>2, <1>4, <3>2, <4>1, <4>2
        <3> QED
            BY <2>1, <3>1, <3>2
    <2>3. ASSUME NEW w \in Uplink, q.etag[w] # None, q.etag[w].latest # Bad
          PROVE  q.latest \in Version /\ q.latest >= q.etag[w].latest
        <3>1. CASE w = u
            BY <1>1, <2>2, <3>1
        <3>2. CASE w # u
            <4>1. p.etag[w] \in Content /\ q.etag[w] = p.etag[w]
                BY <1>1, <2>3, <3>2 DEF Package
            <4>2. p.etag[w].latest \in Nat
                BY <1>2, <2>3, <4>1 DEF Content
            <4>3. p.latest \in Version /\ p.latest >= p.etag[w].latest
                BY <2>3, <4>1 DEF Follows
            <4>4. Later(p, c) \in Nat /\ p.latest \in Nat /\ Later(p, c) >= p.latest
                BY <1>2, <2>2, <4>3
            <4>5. Later(p, c) >= p.etag[w].latest
                BY <4>2, <4>3, <4>4
            <4> HIDE DEF q
            <4> QED
                BY <1>1, <2>2, <4>1, <4>5
        <3> QED
            BY <3>1, <3>2
    <2> QED
        BY <2>3 DEF Follows
<1> QED
    BY <1>3, <1>4

\* A request that knows an etag of every uplink stores its tag with them.
LEMMA UpdateFollows ==
    ASSUME NEW p, NEW q \in Package, Follows(q), \A u \in Uplink : q.etag[u] # None
    PROVE  Follows(UpdateVersions(p, q))
<1> DEFINE s == UpdateVersions(p, q)
<1>1. (q.latest \in Version => s.latest = q.latest) /\ \A u \in Uplink : s.etag[u] = q.etag[u]
    BY MarkAssumption DEF UpdateVersions
<1> HIDE DEF s
<1> QED
    BY <1>1 DEF Follows, s

-----------------------------------------------------------------------------
Troubles == {"missing", "failed", "timeout"}

\* Steps of one request that leave the file alone.
LEMMA TagsRequest ==
    ASSUME Inv, TagsFollow, NEW r \in Req, UNCHANGED <<local, published, withdrawn>>,
           \A s \in Req \ {r} : pc'[s] = pc[s] /\ mem'[s] = mem[s] /\ result'[s] = result[s],
           \A x \in Troubles : Got(r, x) => Got(r, x)',
           Clean /\ Clean' =>
              /\ pc'[r] \in {"waiting", "saving"} => Follows(mem'[r])
              /\ pc'[r] = "waiting" =>
                    \A u \in DOMAIN result'[r] : result'[r][u] # "asked" => mem'[r].etag[u] # None
    PROVE  TagsFollow'
<1> SUFFICES ASSUME Clean' PROVE TagsFollow'
    BY DEF TagsFollow
<1>1. \A s \in Req : \A x \in Troubles : Got(s, x) => Got(s, x)'
    BY DEF Got
<1>2. Clean
    BY <1>1 DEF Clean, Troubles
<1>3. ASSUME NEW s \in Req
      PROVE  /\ pc'[s] \in {"waiting", "saving"} => Follows(mem[s])'
             /\ pc'[s] = "waiting" =>
                   \A u \in DOMAIN result'[s] : result'[s][u] # "asked" => mem'[s].etag[u] # None
    <2>1. CASE s = r
        BY <1>2, <2>1 DEF Follows
    <2>2. CASE s # r
        BY <1>2, <2>2 DEF TagsFollow, Follows
    <2> QED
        BY <2>1, <2>2
<1>4. local' # NoPkg => Follows(local)'
    BY <1>2 DEF TagsFollow, Follows
<1> QED
    BY <1>3, <1>4 DEF TagsFollow

\* The tag of the file is read.
LEMMA TagsBegin ==
    ASSUME Inv, AskedAll, TagsFollow, NEW r \in Req,
           Get(r) \/ Add(r) \/ CheckPackageLocal(r) \/ Unreadable(r)
    PROVE  TagsFollow' /\ AskedAll'
<1>1. UNCHANGED <<local, published, withdrawn>> /\ pc[r] = "idle" /\ DOMAIN result[r] = {}
    BY DEF Get, Add, CheckPackageLocal, Unreadable, outside, AskedAll
<1>2. CASE Get(r) \/ Add(r)
    <2> DEFINE p == IF local = NoPkg THEN Template ELSE Normalize(local)
    <2>1. PICK asked \in {{}, Uplink} : Ask(r, p, asked)
        BY <1>2 DEF Get, Add
    <2>2. PICK fresh \in SUBSET {u \in asked : p.etag[u] # None} :
              result' = [result EXCEPT ![r] = [u \in asked |-> IF u \in fresh THEN "fresh" ELSE "asked"]]
        BY <2>1 DEF Ask
    <2>3. mem' = [mem EXCEPT ![r] = p] /\ pc' = [pc EXCEPT ![r] = "waiting"]
        BY <2>1 DEF Ask, Goto
    <2>4. Clean => Follows(p)
        BY NormalizeFollows DEF TagsFollow, Inv, TypeOK, Follows, Template
    <2> DEFINE f == [u \in asked |-> IF u \in fresh THEN "fresh" ELSE "asked"]
    <2>5. DOMAIN f = asked /\ \A u \in asked : f[u] # "asked" => p.etag[u] # None
        OBVIOUS
    <2> HIDE DEF p, f
    <2>6. result'[r] = f /\ mem'[r] = p /\ pc'[r] = "waiting"
        BY <2>2, <2>3 DEF Inv, TypeOK, f
    <2>7. \A s \in Req \ {r} : pc'[s] = pc[s] /\ mem'[s] = mem[s] /\ result'[s] = result[s]
        BY <2>2, <2>3 DEF Inv, TypeOK
    <2>8. TagsFollow'
        BY <1>1, <2>4, <2>5, <2>6, <2>7, TagsRequest DEF Got
    <2>9. AskedAll'
        BY <2>5, <2>6, <2>7 DEF AskedAll
    <2> QED
        BY <2>8, <2>9
<1>3. CASE CheckPackageLocal(r) \/ Unreadable(r)
    <2>1. pc' = [pc EXCEPT ![r] = "done"] /\ UNCHANGED <<mem, result>>
        BY <1>3 DEF CheckPackageLocal, Unreadable, Answer, Goto
    <2>2. TagsFollow'
        BY <1>1, <2>1, TagsRequest DEF Inv, TypeOK, Got
    <2>3. AskedAll'
        BY <2>1 DEF AskedAll, Inv, TypeOK
    <2> QED
        BY <2>2, <2>3
<1> QED
    BY <1>2, <1>3

\* An uplink answers: where it sent a package the tag follows it, and the merge
\* does not throw unless a tag is no version.
LEMMA TagsUplink ==
    ASSUME Inv, AskedAll, TagsFollow, NEW r \in Req, NEW u \in Uplink,
           Serve(r, u) \/ Fail(r, u) \/ Arrive(r, u)
    PROVE  TagsFollow' /\ AskedAll'
<1>1. Awaits(r, u)
    BY DEF Serve, Fail, Arrive, Inv, ReplyAwaited
<1>2. UNCHANGED <<local, published, withdrawn, pc>>
    BY DEF Serve, Fail, Arrive, outside
<1>3. result' = result \/ \E x \in Results : Result(r, u, x)
    BY DEF Serve, Fail, Arrive, Results
<1>4. \A s \in Req \ {r} : mem'[s] = mem[s] /\ result'[s] = result[s]
    BY <1>3 DEF Serve, Fail, Arrive, Result, Inv, TypeOK
<1>5. /\ DOMAIN result'[r] = DOMAIN result[r]
      /\ \A w \in DOMAIN result[r] : w # u => result'[r][w] = result[r][w]
      /\ \A x : Result(r, u, x) => result'[r][u] = x
    <2>1. \A x : Result(r, u, x) => result'[r] = [result[r] EXCEPT ![u] = x]
        BY DEF Result, Inv, TypeOK
    <2> QED
        BY <1>1, <1>3, <2>1 DEF Awaits
<1>6. \A x \in Troubles : Got(r, x) => Got(r, x)'
    BY <1>1, <1>5 DEF Got, Awaits, Troubles
<1>7. AskedAll'
    BY <1>1, <1>2, <1>4, <1>5 DEF AskedAll, Awaits
<1>8. pc[r] = "waiting" /\ u \in DOMAIN result[r] /\ mem[r] \in Package
    BY <1>1 DEF Awaits, Inv, MemHonest, Busy
<1>9. CASE Serve(r, u) \/ Fail(r, u)
    <2>1. mem' = mem
        BY <1>9 DEF Serve, Fail
    <2> DEFINE y == result'[r][u]
    <2>0. \/ y \in Troubles \/ y = "asked"
          \/ y = "unchanged" /\ remote[u] # NoPkg /\ remote[u] = mem[r].etag[u]
        <3>1. UNCHANGED result => y = "asked"
            BY <1>1 DEF Awaits
        <3>2. \A x : Result(r, u, x) => y = x
            BY <1>5
        <3> HIDE DEF y
        <3>3. CASE Serve(r, u)
            <4>1. \/ UNCHANGED result
                  \/ Result(r, u, "missing")
                  \/ Result(r, u, "unchanged") /\ remote[u] # NoPkg /\ remote[u] = mem[r].etag[u]
                BY <3>3, Zenon DEF Serve
            <4>2. (Result(r, u, "missing") => y = "missing") /\ (Result(r, u, "unchanged") => y = "unchanged")
                BY <3>2, Zenon
            <4> QED
                BY <3>1, <4>1, <4>2 DEF Troubles
        <3>4. CASE Fail(r, u)
            <4>1. \E x \in {"failed", "timeout"} : Result(r, u, x)
                BY <3>4, Zenon DEF Fail
            <4> QED
                BY <3>2, <4>1, Zenon DEF Troubles
        <3> QED
            BY <1>9, <3>3, <3>4
    <2>2. Clean' => y \in {"asked", "unchanged"}
        <3>1. y \in Troubles \/ y = "unchanged" \/ y = "asked"
            BY <2>0
        <3>2. y \in Troubles => \E x \in Troubles : Got(r, x)'
            BY <1>5, <1>8 DEF Got
        <3> QED
            BY <3>1, <3>2 DEF Clean, Troubles
    <2>3. result'[r][u] = "unchanged" => mem[r].etag[u] # None
        <3>1. result'[r][u] = "unchanged" => remote[u] # NoPkg /\ remote[u] = mem[r].etag[u]
            BY <2>0 DEF Troubles
        <3>2. remote[u] # NoPkg => remote[u] # None
            BY PackageAssumption DEF Inv, TypeOK
        <3> QED
            BY <3>1, <3>2
    <2> QED
        BY <1>2, <1>4, <1>5, <1>6, <1>7, <1>8, <2>1, <2>2, <2>3, TagsRequest DEF TagsFollow
<1>10. CASE Arrive(r, u)
    <2> DEFINE c == reply[r][u]
               q == MergeVersions(mem[r], u, c)
    <2>1. c \in Content /\ c # None /\ mem' = [mem EXCEPT ![r] = q]
        BY <1>10 DEF Arrive, Inv, TypeOK
    <2>2. Clean' => ~Throws(mem[r], c)
        <3>1. Throws(mem[r], c) => Result(r, u, "failed")
            BY <1>10 DEF Arrive
        <3> QED
            BY <1>5, <1>8, <3>1 DEF Clean, Got
    <2>3. Clean /\ Clean' => Follows(q)
        BY <1>8, <2>1, <2>2, MergeFollows DEF TagsFollow
    <2>4. \A w \in Uplink : q.etag[w] = IF w = u THEN c ELSE mem[r].etag[w]
        BY <1>8 DEF MergeVersions, Package
    <2> HIDE DEF c, q
    <2>5. mem'[r] = q
        BY <2>1 DEF Inv, TypeOK
    <2>6. DOMAIN result[r] \subseteq Uplink
        BY DEF AskedAll
    <2>7. TagsFollow'
        BY <1>2, <1>4, <1>5, <1>6, <1>8, <2>1, <2>3, <2>4, <2>5, <2>6, TagsRequest DEF TagsFollow
    <2> QED
        BY <1>7, <2>7
<1> QED
    BY <1>9, <1>10

\* A request that has settled goes on.
LEMMA TagsWork ==
    ASSUME Inv, AskedAll, TagsFollow, NEW r \in Req, Nowhere(r) \/ Unasked(r) \/ Load(r) \/ SaveFail(r)
    PROVE  TagsFollow' /\ AskedAll'
<1>1. UNCHANGED <<local, published, withdrawn, result>>
    BY DEF Nowhere, Unasked, Load, SaveFail, outside
<1>2. PICK s \in {"done", "creating", "saving"} :
          pc' = [pc EXCEPT ![r] = s] /\ (s = "saving" => Load(r))
    BY DEF Nowhere, Unasked, Load, SaveFail, Found, Answer, Goto
<1>3. AskedAll'
    BY <1>1, <1>2 DEF AskedAll, Inv, TypeOK
<1>4. \A q \in Req \ {r} : mem'[q] = mem[q]
    BY DEF Nowhere, Unasked, Load, SaveFail, Inv, TypeOK
<1>5. Clean /\ s = "saving" => Follows(mem'[r])
    <2> SUFFICES ASSUME Clean, Load(r) PROVE Follows(mem'[r])
        BY <1>2
    <2>1. mem[r] \in Package /\ Settled(r) /\ DOMAIN result[r] = Uplink
        BY DEF Load, Settled, Inv, MemHonest, Busy, AskedAll
    <2>2. Follows(mem[r]) /\ \A u \in Uplink : mem[r].etag[u] # None
        BY <2>1 DEF Settled, TagsFollow
    <2>3. \E p : mem' = [mem EXCEPT ![r] = UpdateVersions(p, mem[r])]
        BY DEF Load
    <2>4. \E p : mem'[r] = UpdateVersions(p, mem[r])
        BY <2>3 DEF Inv, TypeOK
    <2> QED
        BY <2>1, <2>2, <2>4, UpdateFollows
<1>6. pc'[r] = s /\ \A q \in Req \ {r} : pc'[q] = pc[q]
    BY <1>2 DEF Inv, TypeOK
<1>7. \A x \in Troubles : Got(r, x) => Got(r, x)'
    BY <1>1 DEF Got
<1> QED
    BY <1>1, <1>3, <1>4, <1>5, <1>6, <1>7, TagsRequest

\* A file is written, or goes.
LEMMA TagsWrite ==
    ASSUME Inv, AskedAll, TagsFollow, NEW r \in Req, Save(r) \/ Create(r)
    PROVE  TagsFollow' /\ AskedAll'
<1>1. UNCHANGED <<published, withdrawn, result, mem>> /\ pc' = [pc EXCEPT ![r] = "done"]
    BY DEF Save, Create, outside, Found, Answer, Goto
<1>2. Clean' => Clean
    BY <1>1 DEF Clean, Got
<1>3. Clean => local' = NoPkg \/ Follows(local')
    <2>1. CASE Save(r)
        BY <2>1 DEF Save, Written, TagsFollow
    <2>2. CASE Create(r)
        BY <2>2 DEF Create, Written, TagsFollow, Follows, Template
    <2> QED
        BY <2>1, <2>2
<1>4. AskedAll'
    BY <1>1 DEF AskedAll, Inv, TypeOK
<1>5. \A s \in Req : pc'[s] \in {"waiting", "saving"} => pc[s] = pc'[s]
    BY <1>1 DEF Inv, TypeOK
<1>6. Follows(local') => Follows(local)'
    BY DEF Follows
<1>7. \A s \in Req : Follows(mem[s]) => Follows(mem[s])'
    BY <1>1 DEF Follows
<1> QED
    BY <1>1, <1>2, <1>3, <1>4, <1>5, <1>6, <1>7 DEF TagsFollow

LEMMA TagsNext == Inv /\ AskedAll /\ TagsFollow /\ [Next]_vars => TagsFollow' /\ AskedAll'
<1> SUFFICES ASSUME Inv, AskedAll, TagsFollow, [Next]_vars
             PROVE  TagsFollow' /\ AskedAll'
    OBVIOUS
<1>1. CASE UNCHANGED <<published, withdrawn, local, pc, mem, result>>
    BY <1>1 DEF TagsFollow, AskedAll, Clean, Got, Follows
<1>2. CASE UNCHANGED <<pc, result>> /\ ~Clean'
    BY <1>2 DEF TagsFollow, AskedAll
<1>3. CASE UNCHANGED <<pc, mem, result, published>> /\ local' = NoPkg /\ withdrawn \subseteq withdrawn'
    <2>1. Clean' => Clean
        BY <1>3 DEF Clean, Got
    <2>2. \A s \in Req : Follows(mem[s]) => Follows(mem[s])'
        BY <1>3 DEF Follows
    <2> QED
        BY <1>3, <2>1, <2>2 DEF TagsFollow, AskedAll
<1>4. CASE \E v \in Version, u \in Uplink : RemotePublish(u, v)
    BY <1>1, <1>4 DEF RemotePublish
<1>5. CASE \E v \in Version : Publish(v)
    BY <1>2, <1>5 DEF Publish, Clean
<1>6. CASE \E v \in Version : Unpublish(v)
    BY <1>2, <1>6 DEF Unpublish, Clean
<1>7. CASE Remove
    BY <1>3, <1>7 DEF Remove, Written
<1>8. CASE \E g \in Getters : Get(g)
    BY <1>8, TagsBegin DEF Req
<1>9. CASE \E c \in Creators : CheckPackageLocal(c) \/ Add(c)
    BY <1>9, TagsBegin DEF Req
<1>10. CASE \E r \in Req : Unreadable(r)
    BY <1>10, TagsBegin
<1>11. CASE \E r \in Req, u \in Uplink : Serve(r, u) \/ Fail(r, u) \/ Arrive(r, u)
    BY <1>11, TagsUplink
<1>12. CASE \E r \in Req : Nowhere(r) \/ Unasked(r) \/ Load(r) \/ SaveFail(r)
    BY <1>12, TagsWork
<1>13. CASE \E r \in Req : Save(r) \/ Create(r)
    BY <1>13, TagsWrite
<1>14. CASE UNCHANGED vars
    BY <1>1, <1>14 DEF vars, outside
<1> QED
    BY <1>4, <1>5, <1>6, <1>7, <1>8, <1>9, <1>10, <1>11, <1>12, <1>13, <1>14 DEF Next, Work, Finished

\* The tag is not below what the uplinks say, whichever request stores last: a
\* request that stores has an etag of every uplink, and the tag that goes with
\* them.
THEOREM LatestNotBehind == Spec => []LatestFollows
<1>1. Init => AskedAll /\ TagsFollow
    BY DEF Init, AskedAll, TagsFollow
<1>2. TagsFollow => LatestFollows
    <2>1. Undisturbed => Clean
        BY DEF Undisturbed, Clean
    <2>2. ASSUME TagsFollow, Undisturbed, local # NoPkg, NEW u \in Uplink, local.etag[u] # None
          PROVE  local.latest # None /\ local.latest >= local.etag[u].latest
        BY <2>1, <2>2, MarkAssumption DEF TagsFollow, Follows, Undisturbed
    <2> QED
        BY <2>2 DEF LatestFollows
<1> QED
    BY <1>1, <1>2, InitInv, StepInv, TagsNext, PTL DEF Spec
=============================================================================
