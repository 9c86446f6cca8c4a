------------------------- MODULE LocalStorage_proofs -------------------------
(***************************************************************************)
(* What LocalStorage keeps however many clients, uplinks, versions and tags *)
(* there are and however often a write fails.                               *)
(***************************************************************************)
EXTENDS LocalStorage, FiniteSetTheorems, WellFoundedInduction, TLAPS

-----------------------------------------------------------------------------
(* Packages *)

\* The maximum of a finite set of numbers is one of its elements, and none is
\* above it: the element with the fewest others above it.
LEMMA MaxIsIn ==
    ASSUME NEW S \in SUBSET Nat, IsFiniteSet(S), S # {}
    PROVE  Max(S) \in S /\ \A y \in S : Max(S) >= y
<1> DEFINE Above(x) == {y \in S : y > x}
           R == OpToRel(<, Nat)
           N == {Cardinality(Above(x)) : x \in S}
<1>1. \A x \in S : IsFiniteSet(Above(x)) /\ Cardinality(Above(x)) \in Nat
    BY FS_Subset, FS_CardinalityType
<1>2. \A a, b \in Nat : a < b => <<a, b>> \in R
    BY DEF OpToRel
<1> HIDE DEF R
<1>3. PICK x \in S : \A y \in S : <<Cardinality(Above(y)), Cardinality(Above(x))>> \notin R
    <2>1. N \subseteq Nat /\ N # {}
        BY <1>1
    <2>2. IsWellFoundedOn(R, Nat)
        BY NatLessThanWellFounded DEF R
    <2> HIDE DEF N
    <2>3. PICK n \in N : \A k \in N : ~(<<k, n>> \in R)
        BY <2>1, <2>2, WFMin
    <2> QED
        BY <2>3, Zenon DEF N
<1>4. ASSUME NEW y \in S, y > x PROVE FALSE
    <2>1. x \in Int /\ y \in Int /\ \A z \in S : z \in Int
        OBVIOUS
    <2>2. ~(y > y) /\ \A z \in S : z > y => z > x
        BY <1>4, <2>1
    <2>3. Above(y) \in SUBSET Above(x) /\ y \in Above(x) /\ y \notin Above(y)
        BY <1>4, <2>2
    <2>4. Cardinality(Above(y)) <= Cardinality(Above(x)) /\ Cardinality(Above(y)) # Cardinality(Above(x))
        BY <1>1, <2>3, FS_Subset
    <2>5. <<Cardinality(Above(y)), Cardinality(Above(x))>> \in R
        BY <1>1, <1>2, <2>4
    <2> QED
        BY <1>3, <2>5
<1>5. \E m \in S : \A y \in S : m >= y
    BY <1>4
<1> QED
    BY <1>5 DEF Max

LEMMA TemplateTyped ==
    /\ Template \in Package
    /\ \A v \in Version : Template.versions[v] = None /\ Template.files[v] = None
    /\ \A t \in Tags : Template.tags[t] = None
BY DEF Template, Package

LEMMA NormalizeTyped ==
    ASSUME NEW p \in Package
    PROVE  /\ Normalize(p) \in Package
           /\ Normalize(p).versions = p.versions /\ Normalize(p).files = p.files
<1>1. Known(p) # {} => Max(Known(p)) \in Version
    BY VersionAssumption, MaxIsIn, FS_Subset DEF Known
<1> QED
    BY <1>1 DEF Normalize, Package

\* Every tag of the package names a version of it.
Resolving(p) == \A t \in Tags : p.tags[t] # None => p.versions[p.tags[t]] # None

LEMMA NormalizeResolves ==
    ASSUME NEW p \in Package, Resolving(p)
    PROVE  Resolving(Normalize(p))
<1>1. Known(p) # {} => Max(Known(p)) \in Version /\ p.versions[Max(Known(p))] # None
    BY VersionAssumption, MaxIsIn, FS_Subset DEF Known
<1> QED
    BY <1>1 DEF Normalize, Package, Resolving

-----------------------------------------------------------------------------
(* Types: the stages of each kind of request, and what goes with them *)

Kind(r) ==
    /\ r \in Clients =>
        /\ pc[r] \in {"idle", "creating", "ready", "sending", "stored", "recording", "recorded", "adding", "done"}
        /\ pc[r] \in {"idle", "creating", "ready", "done"} \/ arg[r] \in Version
        /\ pc[r] = "creating" => r \in Creators
    /\ r \in Taggers => pc[r] \in {"idle", "tagging", "done"}
    /\ r \in Changers =>
        /\ pc[r] \in {"idle", "fetched", "changing", "changed", "detaching", "detached", "done"}
        /\ pc[r] \in {"idle", "done"} \/ arg[r] \in Version
    /\ r \in Syncers => pc[r] \in {"idle", "saving", "done"}
    /\ r \in Removers => pc[r] \in {"idle", "deleting", "rmdir", "unanswered", "done"}

Typed ==
    /\ TypeOK
    /\ \A r \in Req :
        /\ Kind(r)
        /\ pc[r] \in Holding <=> holder = r
        /\ pc[r] \in Holding \cup {"fetched", "saving", "deleting"} => mem[r] \in Package

LEMMA TypedInit == Init => Typed
<1> SUFFICES ASSUME Init PROVE Typed
    OBVIOUS
<1>1. TypeOK
    BY TemplateTyped DEF Init, TypeOK, Stage
<1>2. \A r \in Req : pc[r] = "idle" /\ holder # r
    BY MarkAssumption DEF Init
<1> QED
    BY <1>1, <1>2 DEF Typed, Kind, Holding

\* What every update does when its handler accepts: r holds the lock and the
\* package q that it is about to write.
Entered(r, q, s) ==
    /\ holder = None /\ Exists /\ holder' = r /\ q \in Package
    /\ mem' = [mem EXCEPT ![r] = q] /\ pc' = [pc EXCEPT ![r] = s]
    /\ UNCHANGED <<pkg, dir, tar, arg, acked, overlaps, faults>>

LEMMA EnterEntered ==
    ASSUME NEW r, NEW p \in Package, NEW s, Enter(r, p, s)
    PROVE  Entered(r, Normalize(p), s)
BY NormalizeTyped DEF Enter, Goto, Entered

LEMMA EnteredTyped ==
    ASSUME Typed, NEW r \in Req, NEW q, NEW s \in Holding, Entered(r, q, s), listed' \in BOOLEAN,
           \/ r \in Clients /\ s \in {"recording", "adding"} /\ arg[r] \in Version
           \/ r \in Taggers /\ s = "tagging"
           \/ r \in Changers /\ s \in {"changing", "detaching"} /\ arg[r] \in Version
    PROVE  Typed'
<1>1. TypeOK'
    BY DEF Typed, TypeOK, Entered, Stage
<1>2. \A x \in Req : pc'[x] \in Holding <=> holder' = x
    BY MarkAssumption DEF Typed, TypeOK, Entered
<1>3. \A x \in Req : pc'[x] \in Holding \cup {"fetched", "saving", "deleting"} => mem'[x] \in Package
    BY DEF Typed, TypeOK, Entered
<1>4. \A x \in Req \ {r} : pc'[x] = pc[x] /\ arg'[x] = arg[x]
    BY DEF Typed, TypeOK, Entered
<1>5. pc'[r] = s /\ arg'[r] = arg[r]
    BY DEF Typed, TypeOK, Entered
<1>6. \A x \in Req \ {r} : Kind(x)'
    BY <1>4 DEF Typed, Kind
<1>7. Kind(r)'
    BY <1>5, RequestAssumption DEF Typed, Kind
<1> QED
    BY <1>1, <1>2, <1>3, <1>6, <1>7 DEF Typed

-----------------------------------------------------------------------------
(* What each handler turns the package into *)

Recording(c) ==
    /\ pc[c] = "stored" /\ listed' = listed
    /\ \E q : /\ Entered(c, q, "recording") /\ (Resolving(pkg) => Resolving(q))
              /\ q.versions = pkg.versions /\ q.files = [pkg.files EXCEPT ![arg[c]] = c]

Adding(c) ==
    /\ pc[c] = "recorded" /\ listed' = TRUE /\ pkg.versions[arg[c]] = None
    /\ \E q : /\ Entered(c, q, "adding") /\ (Resolving(pkg) => Resolving(q))
              /\ q.versions = [pkg.versions EXCEPT ![arg[c]] = c] /\ q.files = pkg.files

Tagging(g) ==
    /\ pc[g] = "idle" /\ listed' = listed
    /\ \E q : /\ Entered(g, q, "tagging") /\ (Resolving(pkg) => Resolving(q))
              /\ q.versions = pkg.versions /\ q.files = pkg.files

Changing(x) ==
    /\ pc[x] = "fetched" /\ listed' = listed
    /\ \E q : /\ Entered(x, q, "changing") /\ q.files = pkg.files
              /\ (Resolving(mem[x]) /\ \A v \in Version : mem[x].versions[v] # None => pkg.versions[v] # None)
                   => Resolving(q)

Detaching(x) ==
    /\ pc[x] = "changed" /\ listed' = listed /\ pkg.files[arg[x]] # None
    /\ \E q : /\ Entered(x, q, "detaching") /\ (Resolving(pkg) => Resolving(q))
              /\ q.versions = pkg.versions /\ q.files = [pkg.files EXCEPT ![arg[x]] = None]

\* The synchronization holds the package q that it is about to write.
Loaded(s) ==
    /\ pc[s] = "idle"
    /\ \E q : /\ q \in Package /\ mem' = [mem EXCEPT ![s] = q]
              /\ (Exists => Resolving(pkg)) => Resolving(q)
    /\ pc' = [pc EXCEPT ![s] = "saving"]
    /\ UNCHANGED <<pkg, dir, tar, listed, holder, arg, acked, overlaps, faults>>

\* The client holds the package q, which has no version that is not there.
Fetched(x) ==
    /\ pc[x] = "idle" /\ Exists
    /\ \E q : /\ q \in Package /\ mem' = [mem EXCEPT ![x] = q]
              /\ Resolving(pkg) => Resolving(q)
              /\ \A w \in Version : q.versions[w] # None => pkg.versions[w] # None
    /\ pc' = [pc EXCEPT ![x] = "fetched"]
    /\ arg'[x] \in Version /\ arg' = [arg EXCEPT ![x] = arg'[x]]
    /\ UNCHANGED <<pkg, dir, tar, listed, holder, acked, overlaps, faults>>

LEMMA RecordEffect ==
    ASSUME Typed, NEW c \in Clients, Record(c), Exists
    PROVE  Recording(c)
<1> DEFINE p == [pkg EXCEPT !.files[arg[c]] = c]
<1>1. p \in Package /\ p.versions = pkg.versions /\ p.tags = pkg.tags
    BY DEF Typed, TypeOK, Exists, Package
<1>2. p.files = [pkg.files EXCEPT ![arg[c]] = c]
    BY DEF Typed, TypeOK, Exists, Package
<1>3. Enter(c, p, "recording") /\ pc[c] = "stored" /\ listed' = listed
    BY DEF Record
<1> HIDE DEF p
<1>4. Resolving(pkg) => Resolving(Normalize(p))
    BY <1>1, NormalizeResolves DEF Resolving
<1> QED
    BY <1>1, <1>2, <1>3, <1>4, EnterEntered, NormalizeTyped DEF Recording

LEMMA AddVersionEffect ==
    ASSUME Typed, NEW c \in Clients, NEW t \in Tags, AddVersion(c, t), ~Refuse(c)
    PROVE  Adding(c)
<1> DEFINE v == arg[c]
           p == [pkg EXCEPT !.versions[v] = c, !.tags[t] = v]
<1>0. /\ pc[c] = "recorded" /\ Exists /\ pkg.versions[v] = None
      /\ Enter(c, p, "adding") /\ listed' = TRUE
    BY DEF AddVersion, Refuse
<1>1. pkg \in Package /\ v \in Version
    BY <1>0 DEF Typed, TypeOK, Kind, Exists, Req
<1>2. p \in Package /\ p.files = pkg.files
    BY <1>1 DEF Package
<1>3. p.versions = [pkg.versions EXCEPT ![v] = c] /\ p.tags = [pkg.tags EXCEPT ![t] = v]
    BY <1>1 DEF Package
<1> HIDE DEF p
<1>4. Resolving(pkg) => Resolving(Normalize(p))
    <2>1. ASSUME Resolving(pkg) PROVE Resolving(p)
        BY <1>1, <1>3, <2>1, MarkAssumption DEF Resolving, Package, Req, Clients
    <2> QED
        BY <1>2, <2>1, NormalizeResolves
<1> QED
    BY <1>0, <1>2, <1>3, <1>4, EnterEntered, NormalizeTyped DEF Adding

LEMMA MergeTagsEffect ==
    ASSUME Typed, NEW g \in Taggers, NEW t \in Tags, NEW v \in Version \cup {None}, MergeTags(g, t, v), ~Refuse(g)
    PROVE  Tagging(g)
<1> DEFINE p == [pkg EXCEPT !.tags[t] = v]
<1>0. /\ pc[g] = "idle" /\ Exists /\ (v = None \/ pkg.versions[v] # None)
      /\ Enter(g, p, "tagging") /\ listed' = listed
    BY DEF MergeTags, Refuse
<1>1. pkg \in Package
    BY <1>0 DEF Typed, TypeOK, Exists
<1>2. p \in Package /\ p.files = pkg.files /\ p.versions = pkg.versions /\ p.tags = [pkg.tags EXCEPT ![t] = v]
    BY <1>1 DEF Package
<1> HIDE DEF p
<1>4. Resolving(pkg) => Resolving(Normalize(p))
    <2>1. ASSUME Resolving(pkg) PROVE Resolving(p)
        BY <1>0, <1>1, <1>2, <2>1 DEF Resolving, Package
    <2> QED
        BY <1>2, <2>1, NormalizeResolves
<1> QED
    BY <1>0, <1>2, <1>4, EnterEntered, NormalizeTyped DEF Tagging

LEMMA ChangeEffect ==
    ASSUME Typed, NEW x \in Changers, Change(x), Exists
    PROVE  Changing(x)
<1> DEFINE p == [pkg EXCEPT !.versions = [v \in Version |-> IF mem[x].versions[v] = None THEN None ELSE @[v]],
                            !.tags = mem[x].tags]
<1>0. pc[x] = "fetched" /\ Enter(x, p, "changing") /\ listed' = listed
    BY DEF Change
<1>1. pkg \in Package /\ mem[x] \in Package
    BY <1>0 DEF Typed, TypeOK, Exists, Req
<1>2. /\ p.files = pkg.files /\ p.tags = mem[x].tags
      /\ p.versions = [v \in Version |-> IF mem[x].versions[v] = None THEN None ELSE pkg.versions[v]]
    BY <1>1 DEF Package
<1>3. p \in Package
    BY <1>1, <1>2 DEF Package
<1> HIDE DEF p
<1>4. ASSUME Resolving(mem[x]), \A v \in Version : mem[x].versions[v] # None => pkg.versions[v] # None
      PROVE  Resolving(p)
    BY <1>1, <1>2, <1>4 DEF Resolving, Package
<1> QED
    BY <1>0, <1>2, <1>3, <1>4, EnterEntered, NormalizeTyped, NormalizeResolves DEF Changing

LEMMA DetachEffect ==
    ASSUME Typed, NEW x \in Changers, Detach(x), ~Refuse(x)
    PROVE  Detaching(x)
<1> DEFINE p == [pkg EXCEPT !.files[arg[x]] = None]
<1>0. /\ pc[x] = "changed" /\ Exists /\ pkg.files[arg[x]] # None
      /\ Enter(x, p, "detaching") /\ listed' = listed
    BY DEF Detach, Refuse
<1>1. pkg \in Package /\ arg[x] \in Version
    BY <1>0 DEF Typed, TypeOK, Kind, Exists, Req
<1>2. /\ p \in Package /\ p.versions = pkg.versions /\ p.tags = pkg.tags
      /\ p.files = [pkg.files EXCEPT ![arg[x]] = None]
    BY <1>1 DEF Package
<1> HIDE DEF p
<1>4. Resolving(pkg) => Resolving(Normalize(p))
    BY <1>2, NormalizeResolves DEF Resolving
<1> QED
    BY <1>0, <1>2, <1>4, EnterEntered, NormalizeTyped DEF Detaching

LEMMA MergeTyped ==
    ASSUME NEW p \in Package, NEW V \in SUBSET Version, NEW T \in [Tags -> V \cup {None}]
    PROVE  Merge(p, V, T) \in Package /\ (Resolving(p) => Resolving(Merge(p, V, T)))
<1> DEFINE m == Merge(p, V, T)
<1>1. /\ m.versions = [v \in Version |-> IF p.versions[v] = None /\ v \in V THEN Remote ELSE p.versions[v]]
      /\ m.tags = [t \in Tags |-> IF T[t] = None THEN p.tags[t] ELSE T[t]]
      /\ m.files = p.files
    BY DEF Merge, Package
<1>2. m \in Package
    BY <1>1 DEF Merge, Package
<1>3. ASSUME Resolving(p) PROVE Resolving(m)
    BY <1>1, <1>3, MarkAssumption DEF Resolving, Package
<1> QED
    BY <1>2, <1>3

LEMMA LoadEffect ==
    ASSUME Typed, NEW s \in Syncers, NEW V \in SUBSET Version, NEW T \in [Tags -> V \cup {None}],
           Load(s, V, T), ~Refuse(s)
    PROVE  Loaded(s)
<1> DEFINE old == IF Exists THEN Normalize(pkg) ELSE Template
           q == Merge(old, V, T)
<1>1. old \in Package /\ ((Exists => Resolving(pkg)) => Resolving(old))
    <2>1. CASE Exists
        <3>1. pkg \in Package
            BY <2>1 DEF Typed, TypeOK, Exists
        <3> QED
            BY <2>1, <3>1, NormalizeTyped, NormalizeResolves
    <2>2. CASE ~Exists
        BY <2>2, TemplateTyped DEF Resolving
    <2> QED
        BY <2>1, <2>2
<1>2. /\ pc[s] = "idle" /\ mem' = [mem EXCEPT ![s] = q] /\ Goto(s, "saving")
      /\ UNCHANGED <<pkg, dir, tar, listed, holder, arg, acked, overlaps, faults>>
    BY DEF Load
<1> HIDE DEF old
<1>3. q \in Package /\ (Resolving(old) => Resolving(q))
    BY <1>1, MergeTyped
<1> QED
    BY <1>1, <1>2, <1>3 DEF Loaded, Goto, Loaded

LEMMA FetchEffect ==
    ASSUME Typed, NEW x \in Changers, NEW v \in Version, Fetch(x, v)
    PROVE  Fetched(x)
<1> DEFINE p == [pkg EXCEPT !.versions[v] = None,
                            !.tags = [t \in Tags |-> IF @[t] = v THEN None ELSE @[t]]]
<1>0. /\ pc[x] = "idle" /\ Exists /\ mem' = [mem EXCEPT ![x] = Normalize(p)]
      /\ pc' = [pc EXCEPT ![x] = "fetched"] /\ arg' = [arg EXCEPT ![x] = v]
      /\ UNCHANGED <<pkg, dir, tar, listed, holder, acked, overlaps, faults>>
    BY DEF Fetch, Goto
<1>1. pkg \in Package
    BY <1>0 DEF Typed, TypeOK, Exists
<1>2. /\ p.versions = [pkg.versions EXCEPT ![v] = None] /\ p.files = pkg.files
      /\ p.tags = [t \in Tags |-> IF pkg.tags[t] = v THEN None ELSE pkg.tags[t]]
    BY <1>1 DEF Package
<1>3. p \in Package
    BY <1>1, <1>2 DEF Package
<1> HIDE DEF p
<1>4. Resolving(pkg) => Resolving(p)
    BY <1>1, <1>2 DEF Resolving, Package
<1>5. \A w \in Version : Normalize(p).versions[w] # None => pkg.versions[w] # None
    BY <1>1, <1>2, <1>3, NormalizeTyped DEF Package
<1>6. arg'[x] = v
    BY <1>0 DEF Typed, TypeOK, Req
<1> QED
    BY <1>0, <1>3, <1>4, <1>5, <1>6, NormalizeTyped, NormalizeResolves DEF Fetched

-----------------------------------------------------------------------------
(* A step is one of these *)

Refused(r) ==
    Refuse(r) /\ pc[r] \notin Holding \cup {"detached"} /\ (pc[r] = "stored" => ~Exists)

Updating ==
    \/ \E c \in Clients : Recording(c) \/ Adding(c)
    \/ \E g \in Taggers : Tagging(g)
    \/ \E x \in Changers : Changing(x) \/ Detaching(x)

Sent(c) == CreateBegin(c) \/ CreateWrite(c) \/ Store(c) \/ \E v \in Version : Upload(c, v)

Step ==
    \/ \E r \in Req : Refused(r) \/ Commit(r) \/ CommitFail(r)
    \/ Updating
    \/ \E c \in Clients : Sent(c)
    \/ \E x \in Changers : Fetched(x) \/ Unlink(x)
    \/ \E s \in Syncers : Loaded(s) \/ Save(s)
    \/ \E d \in Removers : Remove(d) /\ ~Refused(d)
    \/ UNCHANGED vars

LEMMA PublishStep ==
    ASSUME Typed, NEW c \in Clients, Publish(c)
    PROVE  Step
<1> c \in Req
    BY DEF Req
<1>1. CASE CreateBegin(c) \/ CreateWrite(c) \/ Store(c) \/ \E v \in Version : Upload(c, v)
    BY <1>1 DEF Step, Sent
<1>2. CASE Abort(c)
    BY <1>2 DEF Abort, Refused, Step, Holding
<1>3. CASE Record(c)
    <2>1. CASE Exists
        BY <1>3, <2>1, RecordEffect DEF Step, Updating
    <2>2. CASE ~Exists
        BY <1>3, <2>2 DEF Record, Refused, Step, Holding
    <2> QED
        BY <2>1, <2>2
<1>4. ASSUME NEW t \in Tags, AddVersion(c, t) PROVE Step
    <2>1. CASE Refuse(c)
        BY <1>4, <2>1 DEF AddVersion, Refused, Step, Holding
    <2>2. CASE ~Refuse(c)
        BY <1>4, <2>2, AddVersionEffect DEF Step, Updating
    <2> QED
        BY <2>1, <2>2
<1> QED
    BY <1>1, <1>2, <1>3, <1>4 DEF Publish

LEMMA UnpublishStep ==
    ASSUME Typed, NEW x \in Changers, Unpublish(x)
    PROVE  Step
<1> x \in Req
    BY DEF Req
<1>1. ASSUME NEW v \in Version, Fetch(x, v) PROVE Step
    BY <1>1, FetchEffect DEF Step
<1>2. CASE Change(x)
    <2>1. CASE Exists
        BY <1>2, <2>1, ChangeEffect DEF Step, Updating
    <2>2. CASE ~Exists
        BY <1>2, <2>2 DEF Change, Refused, Step, Holding
    <2> QED
        BY <2>1, <2>2
<1>3. CASE Detach(x)
    <2>1. CASE Refuse(x)
        BY <1>3, <2>1 DEF Detach, Refused, Step, Holding
    <2>2. CASE ~Refuse(x)
        BY <1>3, <2>2, DetachEffect DEF Step, Updating
    <2> QED
        BY <2>1, <2>2
<1>4. CASE Unlink(x)
    BY <1>4 DEF Step
<1> QED
    BY <1>1, <1>2, <1>3, <1>4 DEF Unpublish

LEMMA SyncStep ==
    ASSUME Typed, NEW s \in Syncers, NEW V \in SUBSET Version, NEW T \in [Tags -> V \cup {None}], Load(s, V, T)
    PROVE  Step
<1> s \in Req
    BY DEF Req
<1>1. CASE Refuse(s)
    BY <1>1 DEF Load, Refused, Step, Holding
<1>2. CASE ~Refuse(s)
    BY <1>2, LoadEffect DEF Step
<1> QED
    BY <1>1, <1>2

LEMMA NextStep == Typed /\ [Next]_vars => Step
<1> SUFFICES ASSUME Typed, [Next]_vars PROVE Step
    OBVIOUS
<1>1. CASE \E c \in Clients : Publish(c)
    BY <1>1, PublishStep
<1>2. ASSUME NEW g \in Taggers, NEW t \in Tags, NEW v \in Version \cup {None}, MergeTags(g, t, v) PROVE Step
    <2>1. CASE Refuse(g)
        BY <1>2, <2>1 DEF MergeTags, Refused, Step, Holding, Req
    <2>2. CASE ~Refuse(g)
        BY <1>2, <2>2, MergeTagsEffect DEF Step, Updating
    <2> QED
        BY <2>1, <2>2
<1>3. CASE \E x \in Changers : Unpublish(x)
    BY <1>3, UnpublishStep
<1>4. ASSUME NEW s \in Syncers, NEW V \in SUBSET Version, NEW T \in [Tags -> V \cup {None}], Load(s, V, T) PROVE Step
    BY <1>4, SyncStep
<1>5. CASE \E s \in Syncers : Save(s)
    BY <1>5 DEF Step
<1>6. CASE \E d \in Removers : Remove(d)
    BY <1>6 DEF Step, Req
<1>7. CASE \E r \in Req : Commit(r) \/ CommitFail(r)
    BY <1>7 DEF Step
<1>8. CASE UNCHANGED vars
    BY <1>8 DEF Step
<1> QED
    BY <1>1, <1>2, <1>3, <1>4, <1>5, <1>6, <1>7, <1>8 DEF Next, Finished

\* Every action moves one request.
LEMMA MovedTyped ==
    ASSUME Typed, TypeOK', NEW r \in Req, Kind(r)',
           \A x \in Req \ {r} : pc'[x] = pc[x] /\ arg'[x] = arg[x] /\ mem'[x] = mem[x],
           pc'[r] \notin Holding,
           \/ holder' = holder /\ pc[r] \notin Holding
           \/ holder' = None /\ holder = r,
           pc'[r] \in {"fetched", "saving", "deleting"} => mem'[r] \in Package
    PROVE  Typed'
<1>1. \A x \in Req \ {r} : Kind(x)'
    BY DEF Typed, Kind
<1>2. \A x \in Req : pc'[x] \in Holding <=> holder' = x
    BY MarkAssumption DEF Typed
<1>3. \A x \in Req \ {r} : pc'[x] \in Holding \cup {"fetched", "saving", "deleting"} => mem'[x] \in Package
    BY DEF Typed
<1> QED
    BY <1>1, <1>2, <1>3 DEF Typed

LEMMA TypedStep == Typed /\ [Next]_vars => Typed'
<1> SUFFICES ASSUME Typed, Step PROVE Typed'
    BY NextStep
<1>1. ASSUME NEW r \in Req, Refused(r) PROVE Typed'
    <2>1. TypeOK'
        BY <1>1 DEF Refused, Refuse, Goto, Typed, TypeOK, Stage
    <2>2. Kind(r)' /\ pc'[r] = "done"
        BY <1>1 DEF Refused, Refuse, Goto, Typed, TypeOK, Kind
    <2>3. \A x \in Req \ {r} : pc'[x] = pc[x] /\ arg'[x] = arg[x] /\ mem'[x] = mem[x]
        BY <1>1 DEF Refused, Refuse, Goto, Typed, TypeOK
    <2>4. holder' = holder /\ pc[r] \notin Holding
        BY <1>1 DEF Refused, Refuse
    <2> QED
        BY <2>1, <2>2, <2>3, <2>4, MovedTyped DEF Holding
<1>2. ASSUME NEW r \in Req, Commit(r) PROVE Typed'
    <2>1. pc[r] \in Holding /\ mem[r] \in Package
        BY <1>2 DEF Commit, Typed
    <2>2. pc' = [pc EXCEPT ![r] = AfterCommit[pc[r]]] /\ AfterCommit[pc[r]] \in Stage \ Holding
        BY <1>2, <2>1 DEF Commit, Goto, AfterCommit, Holding, Stage
    <2>3. TypeOK'
        BY <1>2, <2>1, <2>2 DEF Commit, Typed, TypeOK
    <2>4. pc'[r] = AfterCommit[pc[r]] /\ arg' = arg /\ mem' = mem
        BY <1>2, <2>2 DEF Commit, Typed, TypeOK
    <2>5. Kind(r)' /\ pc'[r] \notin {"fetched", "saving", "deleting"}
        BY <2>1, <2>4 DEF Typed, Kind, AfterCommit, Holding
    <2> QED
        BY <1>2, <2>2, <2>3, <2>4, <2>5, MovedTyped DEF Commit, Typed, TypeOK
<1>3. ASSUME NEW r \in Req, CommitFail(r) PROVE Typed'
    <2>1. TypeOK'
        BY <1>3 DEF CommitFail, Goto, Typed, TypeOK, Stage
    <2>2. Kind(r)' /\ pc'[r] = "done"
        BY <1>3 DEF CommitFail, Goto, Typed, TypeOK, Kind, Holding
    <2> QED
        BY <1>3, <2>1, <2>2, MovedTyped DEF CommitFail, Goto, Typed, TypeOK, Holding
<1>4. CASE Updating
    BY <1>4, EnteredTyped
    DEF Updating, Recording, Adding, Tagging, Changing, Detaching, Typed, TypeOK, Kind, Holding, Req
<1>5. ASSUME NEW c \in Clients, Sent(c) PROVE Typed'
    <2>1. TypeOK'
        <3>1. c \in Req /\ (pc[c] = "sending" => arg[c] \in Version)
            BY DEF Typed, Kind, Req
        <3>2. CASE CreateBegin(c)
            BY <3>1, <3>2 DEF CreateBegin, Goto, Typed, TypeOK, Stage
        <3>5. CASE CreateWrite(c)
            <4>1. pkg' \in {NoPkg} \cup Package /\ faults' \in Nat
                <5>1. pkg \in {NoPkg} \cup Package /\ faults \in Nat /\ Template \in Package
                    BY TemplateTyped DEF Typed, TypeOK
                <5>2. pkg' \in {pkg, Template} /\ faults' \in {faults, faults + 1}
                    BY <3>5 DEF CreateWrite
                <5> QED
                    BY <5>1, <5>2
            <4>3. dir' \in BOOLEAN
                BY Zenon, <3>5 DEF CreateWrite, Typed, TypeOK
            <4>2. pc' \in [Req -> Stage]
                BY <3>1, <3>5 DEF CreateWrite, Goto, Typed, TypeOK, Stage
            <4> QED
                BY <3>5, <4>1, <4>2, <4>3 DEF CreateWrite, Typed, TypeOK
        <3>3. CASE Store(c)
            BY <3>1, <3>3 DEF Store, Goto, Typed, TypeOK, Stage
        <3>4. ASSUME NEW v \in Version, Upload(c, v) PROVE TypeOK'
            <4>1. overlaps' \subseteq Version /\ arg' \in [Req -> Version \cup {None}]
                BY <3>1, <3>4 DEF Upload, Typed, TypeOK
            <4> QED
                BY <3>1, <3>4, <4>1 DEF Upload, Goto, Typed, TypeOK, Stage
        <3> QED
            BY <1>5, <3>2, <3>3, <3>4, <3>5 DEF Sent
    <2>2. c \in Req /\ pc[c] \notin Holding /\ pc'[c] \in {"creating", "ready", "sending", "stored", "done"}
        BY <1>5 DEF Sent, CreateBegin, CreateWrite, Store, Upload, Goto, Typed, TypeOK, Holding, Req
    <2>3. Kind(c)'
        <3>1. CASE CreateWrite(c)
            BY <2>2, <3>1, RequestAssumption DEF CreateWrite, Goto, Typed, TypeOK, Kind, Req
        <3> QED
            BY <1>5, <2>2, <3>1, RequestAssumption
            DEF Sent, CreateBegin, Store, Upload, Goto, Typed, TypeOK, Kind, Req
    <2>4. /\ \A x \in Req \ {c} : pc'[x] = pc[x] /\ arg'[x] = arg[x] /\ mem'[x] = mem[x]
          /\ holder' = holder
        BY <1>5, <2>2 DEF Sent, CreateBegin, CreateWrite, Store, Upload, Goto, Typed, TypeOK
    <2> QED
        BY <2>1, <2>2, <2>3, <2>4, MovedTyped DEF Holding
<1>6. ASSUME NEW x \in Changers, Fetched(x) \/ Unlink(x) PROVE Typed'
    <2>1. TypeOK'
        BY <1>6 DEF Fetched, Unlink, Goto, Typed, TypeOK, Stage, Req
    <2>2. x \in Req /\ pc[x] \notin Holding /\ pc'[x] \in {"fetched", "done"}
        BY <1>6 DEF Fetched, Unlink, Goto, Typed, TypeOK, Holding, Req
    <2>3. Kind(x)' /\ (pc'[x] = "fetched" => mem'[x] \in Package)
        BY <1>6, <2>2, RequestAssumption DEF Fetched, Unlink, Goto, Typed, TypeOK, Kind
    <2>4. /\ \A y \in Req \ {x} : pc'[y] = pc[y] /\ arg'[y] = arg[y] /\ mem'[y] = mem[y]
          /\ holder' = holder
        BY <1>6, <2>2 DEF Fetched, Unlink, Goto, Typed, TypeOK
    <2> QED
        BY <2>1, <2>2, <2>3, <2>4, MovedTyped DEF Holding
<1>7. ASSUME NEW s \in Syncers, Loaded(s) \/ Save(s) PROVE Typed'
    <2>1. s \in Req /\ pc[s] \notin Holding /\ (pc[s] = "saving" => mem[s] \in Package)
        BY <1>7 DEF Loaded, Save, Typed, Holding, Req
    <2>2. TypeOK' /\ pc'[s] \in {"saving", "done"} /\ (pc'[s] = "saving" => mem'[s] \in Package)
        <3>1. CASE Loaded(s)
            <4>1. PICK q \in Package : mem' = [mem EXCEPT ![s] = q]
                BY <3>1 DEF Loaded
            <4>2. pc' = [pc EXCEPT ![s] = "saving"]
                  /\ UNCHANGED <<pkg, dir, tar, listed, holder, arg, acked, overlaps, faults>>
                BY <3>1 DEF Loaded
            <4> QED
                BY <2>1, <4>1, <4>2 DEF Typed, TypeOK, Stage
        <3>2. CASE Save(s)
            <4>1. mem[s] \in Package /\ acked' \in SUBSET Req
                BY <2>1, <3>2 DEF Save, Typed, TypeOK
            <4> QED
                BY <2>1, <3>2, <4>1 DEF Save, Goto, Typed, TypeOK, Stage
        <3> QED
            BY <1>7, <3>1, <3>2
    <2>3. Kind(s)'
        BY <1>7, <2>1, <2>2, RequestAssumption DEF Typed, Kind
    <2>4. /\ \A y \in Req \ {s} : pc'[y] = pc[y] /\ arg'[y] = arg[y] /\ mem'[y] = mem[y]
          /\ holder' = holder
        BY <1>7, <2>1 DEF Loaded, Save, Goto, Typed, TypeOK
    <2> QED
        BY <2>1, <2>2, <2>3, <2>4, MovedTyped DEF Holding
<1>8. ASSUME NEW d \in Removers, Remove(d), ~Refused(d) PROVE Typed'
    <2> USE DEF Remove, RemoveBegin, RemoveBeginFail, RemoveFile, RemoveJson, RemoveDir, Unanswered, Goto
    <2>1. d \in Req /\ pc[d] \notin Holding /\ (pc[d] = "deleting" => mem[d] \in Package)
        BY <1>8 DEF Typed, Kind, Holding, Req
    <2>2. CASE Refuse(d)
        BY <1>8, <2>1, <2>2 DEF Refused, Refuse
    <2>3. CASE ~Refuse(d)
        <3> DEFINE Mem == mem' = [mem EXCEPT ![d] = mem'[d]] /\ mem'[d] \in {NoPkg} \cup Package
        <3>1. /\ pc' = [pc EXCEPT ![d] = pc'[d]]
              /\ pc'[d] \in {"deleting", "rmdir", "unanswered", "done"}
            BY <1>8, <2>1, <2>3 DEF Typed, TypeOK
        <3>2. UNCHANGED <<holder, arg, overlaps>> /\ acked' \in SUBSET Req /\ faults' \in Nat
            BY <1>8, <2>1, <2>3 DEF Typed, TypeOK
        <3>3. Mem /\ (pc'[d] = "deleting" => mem'[d] \in Package)
            <4>1. ASSUME NEW v \in Version, RemoveFile(d, v)
                  PROVE  Mem /\ (pc'[d] = "deleting" => mem'[d] \in Package)
                <5>1. mem[d] \in Package /\ [mem[d] EXCEPT !.files[v] = None] \in Package
                    BY <2>1, <4>1 DEF Package
                <5>2. mem' \in {mem, [mem EXCEPT ![d] = [mem[d] EXCEPT !.files[v] = None]]}
                    BY <4>1
                <5> QED
                    BY <2>1, <5>1, <5>2 DEF Typed, TypeOK
            <4>2. CASE RemoveBegin(d)
                BY <2>1, <2>3, <4>2 DEF Typed, TypeOK, Exists
            <4>3. CASE RemoveBeginFail(d) \/ RemoveJson(d) \/ RemoveDir(d)
                BY <2>1, <4>3 DEF Typed, TypeOK
            <4> QED
                BY <1>8, <4>1, <4>2, <4>3
        <3>4. /\ pkg' \in {NoPkg} \cup Package /\ tar' \in [Version -> Clients \cup {None}]
              /\ dir' \in BOOLEAN /\ listed' \in BOOLEAN
            BY <1>8, <2>3 DEF Typed, TypeOK
        <3>5. TypeOK'
            BY <2>1, <3>1, <3>2, <3>3, <3>4 DEF Typed, TypeOK, Stage
        <3>6. Kind(d)'
            BY <1>8, <2>1, <3>1, RequestAssumption DEF Typed, Kind
        <3>7. \A y \in Req \ {d} : pc'[y] = pc[y] /\ arg'[y] = arg[y] /\ mem'[y] = mem[y]
            BY <2>1, <3>1, <3>2, <3>3 DEF Typed, TypeOK
        <3> QED
            BY <2>1, <3>1, <3>2, <3>3, <3>5, <3>6, <3>7, MovedTyped DEF Holding
    <2> QED
        BY <2>2, <2>3
<1>9. CASE UNCHANGED vars
    BY <1>9 DEF vars, Typed, TypeOK, Kind
<1> QED
    BY <1>1, <1>2, <1>3, <1>4, <1>5, <1>6, <1>7, <1>8, <1>9 DEF Step

\* No request begins again.
LEMMA StartedOnce ==
    ASSUME Typed, Step, NEW r \in Req, pc'[r] = "idle"
    PROVE  pc[r] = "idle"
<1>1. pc \in [Req -> Stage] /\ Clients \subseteq Req /\ Changers \subseteq Req /\ Syncers \subseteq Req
      /\ Removers \subseteq Req /\ Taggers \subseteq Req
    BY DEF Typed, TypeOK, Req
<1>2. \A x \in Req : Refused(x) \/ CommitFail(x) => pc'[r] \in {pc[r], "done"}
    BY <1>1 DEF Refused, Refuse, CommitFail, Goto
<1>3. ASSUME NEW x \in Req, Commit(x) PROVE pc[r] = "idle"
    <2>1. pc[x] \in Holding
        BY <1>3 DEF Commit, Typed
    <2> QED
        BY <1>1, <1>3, <2>1 DEF Commit, AfterCommit, Goto, Holding
<1>4. Updating => pc[r] = "idle"
    BY <1>1 DEF Updating, Recording, Adding, Tagging, Changing, Detaching, Entered
<1>5. \A c \in Clients : Sent(c) => pc[r] = "idle"
    BY <1>1 DEF Sent, CreateBegin, CreateWrite, Store, Upload, Goto
<1>6. \A x \in Changers : Fetched(x) \/ Unlink(x) => pc[r] = "idle"
    BY <1>1 DEF Fetched, Unlink, Goto
<1>7. \A s \in Syncers : Loaded(s) \/ Save(s) => pc[r] = "idle"
    BY <1>1 DEF Loaded, Save, Goto
<1>8. \A d \in Removers : Remove(d) => pc[r] = "idle"
    BY <1>1 DEF Remove, RemoveBegin, RemoveBeginFail, RemoveFile, RemoveJson, RemoveDir, Unanswered, Refuse, Goto
<1> QED
    BY <1>2, <1>3, <1>4, <1>5, <1>6, <1>7, <1>8 DEF Step, vars

LEMMA UntouchedBefore ==
    ASSUME Typed, Step, NEW R \in SUBSET Req
    PROVE  (Untouched(R)' => Untouched(R)) /\ (Alone(R)' => Alone(R))
BY StartedOnce DEF Untouched, Alone

-----------------------------------------------------------------------------
(* A removal is final *)

\* What was removed has nothing left that could write it again.
Removed ==
    Untouched(Creators \cup Syncers) /\ acked \cap Removers # {} =>
        /\ ~Exists /\ ~dir /\ holder = None
        /\ \A v \in Version : tar[v] = None
        /\ \A c \in Clients : pc[c] # "sending"

LEMMA RemovedStep == Typed /\ Removed /\ [Next]_vars => Removed'
<1> SUFFICES ASSUME Typed, Removed, Step, Untouched(Creators \cup Syncers)', (acked \cap Removers # {})'
             PROVE  /\ ~Exists' /\ ~dir' /\ holder' = None
                    /\ \A v \in Version : tar'[v] = None
                    /\ \A c \in Clients : pc'[c] # "sending"
    BY NextStep DEF Removed
<1> DEFINE Goal == /\ ~Exists' /\ ~dir' /\ holder' = None
                   /\ \A v \in Version : tar'[v] = None
                   /\ \A c \in Clients : pc'[c] # "sending"
<1>0. /\ Untouched(Creators \cup Syncers) /\ pc \in [Req -> Stage]
      /\ Clients \subseteq Req /\ Changers \subseteq Req /\ Syncers \subseteq Req /\ Removers \subseteq Req
    BY UntouchedBefore DEF Typed, TypeOK, Req, Clients
<1>1. CASE acked \cap Removers # {}
    <2>1. /\ ~Exists /\ ~dir /\ holder = None
          /\ \A v \in Version : tar[v] = None
          /\ \A c \in Clients : pc[c] # "sending"
        BY <1>0, <1>1 DEF Removed
    <2>2. ASSUME NEW r \in Req, Refused(r) PROVE Goal
        BY <1>0, <2>1, <2>2 DEF Refused, Refuse, Goto, Exists
    <2>3. ASSUME NEW r \in Req, Commit(r) \/ CommitFail(r) PROVE Goal
        BY <2>1, <2>3, MarkAssumption DEF Commit, CommitFail
    <2>4. ~Updating
        BY <2>1 DEF Updating, Recording, Adding, Tagging, Changing, Detaching, Entered
    <2>5. ASSUME NEW c \in Clients, Sent(c) PROVE Goal
        <3>1. ~CreateBegin(c) /\ ~CreateWrite(c) /\ ~Store(c)
            <4>1. pc[c] = "creating" => c \in Creators
                BY <1>0 DEF Typed, Kind
            <4>2. c \in Creators => pc[c] = "idle" /\ pc'[c] = "idle"
                BY <1>0 DEF Untouched
            <4> QED
                BY <1>0, <2>1, <4>1, <4>2 DEF CreateBegin, CreateWrite, Store, Goto
        <3> QED
            BY <1>0, <2>1, <2>5, <3>1 DEF Sent, Upload, Goto, Exists
    <2>6. ASSUME NEW x \in Changers, Fetched(x) \/ Unlink(x) PROVE Goal
        BY <1>0, <2>1, <2>6 DEF Fetched, Unlink, Goto, Exists, Typed, TypeOK
    <2>7. ASSUME NEW s \in Syncers, Loaded(s) \/ Save(s) PROVE FALSE
        BY <1>0, <2>7 DEF Loaded, Save, Goto, Untouched
    <2>8. ASSUME NEW d \in Removers, Remove(d) PROVE Goal
        BY <1>0, <2>1, <2>8
        DEF Remove, RemoveBegin, RemoveBeginFail, RemoveFile, RemoveJson, RemoveDir, Unanswered, Refuse, Goto, Exists
    <2>9. CASE UNCHANGED vars
        BY <2>1, <2>9 DEF vars, Exists
    <2> QED
        BY <2>2, <2>3, <2>4, <2>5, <2>6, <2>7, <2>8, <2>9 DEF Step
<1>2. CASE acked \cap Removers = {}
    <2>1. PICK d \in Removers : d \in acked' /\ d \notin acked
        BY <1>2
    <2>2. \A r \in Req : Commit(r) \/ CommitFail(r) \/ Refused(r) => FALSE
        <3>1. ASSUME NEW r \in Req, Commit(r) PROVE FALSE
            <4>1. r = d /\ pc[r] \in Holding
                BY <2>1, <3>1 DEF Commit, Typed
            <4> QED
                BY <1>0, <4>1 DEF Typed, Kind, Holding
        <3> QED
            BY <2>1, <3>1 DEF CommitFail, Refused, Refuse
    <2>3. ~Updating /\ (\A c \in Clients : ~Sent(c)) /\ (\A x \in Changers : ~Fetched(x))
        BY <2>1 DEF Updating, Recording, Adding, Tagging, Changing, Detaching, Entered, Sent, CreateBegin,
                    CreateWrite, Store, Upload, Fetched
    <2>4. (\A x \in Changers : ~Unlink(x)) /\ (\A s \in Syncers : ~Loaded(s) /\ ~Save(s)) /\ ~UNCHANGED vars
        BY <2>1, RequestAssumption DEF Unlink, Loaded, Save, vars
    <2>5. PICK e \in Removers : Remove(e)
        BY <2>2, <2>3, <2>4 DEF Step
    <2>6. RemoveDir(e) /\ ~Unanswered(e)
        BY <2>1, <2>5
        DEF Remove, RemoveBegin, RemoveBeginFail, RemoveFile, RemoveJson, RemoveDir, Unanswered, Refuse
    <2>7. /\ ~Exists /\ ~dir' /\ holder = None /\ (\A v \in Version : tar[v] = None /\ Sending(v) = {})
          /\ UNCHANGED <<pkg, tar, holder>> /\ pc' = [pc EXCEPT ![e] = "done"]
        BY <2>6 DEF RemoveDir, Goto
    <2>8. \A c \in Clients : pc[c] = "sending" => c \in Sending(arg[c]) /\ arg[c] \in Version
        BY <1>0 DEF Sending, Typed, Kind
    <2> QED
        BY <1>0, <2>7, <2>8 DEF Exists
<1> QED
    BY <1>1, <1>2

-----------------------------------------------------------------------------
(* Tags name versions *)

\* While nobody unpublishes, no package that is or may be written has a tag
\* without its version.
TagsKept ==
    Untouched(Changers) =>
        /\ Exists => Resolving(pkg)
        /\ \A r \in Req : pc[r] \in Holding \cup {"saving"} => Resolving(mem[r])

LEMMA TagsKeptStep == Typed /\ TagsKept /\ [Next]_vars => TagsKept'
<1> DEFINE Goal == /\ Exists' => Resolving(pkg)'
                   /\ \A r \in Req : pc'[r] \in Holding \cup {"saving"} => Resolving(mem[r])'
<1> SUFFICES ASSUME Typed, TagsKept, Step, Untouched(Changers)' PROVE Goal
    BY NextStep DEF TagsKept
<1>0. /\ Untouched(Changers) /\ pc \in [Req -> Stage] /\ mem \in [Req -> {NoPkg} \cup Package]
      /\ Clients \subseteq Req /\ Changers \subseteq Req /\ Syncers \subseteq Req /\ Removers \subseteq Req
      /\ Taggers \subseteq Req
    BY UntouchedBefore DEF Typed, TypeOK, Req, Clients
<1>1. (Exists => Resolving(pkg)) /\ \A r \in Req : pc[r] \in Holding \cup {"saving"} => Resolving(mem[r])
    BY <1>0 DEF TagsKept
<1>2. ASSUME NEW r \in Req, Refused(r) \/ CommitFail(r) PROVE Goal
    BY <1>0, <1>1, <1>2 DEF Refused, Refuse, CommitFail, Goto, Exists, Resolving, Holding
<1>3. ASSUME NEW r \in Req, Commit(r) PROVE Goal
    <2>1. pc[r] \in Holding /\ Resolving(mem[r]) /\ pkg' = mem[r] /\ mem' = mem
        BY <1>1, <1>3 DEF Commit, Typed
    <2>2. \A x \in Req : pc'[x] \in Holding \cup {"saving"} => pc[x] \in Holding \cup {"saving"}
        BY <1>0, <1>3, <2>1 DEF Commit, AfterCommit, Goto, Holding
    <2> QED
        BY <1>1, <2>1, <2>2 DEF Resolving
<1>4. ASSUME NEW r \in Req, NEW q, NEW s, Entered(r, q, s), Resolving(q) PROVE Goal
    BY <1>0, <1>1, <1>4 DEF Entered, Exists, Resolving
<1>5. CASE Updating
    <2>1. \A x \in Changers : ~Changing(x) /\ ~Detaching(x)
        BY <1>0 DEF Changing, Detaching, Untouched
    <2> QED
        BY ZenonT(60), <1>0, <1>1, <1>4, <1>5, <2>1 DEF Updating, Recording, Adding, Tagging, Entered
<1>6. ASSUME NEW c \in Clients, Sent(c) PROVE Goal
    <2>1. mem' = mem /\ pkg' \in {pkg, Template}
        BY <1>6 DEF Sent, CreateBegin, CreateWrite, Store, Upload
    <2>2. \A x \in Req : pc'[x] \in Holding \cup {"saving"} => pc[x] \in Holding \cup {"saving"}
        BY <1>0, <1>6 DEF Sent, CreateBegin, CreateWrite, Store, Upload, Goto, Holding
    <2> QED
        BY <1>1, <2>1, <2>2, TemplateTyped DEF Resolving, Exists
<1>7. ASSUME NEW x \in Changers, Fetched(x) \/ Unlink(x) PROVE FALSE
    <2>1. pc[x] = "idle" /\ pc'[x] = "idle"
        BY <1>0 DEF Untouched
    <2> QED
        BY <1>0, <1>7, <2>1 DEF Fetched, Unlink
<1>8. ASSUME NEW s \in Syncers, Loaded(s) PROVE Goal
    BY <1>0, <1>1, <1>8 DEF Loaded, Exists, Resolving
<1>9. ASSUME NEW s \in Syncers, Save(s) PROVE Goal
    BY <1>0, <1>1, <1>9 DEF Save, Goto, Exists, Resolving, Holding
<1>10. ASSUME NEW d \in Removers, Remove(d) PROVE Goal
    <2>1. /\ pc' = [pc EXCEPT ![d] = pc'[d]] /\ pc'[d] \in {"deleting", "rmdir", "unanswered", "done"}
          /\ \A x \in Req \ {d} : mem'[x] = mem[x]
          /\ pkg' \in {pkg, NoPkg}
        <3>1. pc[d] \in {"idle", "deleting", "rmdir", "unanswered", "done"}
            BY <1>0 DEF Typed, Kind
        <3> QED
            BY <1>0, <1>10, <3>1
            DEF Remove, RemoveBegin, RemoveBeginFail, RemoveFile, RemoveJson, RemoveDir, Unanswered, Refuse, Goto
    <2> QED
        BY <1>0, <1>1, <2>1 DEF Exists, Resolving, Holding
<1>11. CASE UNCHANGED vars
    BY <1>1, <1>11 DEF vars, Exists, Resolving
<1> QED
    BY <1>2, <1>3, <1>5, <1>6, <1>7, <1>8, <1>9, <1>10, <1>11 DEF Step

-----------------------------------------------------------------------------
(* Without uplinks and removals *)

Quiet == Untouched(Syncers \cup Removers)

QuietStep ==
    \/ \E r \in Req : Refused(r) \/ Commit(r) \/ CommitFail(r)
    \/ Updating
    \/ \E c \in Clients : Sent(c)
    \/ \E x \in Changers : Fetched(x) \/ Unlink(x)
    \/ UNCHANGED vars

LEMMA StepQuietly ==
    ASSUME Typed, Step, Quiet'
    PROVE  Quiet /\ QuietStep
<1>0. /\ Quiet /\ pc \in [Req -> Stage] /\ Syncers \subseteq Req /\ Removers \subseteq Req
      /\ \A r \in Syncers \cup Removers : pc[r] = "idle" /\ pc'[r] = "idle"
    BY UntouchedBefore DEF Quiet, Typed, TypeOK, Req, Untouched
<1>1. ASSUME NEW s \in Syncers, Loaded(s) \/ Save(s) PROVE FALSE
    BY <1>0, <1>1 DEF Loaded, Save
<1>2. ASSUME NEW d \in Removers, Remove(d), ~Refused(d) PROVE FALSE
    <2>1. pc[d] = "idle" /\ pc'[d] = "idle"
        BY <1>0
    <2>2. ~Refuse(d)
        BY <1>2, <2>1 DEF Refused, Holding
    <2> QED
        BY <1>0, <1>2, <2>1, <2>2
        DEF Remove, RemoveBegin, RemoveBeginFail, RemoveFile, RemoveJson, RemoveDir, Unanswered, Goto
<1> QED
    BY <1>0, <1>1, <1>2 DEF Step, QuietStep

\* The folder comes with package.json, unless a write fails, and stays, and holds
\* whatever is sent to it.
Present ==
    Quiet =>
        /\ Exists => dir
        /\ faults = 0 /\ dir => Exists
        /\ holder # None => Exists
        /\ \A v \in Version : tar[v] # None => dir
        /\ \A c \in Clients : pc[c] \in {"sending", "stored"} => dir
        /\ Alone(Creators) => \A c \in Creators : pc[c] = "creating" => ~Exists

LEMMA PresentStep == Typed /\ Present /\ [Next]_vars => Present'
<1> DEFINE Goal == /\ Exists' => dir'
                   /\ faults' = 0 /\ dir' => Exists'
                   /\ holder' # None => Exists'
                   /\ \A v \in Version : tar'[v] # None => dir'
                   /\ \A c \in Clients : pc'[c] \in {"sending", "stored"} => dir'
                   /\ Alone(Creators)' => \A c \in Creators : pc'[c] = "creating" => ~Exists'
<1> SUFFICES ASSUME Typed, Present, Step, Quiet' PROVE Goal
    BY NextStep DEF Present, Quiet, Untouched, Alone, Exists
<1>0. /\ Quiet /\ QuietStep /\ pc \in [Req -> Stage] /\ tar \in [Version -> Clients \cup {None}]
      /\ Clients \subseteq Req /\ Creators \subseteq Clients /\ Changers \subseteq Req
      /\ Alone(Creators)' => Alone(Creators)
    BY StepQuietly, UntouchedBefore DEF Typed, TypeOK, Req, Clients
<1>1. /\ Exists => dir
      /\ faults = 0 /\ dir => Exists
      /\ holder # None => Exists
      /\ \A v \in Version : tar[v] # None => dir
      /\ \A c \in Clients : pc[c] \in {"sending", "stored"} => dir
      /\ Alone(Creators) => \A c \in Creators : pc[c] = "creating" => ~Exists
    BY <1>0 DEF Present
<1>2. ASSUME NEW r \in Req, Refused(r) \/ CommitFail(r) PROVE Goal
    <2>1. faults \in Nat
        BY DEF Typed, TypeOK
    <2>2. UNCHANGED <<pkg, dir, tar>> /\ (faults' = 0 => faults = 0) /\ holder' \in {holder, None}
        BY <1>2, <2>1 DEF Refused, Refuse, CommitFail
    <2>3. \A x \in Req : pc'[x] = pc[x] \/ pc'[x] = "done"
        BY <1>0, <1>2 DEF Refused, Refuse, CommitFail, Goto
    <2> QED
        BY <1>0, <1>1, <2>2, <2>3 DEF Exists
<1>3. ASSUME NEW r \in Req, Commit(r) PROVE Goal
    <2>1. pc[r] \in Holding /\ mem[r] \in Package /\ Exists
        BY <1>1, <1>3, MarkAssumption DEF Commit, Typed
    <2>2. Exists' /\ dir' /\ tar' = tar
        BY <1>3, <2>1, PackageAssumption DEF Commit, Exists
    <2>3. \A c \in Creators : pc'[c] = "creating" => pc[c] = "creating"
        BY <1>0, <1>3, <2>1 DEF Commit, AfterCommit, Goto, Holding
    <2> QED
        BY <1>0, <1>1, <2>1, <2>2, <2>3
<1>4. CASE Updating
    BY <1>0, <1>1, <1>4 DEF Updating, Recording, Adding, Tagging, Changing, Detaching, Entered, Exists
<1>5. ASSUME NEW c \in Clients, CreateBegin(c) PROVE Goal
    BY <1>0, <1>1, <1>5 DEF CreateBegin, Goto, Exists
<1>6. ASSUME NEW c \in Clients, CreateWrite(c) PROVE Goal
    <2>f. faults \in Nat /\ UNCHANGED <<tar, holder>>
        BY <1>6 DEF CreateWrite, Typed, TypeOK
    <2>1. \/ Exists' /\ dir'
          \/ faults' # 0 /\ pkg' = pkg /\ (dir => dir')
        <3>1. CASE pkg' = Template /\ dir' = TRUE
            BY <3>1, TemplateTyped, PackageAssumption DEF Exists
        <3>2. CASE faults' = faults + 1 /\ dir' \in {dir, TRUE} /\ UNCHANGED pkg
            <4>1. faults' # 0
                BY <2>f, <3>2
            <4>2. dir => dir'
                BY Zenon, <3>2
            <4> QED
                BY <3>2, <4>1, <4>2
        <3> QED
            BY <1>6, <3>1, <3>2 DEF CreateWrite
    <2>2. c \in Creators /\ pc[c] = "creating" /\ pc'[c] = "ready" /\ \A x \in Req \ {c} : pc'[x] = pc[x]
        BY <1>0, <1>6 DEF CreateWrite, Goto, Typed, Kind
    <2>3. Alone(Creators) => \A x \in Creators : pc'[x] # "creating"
        BY <1>0, <2>2 DEF Alone
    <2>4. \A x \in Clients : pc'[x] \in {"sending", "stored"} => pc[x] = pc'[x]
        BY <1>0, <2>2
    <2>5. CASE Exists' /\ dir'
        BY <1>0, <2>3, <2>5
    <2>6. CASE faults' # 0 /\ pkg' = pkg /\ (dir => dir')
        <3>1. Exists' = Exists
            BY <2>6 DEF Exists
        <3>2. Exists' => dir'
            BY <1>1, <2>6, <3>1
        <3>3. \A v \in Version : tar'[v] # None => dir'
            BY <1>1, <2>f, <2>6
        <3>4. \A x \in Clients : pc'[x] \in {"sending", "stored"} => dir'
            BY <1>1, <2>4, <2>6
        <3>5. holder' # None => Exists'
            BY <1>1, <2>f, <3>1
        <3> QED
            BY <1>0, <2>3, <2>6, <3>2, <3>3, <3>4, <3>5
    <2> QED
        BY <2>1, <2>5, <2>6
<1>7. ASSUME NEW c \in Clients, NEW v \in Version, Upload(c, v) PROVE Goal
    BY <1>0, <1>1, <1>7 DEF Upload, Goto, Exists
<1>8. ASSUME NEW c \in Clients, Store(c) PROVE Goal
    BY <1>0, <1>1, <1>8 DEF Store, Goto, Exists
<1>9. ASSUME NEW x \in Changers, Fetched(x) \/ Unlink(x) PROVE Goal
    <2>1. /\ UNCHANGED <<pkg, dir, holder>> /\ (faults' = 0 => faults = 0)
          /\ \A v \in Version : tar'[v] # None => tar[v] # None
        BY <1>0, <1>9 DEF Fetched, Unlink, Typed, TypeOK
    <2>2. \A y \in Req : pc'[y] = pc[y] \/ pc'[y] \in {"fetched", "done"}
        BY <1>0, <1>9 DEF Fetched, Unlink, Goto
    <2>3. Alone(Creators)' => \A c \in Creators : pc'[c] = "creating" => pc[c] = "creating"
        BY <1>0, <2>2
    <2> QED
        BY <1>0, <1>1, <2>1, <2>2, <2>3 DEF Exists
<1>10. CASE UNCHANGED vars
    BY <1>0, <1>1, <1>10 DEF vars, Exists
<1> QED
    BY <1>0, <1>2, <1>3, <1>4, <1>5, <1>6, <1>7, <1>8, <1>9, <1>10 DEF QuietStep, Sent

\* What the holder of the lock is about to write is the package that is there,
\* but for what it was asked to change.
Carried ==
    Quiet /\ Alone(Creators) => \A r \in Req : pc[r] \in Holding =>
        /\ r \notin Changers => \A v \in Version : pkg.versions[v] # None => mem[r].versions[v] = pkg.versions[v]
        /\ pc[r] = "adding" => mem[r].versions[arg[r]] = r
        /\ pc[r] = "recording" => mem[r].files = [pkg.files EXCEPT ![arg[r]] = r]
        /\ pc[r] = "detaching" => mem[r].files = [pkg.files EXCEPT ![arg[r]] = None]
        /\ pc[r] \notin {"recording", "detaching"} => mem[r].files = pkg.files

LEMMA CarriedStep == Typed /\ Present /\ Carried /\ [Next]_vars => Carried'
<1> SUFFICES ASSUME Typed, Typed', Present, Carried, Step, Quiet', Alone(Creators)', NEW r \in Req, pc'[r] \in Holding
             PROVE  /\ r \notin Changers =>
                        \A v \in Version : pkg'.versions[v] # None => mem'[r].versions[v] = pkg'.versions[v]
                    /\ pc'[r] = "adding" => mem'[r].versions[arg'[r]] = r
                    /\ pc'[r] = "recording" => mem'[r].files = [pkg'.files EXCEPT ![arg'[r]] = r]
                    /\ pc'[r] = "detaching" => mem'[r].files = [pkg'.files EXCEPT ![arg'[r]] = None]
                    /\ pc'[r] \notin {"recording", "detaching"} => mem'[r].files = pkg'.files
    BY NextStep, TypedStep DEF Carried
<1>0. /\ Quiet /\ QuietStep /\ Alone(Creators) /\ pc \in [Req -> Stage]
      /\ mem \in [Req -> {NoPkg} \cup Package] /\ arg \in [Req -> Version \cup {None}]
      /\ Clients \subseteq Req /\ Changers \subseteq Req /\ Creators \subseteq Clients /\ Taggers \subseteq Req
    BY StepQuietly, UntouchedBefore DEF Typed, TypeOK, Req, Clients
<1>1. /\ (Exists => pkg \in Package) /\ holder' = r /\ r # None
    BY MarkAssumption DEF Typed, TypeOK, Exists
<1>2. ASSUME pkg' = pkg, holder' = holder, mem'[r] = mem[r], arg'[r] = arg[r], pc'[r] = pc[r]
      PROVE  /\ r \notin Changers =>
                 \A v \in Version : pkg'.versions[v] # None => mem'[r].versions[v] = pkg'.versions[v]
             /\ pc'[r] = "adding" => mem'[r].versions[arg'[r]] = r
             /\ pc'[r] = "recording" => mem'[r].files = [pkg'.files EXCEPT ![arg'[r]] = r]
             /\ pc'[r] = "detaching" => mem'[r].files = [pkg'.files EXCEPT ![arg'[r]] = None]
             /\ pc'[r] \notin {"recording", "detaching"} => mem'[r].files = pkg'.files
    BY <1>0, <1>2 DEF Carried
<1>3. CASE \E x \in Req : Refused(x)
    BY <1>0, <1>2, <1>3 DEF Refused, Refuse, Goto, Holding
<1>4. ASSUME NEW x \in Req, Commit(x) \/ CommitFail(x) PROVE FALSE
    BY <1>1, <1>4, MarkAssumption DEF Commit, CommitFail
<1>5. ASSUME NEW x \in Req, NEW q, NEW s, Entered(x, q, s)
      PROVE  x = r /\ pc'[r] = s /\ mem'[r] = q /\ arg' = arg /\ pkg' = pkg /\ pkg \in Package
    BY <1>0, <1>1, <1>5 DEF Entered
<1>6. ASSUME NEW c \in Clients, Recording(c)
      PROVE  /\ pc'[r] = "recording" /\ r = c /\ arg' = arg /\ pkg' = pkg
             /\ mem'[r].versions = pkg.versions /\ mem'[r].files = [pkg.files EXCEPT ![arg[r]] = r]
    BY <1>0, <1>5, <1>6 DEF Recording
<1>7. ASSUME NEW c \in Clients, Adding(c)
      PROVE  /\ pc'[r] = "adding" /\ r = c /\ arg' = arg /\ pkg' = pkg /\ pkg \in Package
             /\ mem'[r].versions = [pkg.versions EXCEPT ![arg[r]] = r] /\ pkg.versions[arg[r]] = None
             /\ mem'[r].files = pkg.files
    BY <1>0, <1>5, <1>7 DEF Adding
<1>8. ASSUME NEW c \in Clients, Adding(c) PROVE arg[c] \in Version
    BY <1>0, <1>8 DEF Adding, Typed, Kind
<1>9. ASSUME NEW g \in Taggers, Tagging(g)
      PROVE  /\ pc'[r] = "tagging" /\ pkg' = pkg
             /\ mem'[r].versions = pkg.versions /\ mem'[r].files = pkg.files
    BY <1>0, <1>5, <1>9 DEF Tagging
<1>10. ASSUME NEW x \in Changers, Changing(x)
       PROVE  pc'[r] = "changing" /\ r = x /\ pkg' = pkg /\ mem'[r].files = pkg.files
    BY <1>0, <1>5, <1>10 DEF Changing
<1>11. ASSUME NEW x \in Changers, Detaching(x)
       PROVE  /\ pc'[r] = "detaching" /\ r = x /\ arg' = arg /\ pkg' = pkg
              /\ mem'[r].files = [pkg.files EXCEPT ![arg[r]] = None]
    BY <1>0, <1>5, <1>11 DEF Detaching
<1>12. CASE Updating
    <2>1. CASE \E c \in Clients : Recording(c)
        BY <1>6, <2>1
    <2>2. CASE \E c \in Clients : Adding(c)
        BY <1>7, <1>8, <2>2 DEF Package
    <2>3. CASE \E g \in Taggers : Tagging(g)
        BY <1>9, <2>3
    <2>4. CASE \E x \in Changers : Changing(x)
        BY <1>10, <2>4
    <2>5. CASE \E x \in Changers : Detaching(x)
        BY <1>11, <2>5
    <2> QED
        BY <1>12, <2>1, <2>2, <2>3, <2>4, <2>5 DEF Updating
<1>13. ASSUME NEW c \in Clients, Sent(c)
       PROVE  pkg' = pkg /\ holder' = holder /\ mem'[r] = mem[r] /\ arg'[r] = arg[r] /\ pc'[r] = pc[r]
    <2>1. ~CreateWrite(c)
        BY <1>0, <1>1 DEF CreateWrite, Present, Typed, Kind
    <2> QED
        BY <1>0, <1>13, <2>1 DEF Sent, CreateBegin, Store, Upload, Goto, Holding
<1>14. ASSUME NEW x \in Changers, Fetched(x) \/ Unlink(x)
       PROVE  pkg' = pkg /\ holder' = holder /\ mem'[r] = mem[r] /\ arg'[r] = arg[r] /\ pc'[r] = pc[r]
    BY <1>0, <1>14 DEF Fetched, Unlink, Goto, Holding
<1>15. CASE UNCHANGED vars
    BY <1>2, <1>15 DEF vars
<1> QED
    BY <1>0, <1>2, <1>3, <1>4, <1>12, <1>13, <1>14, <1>15 DEF QuietStep

\* One client that unpublishes puts back tags of versions that are still there.
TagsBack ==
    Quiet /\ Alone(Changers) /\ Alone(Creators) =>
        /\ Exists => Resolving(pkg)
        /\ \A r \in Req : pc[r] \in Holding => Resolving(mem[r])
        /\ \A x \in Changers : pc[x] = "fetched" =>
            /\ Exists /\ Resolving(mem[x])
            /\ \A v \in Version : mem[x].versions[v] # None => pkg.versions[v] # None

LEMMA TagsBackStep == Typed /\ Present /\ Carried /\ TagsBack /\ [Next]_vars => TagsBack'
<1> DEFINE Goal == /\ Exists' => Resolving(pkg)'
                   /\ \A r \in Req : pc'[r] \in Holding => Resolving(mem[r])'
                   /\ \A x \in Changers : pc'[x] = "fetched" =>
                        /\ Exists' /\ Resolving(mem[x])'
                        /\ \A v \in Version : mem'[x].versions[v] # None => pkg'.versions[v] # None
<1> SUFFICES ASSUME Typed, Present, Carried, TagsBack, Step, Quiet', Alone(Changers)', Alone(Creators)' PROVE Goal
    BY NextStep DEF TagsBack
<1>0. /\ Quiet /\ QuietStep /\ Alone(Creators) /\ Alone(Changers) /\ pc \in [Req -> Stage]
      /\ mem \in [Req -> {NoPkg} \cup Package] /\ arg \in [Req -> Version \cup {None}]
      /\ Clients \subseteq Req /\ Changers \subseteq Req /\ Creators \subseteq Clients /\ Taggers \subseteq Req
    BY StepQuietly, UntouchedBefore DEF Typed, TypeOK, Req, Clients
<1>1. /\ Exists => Resolving(pkg)
      /\ \A r \in Req : pc[r] \in Holding => Resolving(mem[r])
      /\ \A x \in Changers : pc[x] = "fetched" =>
            /\ Exists /\ Resolving(mem[x])
            /\ \A v \in Version : mem[x].versions[v] # None => pkg.versions[v] # None
    BY <1>0 DEF TagsBack
<1>2. ASSUME NEW r \in Req, Refused(r) \/ CommitFail(r) PROVE Goal
    BY <1>0, <1>1, <1>2 DEF Refused, Refuse, CommitFail, Goto, Exists, Resolving, Holding
<1>3. ASSUME NEW r \in Req, Commit(r) PROVE Goal
    <2>1. pc[r] \in Holding /\ mem[r] \in Package /\ Resolving(mem[r]) /\ pkg' = mem[r] /\ mem' = mem
        BY <1>1, <1>3 DEF Commit, Typed
    <2>2. \A x \in Req : /\ pc'[x] \in Holding => pc[x] \in Holding
                         /\ pc'[x] = "fetched" => pc[x] = "fetched" /\ x # r
        BY <1>0, <1>3, <2>1 DEF Commit, AfterCommit, Goto, Holding
    <2>3. ASSUME NEW x \in Changers, pc'[x] = "fetched", NEW v \in Version, mem[x].versions[v] # None
          PROVE  mem[r].versions[v] # None
        <3>1. r \notin Changers
            BY <1>0, <2>1, <2>2, <2>3 DEF Alone, Holding
        <3>2. pkg.versions[v] # None
            BY <1>0, <1>1, <2>2, <2>3
        <3> QED
            BY ZenonT(60), <1>0, <2>1, <3>1, <3>2 DEF Carried
    <2>4. Exists'
        BY <2>1, PackageAssumption DEF Exists
    <2> QED
        BY <1>0, <1>1, <2>1, <2>2, <2>3, <2>4 DEF Resolving
<1>4. ASSUME NEW r \in Req, NEW q, NEW s \in Holding, Entered(r, q, s), Resolving(q) PROVE Goal
    BY <1>0, <1>1, <1>4 DEF Entered, Exists, Resolving, Holding
<1>5. CASE Updating
    <2>1. CASE \E c \in Clients : Recording(c) \/ Adding(c)
        BY <1>0, <1>1, <1>4, <2>1 DEF Recording, Adding, Entered, Holding
    <2>2. CASE \E g \in Taggers : Tagging(g)
        BY <1>0, <1>1, <1>4, <2>2 DEF Tagging, Entered, Holding
    <2>3. CASE \E x \in Changers : Changing(x)
        BY <1>0, <1>1, <1>4, <2>3 DEF Changing, Entered, Holding
    <2>4. CASE \E x \in Changers : Detaching(x)
        BY <1>0, <1>1, <1>4, <2>4 DEF Detaching, Entered, Holding
    <2> QED
        BY <1>5, <2>1, <2>2, <2>3, <2>4 DEF Updating
<1>6. ASSUME NEW c \in Clients, CreateWrite(c) PROVE Goal
    <2>1. ~Exists /\ holder = None
        BY <1>0, <1>6 DEF CreateWrite, Present, Typed, Kind
    <2>2. \A x \in Req : pc'[x] \in Holding \cup {"fetched"} => pc[x] \in Holding \cup {"fetched"} /\ pc[x] = pc'[x]
        BY <1>0, <1>6 DEF CreateWrite, Goto, Holding
    <2>3. \A x \in Req : pc'[x] \notin Holding /\ (x \in Changers => pc'[x] # "fetched")
        BY <1>0, <1>1, <2>1, <2>2, MarkAssumption DEF Typed
    <2>4. (Exists => Resolving(pkg)) /\ pkg' \in {pkg, Template} /\ mem' = mem
        BY <1>1, <1>6 DEF CreateWrite
    <2>5. Exists' => Resolving(pkg)'
        BY <2>4, TemplateTyped DEF Resolving, Exists
    <2> QED
        BY <1>0, <1>1, <2>3, <2>4, <2>5
<1>7. ASSUME NEW c \in Clients, Sent(c), ~CreateWrite(c) PROVE Goal
    BY <1>0, <1>1, <1>7 DEF Sent, CreateBegin, Store, Upload, Goto, Exists, Resolving, Holding
<1>8. ASSUME NEW x \in Changers, Fetched(x) PROVE Goal
    BY <1>0, <1>1, <1>8 DEF Fetched, Exists, Resolving, Holding
<1>9. ASSUME NEW x \in Changers, Unlink(x) PROVE Goal
    BY <1>0, <1>1, <1>9 DEF Unlink, Goto, Exists, Resolving, Holding
<1>10. CASE UNCHANGED vars
    BY <1>1, <1>10 DEF vars, Exists, Resolving
<1> QED
    BY <1>0, <1>2, <1>3, <1>5, <1>6, <1>7, <1>8, <1>9, <1>10 DEF QuietStep

-----------------------------------------------------------------------------
(* One publication of a version wins *)

\* Who was answered has its version in the package, and nothing takes it out.
Published ==
    Untouched(Changers \cup Syncers \cup Removers) /\ Alone(Creators) =>
        /\ \A c \in Clients \cap acked :
            pc[c] = "done" /\ arg[c] \in Version /\ Exists /\ listed /\ pkg.versions[arg[c]] = c
        /\ \A c \in Clients : pc[c] = "adding" => listed

LEMMA PublishedStep == Typed /\ Present /\ Carried /\ Published /\ [Next]_vars => Published'
<1> DEFINE Goal == /\ \A c \in Clients \cap acked' :
                        /\ pc'[c] = "done" /\ arg'[c] \in Version /\ Exists' /\ listed'
                        /\ pkg'.versions[arg'[c]] = c
                   /\ \A c \in Clients : pc'[c] = "adding" => listed'
<1> SUFFICES ASSUME Typed, Present, Carried, Published, Step, Alone(Creators)',
                    Untouched(Changers \cup Syncers \cup Removers)'
             PROVE  Goal
    BY NextStep DEF Published
<1>0. /\ Quiet' /\ Untouched(Changers \cup Syncers \cup Removers) /\ Alone(Creators) /\ pc \in [Req -> Stage]
      /\ arg \in [Req -> Version \cup {None}] /\ Clients \subseteq Req /\ Changers \subseteq Req
      /\ Creators \subseteq Clients /\ Taggers \subseteq Req
    BY UntouchedBefore DEF Quiet, Untouched, Typed, TypeOK, Req, Clients
<1>1. /\ Quiet /\ QuietStep /\ \A x \in Changers : pc[x] = "idle" /\ pc'[x] = "idle"
    BY <1>0, StepQuietly DEF Untouched
<1>2. /\ \A c \in Clients \cap acked :
            pc[c] = "done" /\ arg[c] \in Version /\ Exists /\ listed /\ pkg.versions[arg[c]] = c
      /\ \A c \in Clients : pc[c] = "adding" => listed
    BY <1>0 DEF Published
<1>3. ASSUME NEW r \in Req, Refused(r) \/ CommitFail(r) PROVE Goal
    BY <1>0, <1>2, <1>3 DEF Refused, Refuse, CommitFail, Goto, Exists
<1>4. ASSUME NEW r \in Req, Commit(r) PROVE Goal
    <2>1. /\ pc[r] \in Holding /\ mem[r] \in Package /\ pkg' = mem[r] /\ listed' = listed /\ arg' = arg /\ Exists'
          /\ r \notin Changers
        BY <1>1, <1>4, PackageAssumption DEF Commit, Typed, Exists, Holding
    <2>2. /\ pc' = [pc EXCEPT ![r] = AfterCommit[pc[r]]] /\ AfterCommit[pc[r]] \in {"recorded", "done", "changed", "detached"}
          /\ acked' \subseteq acked \cup {r} /\ (acked' # acked => pc'[r] = "done")
        BY <1>0, <1>4, <2>1 DEF Commit, AfterCommit, Goto, Holding
    <2>3. ASSUME NEW c \in Clients \cap acked'
          PROVE  pc'[c] = "done" /\ arg'[c] \in Version /\ Exists' /\ listed' /\ pkg'.versions[arg'[c]] = c
        <3>1. CASE c \in acked
            <4>1. pc[c] = "done" /\ c # r /\ arg[c] \in Version /\ listed /\ pkg.versions[arg[c]] = c
                BY <1>2, <2>1, <3>1 DEF Holding
            <4>2. c # None
                BY <1>0, MarkAssumption
            <4> QED
                BY ZenonT(60), <1>0, <1>1, <2>1, <2>2, <4>1, <4>2 DEF Carried
        <3>2. CASE c \notin acked
            <4>1. c = r /\ pc'[r] = "done"
                BY <2>2, <3>2
            <4>2. pc[r] = "adding"
                BY <1>0, <2>1, <2>2, <4>1, RequestAssumption DEF AfterCommit, Holding, Typed, Kind
            <4>3. arg[r] \in Version /\ listed
                BY <1>0, <1>2, <4>1, <4>2 DEF Typed, Kind
            <4> QED
                BY <1>0, <1>1, <2>1, <4>1, <4>2, <4>3 DEF Carried
        <3> QED
            BY <3>1, <3>2
    <2> QED
        BY <1>0, <1>2, <2>1, <2>2, <2>3
<1>5. CASE Updating
    <2>1. \A x \in Changers : ~Changing(x) /\ ~Detaching(x)
        BY <1>1 DEF Changing, Detaching
    <2>2. ASSUME NEW c \in Clients, Recording(c) \/ Adding(c) PROVE Goal
        <3>1. pc[c] # "done" /\ (listed' = listed \/ listed')
            BY <2>2 DEF Recording, Adding
        <3>2. /\ pc' = [pc EXCEPT ![c] = pc'[c]] /\ pc'[c] \in {"recording", "adding"}
              /\ pc'[c] = "adding" => listed'
              /\ UNCHANGED <<acked, arg, pkg>>
            BY <1>0, <2>2 DEF Recording, Adding, Entered
        <3>3. listed => listed'
            BY <2>2 DEF Recording, Adding
        <3> QED
            BY <1>0, <1>2, <3>1, <3>2, <3>3 DEF Exists
    <2>3. ASSUME NEW g \in Taggers, Tagging(g) PROVE Goal
        BY <1>0, <1>2, <2>3, RequestAssumption DEF Tagging, Entered, Exists
    <2> QED
        BY <1>5, <2>1, <2>2, <2>3 DEF Updating
<1>6. ASSUME NEW c \in Clients, CreateWrite(c) PROVE Goal
    <2>1. ~Exists /\ acked' = acked
        BY <1>0, <1>1, <1>6 DEF CreateWrite, Present, Typed, Kind
    <2> QED
        BY <1>0, <1>2, <1>6, <2>1 DEF CreateWrite, Goto
<1>7. ASSUME NEW c \in Clients, Sent(c), ~CreateWrite(c) PROVE Goal
    <2>1. /\ pc[c] # "done" /\ c \notin acked
          /\ \A x \in Req \ {c} : pc'[x] = pc[x] /\ arg'[x] = arg[x]
          /\ pc'[c] # "adding" /\ UNCHANGED <<pkg, acked, listed>>
        BY <1>0, <1>2, <1>7 DEF Sent, CreateBegin, Store, Upload, Goto
    <2> QED
        BY <1>0, <1>2, <2>1 DEF Exists
<1>8. \A x \in Changers : ~Fetched(x) /\ ~Unlink(x)
    BY <1>0, <1>1 DEF Fetched, Unlink
<1>9. CASE UNCHANGED vars
    BY <1>2, <1>9 DEF vars, Exists
<1> QED
    BY <1>1, <1>3, <1>4, <1>5, <1>6, <1>7, <1>8, <1>9 DEF QuietStep

-----------------------------------------------------------------------------
(* Tarballs and attachments *)

\* A version v whose tarball one client at most is sending: who is on the way
\* with it, and what the package says of it.
FiledAt(v) ==
    /\ Exists => pkg.files[v] \in {None, tar[v]}
    /\ \A r \in Req : pc[r] \in Holding => mem[r].files[v] \in {None, tar[v]}
    /\ \A c, d \in Sending(v) : c = d /\ tar[v] = None
    /\ \A c \in Clients : arg[c] = v /\ pc[c] \in {"stored", "recording"} =>
        /\ tar[v] = c /\ (Exists => pkg.files[v] = None)
        /\ \A r \in Req \ {c} : pc[r] \in Holding => mem[r].files[v] = None
    /\ \A x \in Changers : arg[x] = v /\ pc[x] \in {"detaching", "detached"} =>
        /\ tar[v] # None
        /\ \A c \in Clients : ~(arg[c] = v /\ pc[c] \in {"stored", "recording"})
        /\ \A y \in Changers : arg[y] = v /\ pc[y] \in {"detaching", "detached"} => x = y
    /\ \A x \in Changers : arg[x] = v /\ pc[x] = "detaching" => mem[x].files[v] = None
    /\ \A x \in Changers : arg[x] = v /\ pc[x] = "detached" =>
        /\ Exists => pkg.files[v] = None
        /\ \A r \in Req : pc[r] \in Holding => mem[r].files[v] = None

Filed == Quiet => \A v \in Version \ overlaps : FiledAt(v)

\* Every step of the lock's holder starts from a free lock.
LEMMA NobodyHolds ==
    ASSUME Typed, holder = None
    PROVE  \A r \in Req : pc[r] \notin Holding
BY MarkAssumption DEF Typed

LEMMA FiledStep == Typed /\ Filed /\ [Next]_vars => Filed'
<1> SUFFICES ASSUME Typed, Filed, Step, Quiet', NEW v \in Version \ overlaps' PROVE FiledAt(v)'
    BY NextStep DEF Filed
<1>0. /\ Quiet /\ QuietStep /\ pc \in [Req -> Stage] /\ mem \in [Req -> {NoPkg} \cup Package]
      /\ arg \in [Req -> Version \cup {None}] /\ tar \in [Version -> Clients \cup {None}]
      /\ Clients \subseteq Req /\ Changers \subseteq Req /\ Taggers \subseteq Req /\ None \notin Req
      /\ Clients \cap Changers = {} /\ Taggers \cap (Clients \cup Changers) = {}
    BY StepQuietly, MarkAssumption, RequestAssumption DEF Typed, TypeOK, Req, Clients
<1>1. v \notin overlaps
    <2>1. overlaps \subseteq overlaps'
        BY ZenonT(60), <1>0 DEF QuietStep, Refused, Refuse, Commit, CommitFail, Updating, Recording, Adding, Tagging, Changing,
                    Detaching, Entered, Sent, CreateBegin, CreateWrite, Store, Upload, Fetched, Unlink, vars
    <2> QED
        BY <2>1
<1>2. FiledAt(v)
    BY <1>0, <1>1 DEF Filed
<1>3. ASSUME NEW r \in Req, Refused(r) \/ CommitFail(r) PROVE FiledAt(v)'
    BY <1>0, <1>2, <1>3 DEF Refused, Refuse, CommitFail, Goto, FiledAt, Sending, Exists, Holding
<1>4. ASSUME NEW r \in Req, Commit(r) PROVE FiledAt(v)'
    <2>1. pc[r] \in Holding /\ pkg' = mem[r] /\ UNCHANGED <<mem, arg, tar>> /\ holder = r /\ holder' = None
        BY <1>4 DEF Commit, Typed
    <2>2. pc' = [pc EXCEPT ![r] = AfterCommit[pc[r]]]
        BY <1>4 DEF Commit, Goto
    <2>3. /\ \A x \in Req \ {r} : pc'[x] = pc[x] /\ pc[x] \notin Holding
          /\ pc'[r] \in {"recorded", "done", "changed", "detached"}
          /\ pc'[r] = "detached" => pc[r] = "detaching"
        BY <1>0, <2>1, <2>2 DEF AfterCommit, Holding, Typed
    <2> QED
        BY <1>0, <1>2, <2>1, <2>3 DEF FiledAt, Sending, Holding
<1>5. CASE Updating
    <2>1. /\ \A x \in Req : pc[x] \notin Holding
          /\ Exists /\ pkg.files[v] \in {None, tar[v]}
        BY <1>2, <1>5, NobodyHolds
        DEF Updating, Recording, Adding, Tagging, Changing, Detaching, Entered, FiledAt
    <2>2. ASSUME NEW r \in Req, NEW q, NEW s \in {"adding", "tagging", "changing"}, Entered(r, q, s),
                 q.files = pkg.files, pc[r] \notin {"sending", "stored", "detached"}
          PROVE  FiledAt(v)'
        <3>1. /\ \A x \in Req \ {r} : pc'[x] = pc[x] /\ mem'[x] = mem[x]
              /\ pc'[r] = s /\ mem'[r] = q /\ UNCHANGED <<pkg, tar, arg>>
            BY <1>0, <2>2 DEF Entered
        <3> QED
            BY <1>0, <1>2, <2>1, <2>2, <3>1 DEF FiledAt, Sending, Exists, Holding
    <2>5. ASSUME NEW r \in Req, NEW q, NEW s \in Holding, Entered(r, q, s), q.files[v] = pkg.files[v], arg[r] # v
          PROVE  FiledAt(v)'
        <3>1. /\ \A x \in Req \ {r} : pc'[x] = pc[x] /\ mem'[x] = mem[x]
              /\ pc'[r] = s /\ mem'[r] = q /\ UNCHANGED <<pkg, tar, arg>>
            BY <1>0, <2>5 DEF Entered
        <3>2. \A x \in Req : arg'[x] = v => x # r /\ arg[x] = v /\ pc'[x] = pc[x]
            BY <2>5, <3>1
        <3>3. \A x \in Req : pc'[x] \in Holding => mem'[x].files[v] = pkg.files[v]
            BY <2>1, <2>5, <3>1
        <3>4. Sending(v)' = Sending(v)
            BY <1>0, <3>1, <3>2, <2>5 DEF Sending
        <3>5. \A c \in Clients : arg'[c] = v /\ pc'[c] \in {"stored", "recording"} =>
                /\ arg[c] = v /\ pc[c] \in {"stored", "recording"}
                /\ tar[v] = c /\ pkg.files[v] = None
            BY <1>0, <1>2, <2>1, <3>2 DEF FiledAt
        <3>6. \A x \in Changers : arg'[x] = v /\ pc'[x] \in {"detaching", "detached"} =>
                arg[x] = v /\ pc[x] = "detached" /\ pc'[x] = "detached" /\ pkg.files[v] = None
            BY <1>0, <1>2, <2>1, <3>2 DEF FiledAt, Holding
        <3> QED
            BY <1>0, <1>2, <2>1, <3>1, <3>3, <3>4, <3>5, <3>6 DEF FiledAt, Exists
    <2>3. ASSUME NEW c \in Clients, Recording(c) PROVE FiledAt(v)'
        <3>1. PICK q : Entered(c, q, "recording") /\ q.files = [pkg.files EXCEPT ![arg[c]] = c] /\ pc[c] = "stored"
            BY <2>3 DEF Recording
        <3>2. /\ \A x \in Req \ {c} : pc'[x] = pc[x] /\ mem'[x] = mem[x]
              /\ pc'[c] = "recording" /\ mem'[c] = q /\ UNCHANGED <<pkg, tar, arg>>
            BY <1>0, <3>1 DEF Entered
        <3>3. q.files[v] = IF arg[c] = v THEN c ELSE pkg.files[v]
            <4>1. pkg \in Package
                BY <2>1 DEF Typed, TypeOK, Exists
            <4> QED
                BY <3>1, <4>1 DEF Package
        <3>4. CASE arg[c] # v
            BY <1>0, <2>5, <3>1, <3>3, <3>4 DEF Holding
        <3>5. CASE arg[c] = v
            <4>1. /\ tar[v] = c
                  /\ \A d \in Clients \ {c} : ~(arg[d] = v /\ pc[d] \in {"stored", "recording", "sending"})
                  /\ \A x \in Changers : ~(arg[x] = v /\ pc[x] \in {"detaching", "detached"})
                BY <1>0, <1>2, <3>1, <3>5 DEF FiledAt, Sending
            <4> QED
                BY <1>0, <2>1, <1>2, <3>1, <3>2, <3>3, <3>5, <4>1 DEF FiledAt, Sending, Exists, Holding
        <3> QED
            BY <3>4, <3>5
    <2>4. ASSUME NEW x \in Changers, Detaching(x) PROVE FiledAt(v)'
        <3>1. PICK q : /\ Entered(x, q, "detaching") /\ q.files = [pkg.files EXCEPT ![arg[x]] = None]
                       /\ pc[x] = "changed" /\ pkg.files[arg[x]] # None
            BY <2>4 DEF Detaching
        <3>2. /\ \A y \in Req \ {x} : pc'[y] = pc[y] /\ mem'[y] = mem[y]
              /\ pc'[x] = "detaching" /\ mem'[x] = q /\ UNCHANGED <<pkg, tar, arg>>
            BY <1>0, <3>1 DEF Entered
        <3>3. q.files[v] = IF arg[x] = v THEN None ELSE pkg.files[v]
            <4>1. pkg \in Package
                BY <2>1 DEF Typed, TypeOK, Exists
            <4> QED
                BY <3>1, <4>1 DEF Package
        <3>4. CASE arg[x] # v
            BY <1>0, <2>5, <3>1, <3>3, <3>4 DEF Holding
        <3>5. CASE arg[x] = v
            <4>1. /\ tar[v] = pkg.files[v] /\ tar[v] # None
                  /\ \A c \in Clients : ~(arg[c] = v /\ pc[c] \in {"stored", "recording", "sending"})
                  /\ \A y \in Changers : ~(arg[y] = v /\ pc[y] \in {"detaching", "detached"})
                BY <1>0, <1>2, <2>1, <3>1, <3>5 DEF FiledAt, Sending, Holding
            <4> QED
                BY <1>0, <2>1, <3>1, <3>2, <3>3, <3>5, <4>1 DEF FiledAt, Sending, Exists, Holding
        <3> QED
            BY <3>4, <3>5
    <2> QED
        BY <1>0, <1>5, <2>2, <2>3, <2>4 DEF Updating, Adding, Tagging, Changing, Typed, Kind
<1>6. ASSUME NEW c \in Clients, CreateBegin(c) \/ CreateWrite(c) PROVE FiledAt(v)'
    <2>1. UNCHANGED <<tar, arg, mem>> /\ pkg' \in {pkg, Template}
        BY <1>6 DEF CreateBegin, CreateWrite
    <2>2. \A r \in Req : pc'[r] = pc[r] \/ (r = c /\ pc'[r] \in {"creating", "ready"})
        BY <1>0, <1>6 DEF CreateBegin, CreateWrite, Goto
    <2>3. \A r \in Req : pc'[r] \in Holding \cup {"sending", "stored", "detached"} => pc'[r] = pc[r]
        BY <2>2 DEF Holding
    <2>4. Exists' => pkg'.files[v] = None \/ (Exists /\ pkg' = pkg)
        BY <2>1, TemplateTyped DEF Exists
    <2>5. Sending(v)' \subseteq Sending(v)
        BY <1>0, <2>1, <2>3 DEF Sending
    <2>6. \A r \in Req : pc'[r] \in {"recording", "detaching"} => pc'[r] = pc[r]
        BY <2>3 DEF Holding
    <2> QED
        BY <1>0, <1>2, <2>1, <2>3, <2>4, <2>5, <2>6 DEF FiledAt, Exists
<1>7. ASSUME NEW c \in Clients, NEW w \in Version, Upload(c, w) PROVE FiledAt(v)'
    <2>1. /\ pc[c] \in {"ready", "idle"} /\ pc'[c] \in {"sending", "done"} /\ arg'[c] = w
          /\ \A x \in Req \ {c} : pc'[x] = pc[x] /\ arg'[x] = arg[x]
          /\ UNCHANGED <<pkg, tar, mem>>
        BY <1>0, <1>7 DEF Upload, Goto
    <2>2. pc'[c] = "sending" /\ w = v => tar[v] = None /\ Sending(v) = {}
        BY <1>0, <1>7 DEF Upload, Goto
    <2> QED
        BY <1>0, <1>2, <2>1, <2>2 DEF FiledAt, Sending, Exists, Holding
<1>8. ASSUME NEW c \in Clients, Store(c) PROVE FiledAt(v)'
    <2>1. /\ pc[c] = "sending" /\ pc'[c] = "stored" /\ UNCHANGED <<pkg, arg, mem>>
          /\ \A x \in Req \ {c} : pc'[x] = pc[x]
          /\ tar'[v] = IF arg[c] = v THEN c ELSE tar[v]
        BY <1>0, <1>8 DEF Store, Goto
    <2>2. CASE arg[c] # v
        BY <1>0, <1>2, <2>1, <2>2 DEF FiledAt, Sending, Exists, Holding
    <2>3. CASE arg[c] = v
        <3>1. tar[v] = None /\ Sending(v) = {c}
            BY <1>2, <2>1, <2>3 DEF FiledAt, Sending
        <3>2. /\ Exists => pkg.files[v] = None
              /\ \A r \in Req : pc[r] \in Holding => mem[r].files[v] = None
            BY <1>2, <3>1 DEF FiledAt
        <3>3. /\ \A d \in Clients : ~(arg[d] = v /\ pc[d] \in {"stored", "recording"})
              /\ \A x \in Changers : ~(arg[x] = v /\ pc[x] \in {"detaching", "detached"})
            BY <1>0, <1>2, <3>1 DEF FiledAt
        <3> QED
            BY <1>0, <2>1, <2>3, <3>1, <3>2, <3>3 DEF FiledAt, Sending, Exists, Holding
    <2> QED
        BY <2>2, <2>3
<1>9. ASSUME NEW x \in Changers, Fetched(x) PROVE FiledAt(v)'
    BY <1>0, <1>2, <1>9 DEF Fetched, FiledAt, Sending, Exists, Holding
<1>10. ASSUME NEW x \in Changers, Unlink(x) PROVE FiledAt(v)'
    <2>1. /\ pc[x] = "detached" /\ pc'[x] = "done" /\ UNCHANGED <<pkg, arg, mem>>
          /\ \A y \in Req \ {x} : pc'[y] = pc[y]
          /\ tar'[v] = tar[v] \/ (arg[x] = v /\ tar'[v] = None)
        BY <1>0, <1>10 DEF Unlink, Goto
    <2>2. arg[x] = v =>
            /\ Exists => pkg.files[v] = None
            /\ \A r \in Req : pc[r] \in Holding => mem[r].files[v] = None
            /\ \A c \in Clients : ~(arg[c] = v /\ pc[c] \in {"stored", "recording"})
            /\ \A y \in Changers : y # x => ~(arg[y] = v /\ pc[y] \in {"detaching", "detached"})
        BY <1>2, <2>1 DEF FiledAt
    <2> QED
        BY <1>0, <1>2, <2>1, <2>2 DEF FiledAt, Sending, Exists, Holding
<1>11. CASE UNCHANGED vars
    BY <1>2, <1>11 DEF vars, FiledAt, Sending, Exists
<1> QED
    BY <1>0, <1>3, <1>4, <1>5, <1>6, <1>7, <1>8, <1>9, <1>10, <1>11 DEF QuietStep, Sent

\* A tarball has an attachment, or somebody who is about to write or remove it.
HasOwner(v) ==
    \/ Exists /\ pkg.files[v] # None
    \/ \E c \in Clients : arg[c] = v /\ pc[c] \in {"stored", "recording"}
    \/ \E x \in Changers : arg[x] = v /\ pc[x] = "detached"

Owned == Quiet /\ Alone(Creators) /\ faults = 0 => \A v \in Version \ overlaps : tar[v] # None => HasOwner(v)

LEMMA OwnedStep == Typed /\ Present /\ Carried /\ Owned /\ [Next]_vars => Owned'
<1> SUFFICES ASSUME Typed, Present, Carried, Owned, Step, Quiet', Alone(Creators)', faults' = 0,
                    NEW v \in Version \ overlaps', tar'[v] # None
             PROVE  HasOwner(v)'
    BY NextStep DEF Owned
<1>0. /\ Quiet /\ QuietStep /\ Alone(Creators) /\ pc \in [Req -> Stage]
      /\ arg \in [Req -> Version \cup {None}] /\ tar \in [Version -> Clients \cup {None}] /\ faults \in Nat
      /\ Clients \subseteq Req /\ Changers \subseteq Req /\ Creators \subseteq Clients /\ None \notin Req
      /\ Clients \cap Changers = {} /\ Taggers \subseteq Req /\ Taggers \cap (Clients \cup Changers) = {}
    BY StepQuietly, UntouchedBefore, MarkAssumption, RequestAssumption DEF Typed, TypeOK, Req, Clients
<1>1. v \notin overlaps /\ faults = 0
    <2> USE DEF Refused, Refuse, Commit, CommitFail, Recording, Adding, Tagging, Changing, Detaching, Entered,
                CreateBegin, CreateWrite, Store, Upload, Fetched, Unlink
    <2> DEFINE Grow == overlaps \subseteq overlaps' /\ faults' \in {faults, faults + 1}
    <2>2. \A r \in Req : Refused(r) \/ Commit(r) \/ CommitFail(r) => Grow
        OBVIOUS
    <2>3. Updating => Grow
        BY DEF Updating
    <2>4. \A c \in Clients : Sent(c) => Grow
        BY DEF Sent
    <2>5. \A x \in Changers : Fetched(x) \/ Unlink(x) => Grow
        OBVIOUS
    <2>1. Grow
        BY <1>0, <2>2, <2>3, <2>4, <2>5 DEF QuietStep, vars
    <2> QED
        BY <1>0, <2>1
<1>2. tar[v] # None => HasOwner(v)
    BY <1>0, <1>1 DEF Owned
<1>3. ASSUME NEW r \in Req, Refused(r) PROVE HasOwner(v)'
    <2>1. r \in Clients => pc[r] # "stored"
        BY <1>0, <1>1, <1>3 DEF Refused, Present
    <2> QED
        BY <1>0, <1>2, <1>3, <2>1 DEF Refused, Refuse, Goto, HasOwner, Exists, Holding
<1>4. ASSUME NEW r \in Req, CommitFail(r) PROVE FALSE
    BY <1>0, <1>1, <1>4 DEF CommitFail
<1>5. ASSUME NEW r \in Req, Commit(r) PROVE HasOwner(v)'
    <2>1. /\ pc[r] \in Holding /\ mem[r] \in Package /\ pkg' = mem[r] /\ UNCHANGED <<arg, tar>> /\ Exists /\ Exists'
          /\ pkg \in Package
        BY <1>0, <1>5, PackageAssumption DEF Commit, Typed, TypeOK, Present, Exists
    <2>2. /\ \A x \in Req \ {r} : pc'[x] = pc[x]
          /\ pc[r] = "detaching" => pc'[r] = "detached"
        BY <1>0, <1>5 DEF Commit, Goto, AfterCommit
    <2>3. /\ pc[r] = "recording" => r \in Clients /\ mem[r].files = [pkg.files EXCEPT ![arg[r]] = r]
          /\ pc[r] = "detaching" => r \in Changers /\ mem[r].files = [pkg.files EXCEPT ![arg[r]] = None]
          /\ pc[r] \notin {"recording", "detaching"} => mem[r].files = pkg.files
          /\ pc[r] # "detached" /\ pc[r] # "stored"
        BY <1>0, <2>1 DEF Carried, Typed, Kind, Holding, Req, Clients
    <2>4. \/ pkg.files[v] # None
          \/ \E c \in Clients : arg[c] = v /\ pc[c] \in {"stored", "recording"}
          \/ \E x \in Changers : arg[x] = v /\ pc[x] = "detached"
        BY <1>2, <2>1 DEF HasOwner
    <2>5. CASE pkg.files[v] # None
        <3>1. CASE pc[r] = "detaching" /\ arg[r] = v
            BY <1>0, <2>1, <2>2, <2>3, <3>1 DEF HasOwner
        <3>2. CASE ~(pc[r] = "detaching" /\ arg[r] = v)
            <4>1. mem[r].files[v] # None
                BY <1>0, <2>1, <2>3, <2>5, <3>2 DEF Package
            <4> QED
                BY <2>1, <4>1 DEF HasOwner
        <3> QED
            BY <3>1, <3>2
    <2>6. ASSUME NEW c \in Clients, arg[c] = v, pc[c] \in {"stored", "recording"} PROVE HasOwner(v)'
        <3>1. CASE c = r
            <4>1. mem[r].files[v] # None
                BY <1>0, <2>1, <2>3, <2>6, <3>1 DEF Package
            <4> QED
                BY <2>1, <4>1 DEF HasOwner
        <3>2. CASE c # r
            BY <1>0, <2>1, <2>2, <2>6, <3>2 DEF HasOwner
        <3> QED
            BY <3>1, <3>2
    <2>7. ASSUME NEW x \in Changers, arg[x] = v, pc[x] = "detached" PROVE HasOwner(v)'
        BY <1>0, <2>1, <2>2, <2>3, <2>7 DEF HasOwner
    <2> QED
        BY <2>4, <2>5, <2>6, <2>7
<1>6. CASE Updating
    <2>1. ASSUME NEW r \in Req, NEW q, NEW s, Entered(r, q, s), pc[r] \notin {"recording", "detached"},
                 pc[r] = "stored" => s = "recording"
          PROVE  HasOwner(v)'
        <3>1. /\ \A x \in Req \ {r} : pc'[x] = pc[x]
              /\ pc'[r] = s /\ UNCHANGED <<pkg, tar, arg>>
            BY <1>0, <2>1 DEF Entered
        <3> QED
            BY <1>0, <1>2, <2>1, <3>1 DEF HasOwner, Exists
    <2>2. \A c \in Clients : Recording(c) \/ Adding(c) => HasOwner(v)'
        BY <1>0, <2>1 DEF Recording, Adding
    <2>3. \A g \in Taggers : Tagging(g) => HasOwner(v)'
        BY <1>0, <2>1 DEF Tagging
    <2>4. \A x \in Changers : Changing(x) \/ Detaching(x) => HasOwner(v)'
        BY <1>0, <2>1 DEF Changing, Detaching
    <2> QED
        BY <1>6, <2>2, <2>3, <2>4 DEF Updating
<1>7. ASSUME NEW c \in Clients, CreateWrite(c) PROVE FALSE
    <2>1. c \in Creators /\ pc[c] = "creating" /\ tar' = tar
        BY <1>0, <1>7 DEF CreateWrite, Typed, Kind
    <2> QED
        BY <1>0, <1>1, <2>1 DEF Present
<1>8. ASSUME NEW c \in Clients, CreateBegin(c) \/ \E w \in Version : Upload(c, w) PROVE HasOwner(v)'
    <2>1. /\ pc[c] \in {"ready", "idle"} /\ UNCHANGED <<pkg, tar>>
          /\ \A x \in Req \ {c} : pc'[x] = pc[x] /\ arg'[x] = arg[x]
        BY <1>0, <1>8 DEF CreateBegin, Upload, Goto
    <2> QED
        BY <1>0, <1>2, <2>1 DEF HasOwner, Exists
<1>9. ASSUME NEW c \in Clients, Store(c) PROVE HasOwner(v)'
    BY <1>0, <1>2, <1>9 DEF Store, Goto, HasOwner, Exists
<1>10. ASSUME NEW x \in Changers, Fetched(x) PROVE HasOwner(v)'
    BY <1>0, <1>2, <1>10 DEF Fetched, HasOwner, Exists
<1>11. ASSUME NEW x \in Changers, Unlink(x) PROVE HasOwner(v)'
    BY <1>0, <1>2, <1>11 DEF Unlink, Goto, HasOwner, Exists
<1>12. CASE UNCHANGED vars
    BY <1>2, <1>12 DEF vars, HasOwner, Exists
<1> QED
    BY <1>0, <1>3, <1>4, <1>5, <1>6, <1>7, <1>8, <1>9, <1>10, <1>11, <1>12 DEF QuietStep, Sent

-----------------------------------------------------------------------------
Inv == Typed /\ Removed /\ TagsKept /\ Present /\ Carried /\ TagsBack /\ Published /\ Filed /\ Owned

LEMMA InvInit == Init => Inv
<1> SUFFICES ASSUME Init PROVE Inv
    OBVIOUS
<1>1. /\ \A r \in Req : pc[r] = "idle"
      /\ pkg \in {NoPkg, Template} /\ dir = (pkg = Template) /\ NoPkg # Template
      /\ acked = {} /\ holder = None
      /\ \A v \in Version : tar[v] = None
    BY TemplateTyped, PackageAssumption DEF Init
<1>2. Resolving(Template) /\ \A v \in Version : Template.files[v] = None
    BY TemplateTyped DEF Resolving
<1>3. Clients \subseteq Req /\ Changers \subseteq Req /\ Creators \subseteq Clients
    BY DEF Req, Clients
<1>4. Removed /\ TagsKept /\ TagsBack /\ Published
    BY <1>1, <1>2, <1>3 DEF Removed, TagsKept, TagsBack, Published, Holding, Exists
<1>5. Present /\ Carried /\ Owned
    BY <1>1, <1>3 DEF Present, Carried, Owned, Holding, Exists
<1>6. Filed
    BY <1>1, <1>2, <1>3 DEF Filed, FiledAt, Sending, Holding, Exists
<1> QED
    BY <1>4, <1>5, <1>6, TypedInit DEF Inv

LEMMA InvStep == Inv /\ [Next]_vars => Inv'
BY TypedStep, RemovedStep, TagsKeptStep, PresentStep, CarriedStep, TagsBackStep, PublishedStep, FiledStep, OwnedStep
DEF Inv

THEOREM Invariance == Spec => []Inv
BY InvInit, InvStep, PTL DEF Spec

\* The variables keep their types, and a lock has one holder, who is at work.
THEOREM TypeCorrect == Spec => []TypeOK
BY Invariance, PTL DEF Inv, Typed

\* Of the publications of one version one is acknowledged, and the metadata it
\* wrote stays (PublishedOnce): as long as nobody unpublishes, removes or
\* synchronizes, and one client at most creates the package.
THEOREM PublishedForGood == Spec => []PublishedOnce
<1>1. Inv => PublishedOnce
    BY DEF Inv, Published, PublishedOnce
<1> QED
    BY <1>1, Invariance, PTL

\* A dist-tag names a version that is there (TagsResolve): while nobody
\* unpublishes, or one client does beside neither removals nor synchronizations
\* nor a second creation.
THEOREM TagsAlwaysResolve == Spec => []TagsResolve
<1>1. Inv => TagsResolve
    BY DEF Inv, TagsKept, TagsBack, Quiet, Resolving, TagsResolve
<1> QED
    BY <1>1, Invariance, PTL

\* The recorded shasum is that of the file on disk (AttachmentsOnDisk), unless two
\* clients were sending it at once or somebody removes or synchronizes the package.
THEOREM AttachmentsAreOnDisk == Spec => []AttachmentsOnDisk
<1>1. Inv => AttachmentsOnDisk
    BY DEF Inv, Filed, FiledAt, Quiet, AttachmentsOnDisk
<1> QED
    BY <1>1, Invariance, PTL

\* A tarball has its attachment or somebody at work on it (NoOrphanTarball), until
\* a write or an unlink fails, the package is removed, synchronized or created
\* anew, or two clients send it at once.
THEOREM TarballsAreOwned == Spec => []NoOrphanTarball
<1>1. Inv => NoOrphanTarball
    BY DEF Inv, Owned, HasOwner, Quiet, NoOrphanTarball
<1> QED
    BY <1>1, Invariance, PTL

\* No upload, publish, tag or unpublish that was under way brings back what was on
\* disk of a removed package (RemovalIsFinal), as long as nobody creates or
\* synchronizes it.
THEOREM RemovedForGood == Spec => []RemovalIsFinal
<1>1. Inv => RemovalIsFinal
    BY DEF Inv, Removed, RemovalIsFinal
<1> QED
    BY <1>1, Invariance, PTL
=============================================================================
