--------------------------- MODULE HTPasswd_proofs ---------------------------
(***************************************************************************)
(* Who is registered stays registered, and a password is replaced by its    *)
(* owner only, for any number of users and requests: the lock lets one      *)
(* request at a time rewrite the password file, which has everybody else.   *)
(***************************************************************************)
EXTENDS HTPasswd, SequenceTheorems, FiniteSetTheorems, WellFoundedInduction, TLAPS

-----------------------------------------------------------------------------
(* The lines of the file *)

\* The maximum of a finite set of numbers is one of its elements, and none is
\* above it: the element with the fewest others above it.
LEMMA MaxIsIn ==
    ASSUME NEW S \in SUBSET Nat, IsFiniteSet(S), S # {}
    PROVE  Max(S) \in S /\ \A y \in S : Max(S) >= y
<1> DEFINE Above(x) == {y \in S : y > x}
           R == OpToRel(<, Nat)
           N == {Cardinality(Above(x)) : x \in S}
<1>1. \A x \in S : IsFiniteSet(Above(x)) /\ Cardinality(Above(x)) \in Nat
    BY FS_Subset, FS_CardinalityType
<1>2. \A a, b \in Nat : a < b => <<a, b>> \in R
    BY DEF OpToRel
<1> HIDE DEF R
<1>3. PICK x \in S : \A y \in S : <<Cardinality(Above(y)), Cardinality(Above(x))>> \notin R
    <2>1. N \subseteq Nat /\ N # {}
        BY <1>1
    <2>2. IsWellFoundedOn(R, Nat)
        BY NatLessThanWellFounded DEF R
    <2> HIDE DEF N
    <2>3. PICK n \in N : \A k \in N : ~(<<k, n>> \in R)
        BY <2>1, <2>2, WFMin
    <2> QED
        BY <2>3, Zenon DEF N
<1>4. ASSUME NEW y \in S, y > x PROVE FALSE
    <2>1. x \in Int /\ y \in Int /\ \A z \in S : z \in Int
        OBVIOUS
    <2>2. ~(y > y) /\ \A z \in S : z > y => z > x
        BY <1>4, <2>1
    <2>3. Above(y) \in SUBSET Above(x) /\ y \in Above(x) /\ y \notin Above(y)
        BY <1>4, <2>2
    <2>4. Cardinality(Above(y)) <= Cardinality(Above(x)) /\ Cardinality(Above(y)) # Cardinality(Above(x))
        BY <1>1, <2>3, FS_Subset
    <2>5. <<Cardinality(Above(y)), Cardinality(Above(x))>> \in R
        BY <1>1, <1>2, <2>4
    <2> QED
        BY <1>3, <2>5
<1>5. \E m \in S : \A y \in S : m >= y
    BY <1>4
<1> QED
    BY <1>5 DEF Max

\* The lines of a user.
LinesOf(lines, u) == {i \in DOMAIN lines : lines[i].user = u}

LEMMA LastLine ==
    ASSUME NEW lines \in Seq(Line), NEW u \in User, LinesOf(lines, u) # {}
    PROVE  /\ Max(LinesOf(lines, u)) \in LinesOf(lines, u)
           /\ \A i \in LinesOf(lines, u) : Max(LinesOf(lines, u)) >= i
           /\ Parse(lines)[u] = lines[Max(LinesOf(lines, u))].password
<1>1. LinesOf(lines, u) \subseteq 1 .. Len(lines) /\ Len(lines) \in Nat
    BY DEF LinesOf
<1>2. IsFiniteSet(LinesOf(lines, u)) /\ LinesOf(lines, u) \in SUBSET Nat
    <2>1. IsFiniteSet(1 .. Len(lines))
        BY <1>1, FS_Interval
    <2>2. IsFiniteSet(LinesOf(lines, u))
        BY <1>1, <2>1, FS_Subset
    <2> QED
        BY <1>1, <2>2
<1>3. Parse(lines)[u] = lines[Max(LinesOf(lines, u))].password
    BY DEF Parse, LinesOf
<1> QED
    BY <1>2, <1>3, MaxIsIn

LEMMA NoLine ==
    ASSUME NEW lines, NEW u \in User, LinesOf(lines, u) = {}
    PROVE  Parse(lines)[u] = None
BY DEF Parse, LinesOf

LEMMA ParseTyped ==
    ASSUME NEW lines \in Seq(Line)
    PROVE  Parse(lines) \in Table
<1>1. ASSUME NEW u \in User PROVE Parse(lines)[u] \in Password \cup {None}
    <2>1. CASE LinesOf(lines, u) = {}
        BY <2>1, NoLine
    <2>2. CASE LinesOf(lines, u) # {}
        <3>1. lines[Max(LinesOf(lines, u))] \in Line
            BY <2>2, LastLine DEF LinesOf
        <3> QED
            BY <2>2, <3>1, LastLine DEF Line
    <2> QED
        BY <2>1, <2>2
<1>2. Parse(lines) = [u \in User |-> Parse(lines)[u]]
    BY DEF Parse
<1> QED
    BY <1>1, <1>2 DEF Table

\* A new line is the one that counts for its user, and no other user's.
LEMMA ParseAppend ==
    ASSUME NEW lines \in Seq(Line), NEW u \in User, NEW p \in Password
    PROVE  LET more == Append(lines, [user |-> u, password |-> p])
           IN  /\ more \in Seq(Line)
               /\ Parse(more)[u] = p /\ \A v \in User \ {u} : Parse(more)[v] = Parse(lines)[v]
<1> DEFINE line == [user |-> u, password |-> p]
           more == Append(lines, line)
           n == Len(lines) + 1
<1>1. line \in Line /\ more \in Seq(Line) /\ Len(lines) \in Nat
    BY DEF Line
<1>2. /\ DOMAIN more = DOMAIN lines \cup {n} /\ more[n] = line /\ n \notin DOMAIN lines
      /\ \A i \in DOMAIN lines : more[i] = lines[i] /\ i < n
    BY <1>1
<1> HIDE DEF more, n
<1>3. Parse(more)[u] = p
    <2>1. n \in LinesOf(more, u) /\ \A i \in LinesOf(more, u) : i <= n
        BY <1>1, <1>2 DEF LinesOf, n
    <2>2. /\ Max(LinesOf(more, u)) \in LinesOf(more, u) /\ Max(LinesOf(more, u)) >= n
          /\ LinesOf(more, u) \subseteq Nat
        BY <1>1, <2>1, LastLine DEF LinesOf
    <2>3. Max(LinesOf(more, u)) = n
        BY <1>1, <2>1, <2>2 DEF n
    <2> QED
        BY <1>1, <1>2, <2>1, <2>3, LastLine
<1>4. ASSUME NEW v \in User \ {u} PROVE Parse(more)[v] = Parse(lines)[v]
    <2>1. LinesOf(more, v) = LinesOf(lines, v)
        BY <1>2, <1>4 DEF LinesOf
    <2>2. CASE LinesOf(lines, v) = {}
        BY <2>1, <2>2, NoLine
    <2>3. CASE LinesOf(lines, v) # {}
        <3>1. Max(LinesOf(lines, v)) \in DOMAIN lines
            BY <2>3, LastLine DEF LinesOf
        <3>2. more[Max(LinesOf(lines, v))] = lines[Max(LinesOf(lines, v))]
            BY <1>2, <3>1
        <3> QED
            BY <1>1, <2>1, <2>3, <3>2, LastLine
    <2> QED
        BY <2>2, <2>3
<1> QED
    BY <1>1, <1>3, <1>4 DEF more

\* A password that is replaced on every line of its user is the user's, and no
\* other user has another one.
IsReplaced(new, lines, u, p) ==
    /\ DOMAIN new = DOMAIN lines
    /\ \A i \in DOMAIN lines :
          new[i] = IF lines[i].user = u THEN [user |-> u, password |-> p] ELSE lines[i]

LEMMA ParseReplace ==
    ASSUME NEW lines \in Seq(Line), NEW u \in User, NEW p \in Password, LinesOf(lines, u) # {},
           NEW new \in Seq(Line), IsReplaced(new, lines, u, p)
    PROVE  Parse(new)[u] = p /\ \A v \in User \ {u} : Parse(new)[v] = Parse(lines)[v]
<1>2. \A i \in DOMAIN lines :
        /\ new[i].user = lines[i].user
        /\ IF lines[i].user = u THEN new[i].password = p ELSE new[i] = lines[i]
    BY DEF IsReplaced
<1>4. \A v \in User : LinesOf(new, v) = LinesOf(lines, v)
    BY <1>2 DEF LinesOf, IsReplaced
<1>5. Parse(new)[u] = p
    <2>1. Max(LinesOf(lines, u)) \in LinesOf(lines, u)
        BY LastLine
    <2> QED
        BY <1>2, <1>4, <2>1, LastLine DEF LinesOf
<1>6. ASSUME NEW v \in User \ {u} PROVE Parse(new)[v] = Parse(lines)[v]
    <2>1. CASE LinesOf(lines, v) = {}
        BY <1>4, <2>1, NoLine
    <2>2. CASE LinesOf(lines, v) # {}
        <3>1. Max(LinesOf(lines, v)) \in LinesOf(lines, v)
            BY <2>2, LastLine
        <3>2. new[Max(LinesOf(lines, v))] = lines[Max(LinesOf(lines, v))]
            BY <1>2, <1>6, <3>1 DEF LinesOf
        <3> QED
            BY <1>4, <2>2, <3>2, LastLine
    <2> QED
        BY <2>1, <2>2
<1> QED
    BY <1>5, <1>6

-----------------------------------------------------------------------------
(* Types *)

Inside == {"reading", "open", "writing", "written", "committed", "failed"}

Typed ==
    /\ TypeOK
    /\ \A r \in Req : pc[r] \notin {"idle", "done"} => who[r] \in User
    /\ \A w \in Writers :
        /\ pc[w] # "seen"
        /\ pc[w] \in {"locking", "reading", "writing", "written", "committed"} => file \in Seq(Line)
    /\ \A l \in Logins : pc[l] \in {"idle", "seen", "done"}

LEMMA TypedInit == Init => Typed
<1> SUFFICES ASSUME Init PROVE Typed
    OBVIOUS
<1>1. file = NoFile \/ file \in Seq(Line)
    <2>1. ASSUME NEW u \in User PROVE <<[user |-> u, password |-> First]>> \in Seq(Line)
        <3>1. [user |-> u, password |-> First] \in Line
            BY DEF Line, Password
        <3> QED
            BY <3>1
    <2> QED
        BY <2>1 DEF Init
<1>2. secret \in Table /\ users \in Table
    BY <1>1, ParseTyped DEF Init, Nobody, Table
<1>3. /\ pc \in [Req -> Step] /\ who \in [Req -> User \cup {None}] /\ old \in [Changers -> Password \cup {None}]
      /\ DOMAIN text = Writers /\ (\A w \in Writers : text[w] = <<>>)
      /\ lock = NoLock /\ bare = {} /\ overtaken = {} /\ accidents = 0
      /\ \A r \in Req : pc[r] = "idle"
    BY DEF Init, Step
<1>4. seen \in [Logins -> Table] /\ due \in [Logins -> SUBSET (Password \cup {None})]
    BY DEF Init, Nobody, Table
<1>5. DOMAIN text = Writers /\ \A w \in Writers : text[w] \in Seq(Line)
    <2>1. <<>> \in Seq(Line)
        OBVIOUS
    <2> QED
        BY <1>3, <2>1
<1>6. TypeOK
    BY <1>1, <1>2, <1>3, <1>4, <1>5 DEF TypeOK
<1> QED
    BY <1>3, <1>6 DEF Typed, Writers, Req

\* The rest of a longer file, and the beginning of a text that was cut.
LEMMA OverTyped ==
    ASSUME NEW lines \in Seq(Line), NEW rest \in Seq(Line), NEW f \in Over(lines, rest)
    PROVE  f \in Seq(Line)
<1>1. CASE Len(rest) <= Len(lines)
    BY <1>1 DEF Over
<1>2. CASE ~(Len(rest) <= Len(lines))
    <2>1. PICK i \in {Len(lines) + 1, Len(lines) + 2} : f = lines \o SubSeq(rest, i, Len(rest))
        BY <1>2 DEF Over
    <2>2. i \in 1 .. Len(rest) + 1 /\ Len(lines) \in Nat /\ Len(rest) \in Nat
        BY <1>2, <2>1
    <2>3. SubSeq(rest, i, Len(rest)) \in Seq(Line)
        BY <2>2, SubSeqProperties
    <2> QED
        BY <2>1, <2>3
<1> QED
    BY <1>1, <1>2

LEMMA BegunTyped ==
    ASSUME NEW lines \in Seq(Line), NEW f \in Begun(lines)
    PROVE  f \in Seq(Line)
<1>1. ASSUME NEW k \in 0 .. Len(lines) PROVE SubSeq(lines, 1, k) \in Seq(Line)
    BY <1>1, SubSeqProperties
<1>2. ASSUME NEW k \in DOMAIN lines
      PROVE  Append(SubSeq(lines, 1, k - 1), [lines[k] EXCEPT !.password = Broken]) \in Seq(Line)
    <2>1. k - 1 \in 0 .. Len(lines) /\ lines[k] \in Line
        OBVIOUS
    <2>2. [lines[k] EXCEPT !.password = Broken] \in Line
        BY <2>1 DEF Line, Password
    <2> QED
        BY <1>1, <2>1, <2>2
<1> QED
    BY <1>1, <1>2 DEF Begun

\* A request that moves, with the others where they were.
LEMMA MovedTyped ==
    ASSUME Typed, TypeOK', NEW r \in Req,
           \A x \in Req \ {r} : pc'[x] = pc[x] /\ who'[x] = who[x],
           pc'[r] \notin {"idle", "done"} => who'[r] \in User,
           file \in Seq(Line) => file' \in Seq(Line),
           \/ r \in Logins /\ pc'[r] \in {"idle", "seen", "done"}
           \/ /\ r \in Writers /\ pc'[r] # "seen"
              /\ pc'[r] \in {"locking", "reading", "writing", "written", "committed"} => file' \in Seq(Line)
    PROVE  Typed'
<1>1. Writers \cap Logins = {} /\ Writers \subseteq Req /\ Logins \subseteq Req
    BY RequestAssumption DEF Req
<1> QED
    BY <1>1 DEF Typed

\* What the handler leaves to be written is a text of lines.
LEMMA HandleTyped ==
    ASSUME Typed, NEW w \in Writers, NEW lines \in Seq(Line), Handle(w, lines), pc[w] \in {"missing", "reading"},
           bare' \in SUBSET Writers
    PROVE  /\ Typed' /\ UNCHANGED <<file, lock, secret, who, old, accidents>>
           /\ \A x \in Req \ {w} : pc'[x] = pc[x]
           /\ \A x \in Writers \ {w} : text'[x] = text[x]
           /\ \/ pc'[w] = "failed"
              \/ /\ pc'[w] = "open" /\ Accepts(w, lines)
                 /\ Parse(text'[w])[who[w]] = w
                 /\ \A u \in User \ {who[w]} : Parse(text'[w])[u] = Parse(lines)[u]
<1> DEFINE new == IF w \in Adders THEN Added(w, lines) ELSE Replaced(w, lines)
<1>0. /\ w \in Req /\ w \in Password /\ who[w] \in User /\ pc \in [Req -> Step] /\ DOMAIN text = Writers
      /\ UNCHANGED <<file, lock, secret, seen, due, overtaken, who, old, accidents>> /\ users' = Parse(lines)
    BY DEF Typed, TypeOK, Req, Password, Handle, args
<1>1. ASSUME Accepts(w, lines)
      PROVE  /\ new \in Seq(Line) /\ Parse(new)[who[w]] = w
             /\ \A u \in User \ {who[w]} : Parse(new)[u] = Parse(lines)[u]
    <2>1. CASE w \in Adders
        BY <1>0, <2>1, ParseAppend DEF Added, GenerateHtpasswdLine
    <2>2. CASE w \notin Adders
        <3>1. Parse(lines)[who[w]] # None
            BY <1>1, <2>2 DEF Accepts
        <3>2. LinesOf(lines, who[w]) # {}
            BY <1>0, <3>1, NoLine
        <3> DEFINE same == [i \in DOMAIN lines |->
                               IF lines[i].user = who[w] THEN [user |-> who[w], password |-> w] ELSE lines[i]]
        <3>3. same \in Seq(Line)
            <4>1. [user |-> who[w], password |-> w] \in Line
                BY <1>0 DEF Line
            <4>2. DOMAIN lines = 1 .. Len(lines) /\ Len(lines) \in Nat /\ \A i \in DOMAIN lines : lines[i] \in Line
                OBVIOUS
            <4>3. same \in [1 .. Len(lines) -> Line]
                BY <4>1, <4>2
            <4> HIDE DEF same
            <4> QED
                BY <4>2, <4>3
        <3>5. DOMAIN same = DOMAIN lines
            OBVIOUS
        <3>6. \A i \in DOMAIN lines :
                same[i] = IF lines[i].user = who[w] THEN [user |-> who[w], password |-> w] ELSE lines[i]
            OBVIOUS
        <3> HIDE DEF same
        <3> DEFINE u0 == who[w]
        <3>8. u0 \in User /\ w \in Password /\ LinesOf(lines, u0) # {}
            BY <1>0, <3>2
        <3>9. IsReplaced(same, lines, u0, w)
            BY <3>5, <3>6 DEF IsReplaced
        <3> HIDE DEF u0
        <3>7. Parse(same)[u0] = w /\ \A u \in User \ {u0} : Parse(same)[u] = Parse(lines)[u]
            BY <3>3, <3>8, <3>9, ParseReplace
        <3> USE DEF u0
        <3> USE DEF same
        <3>4. new = same
            BY <2>2 DEF Replaced, GenerateHtpasswdLine
        <3> QED
            BY <3>3, <3>4, <3>7
    <2> QED
        BY <2>1, <2>2
<1>2. \/ Accepts(w, lines) /\ text' = [text EXCEPT ![w] = new] /\ pc' = [pc EXCEPT ![w] = "open"]
      \/ text' = text /\ pc' = [pc EXCEPT ![w] = "failed"]
    BY DEF Handle, Goto
<1> HIDE DEF new
<1>3. /\ \A x \in Req \ {w} : pc'[x] = pc[x] /\ who'[x] = who[x]
      /\ \A x \in Writers \ {w} : text'[x] = text[x]
      /\ DOMAIN text' = Writers /\ pc' \in [Req -> Step]
      /\ text'[w] \in {text[w], new}
      /\ pc'[w] \in {"open", "failed"}
      /\ pc'[w] = "open" => Accepts(w, lines) /\ text'[w] = new
      /\ pc'[w] = "failed" => text'[w] = text[w]
    BY <1>0, <1>2 DEF Step
<1>4. \A x \in Writers : text'[x] \in Seq(Line)
    BY <1>1, <1>3 DEF Typed, TypeOK
<1>5. users' \in Table
    BY <1>0, ParseTyped
<1>6. TypeOK'
    BY <1>0, <1>3, <1>4, <1>5 DEF Typed, TypeOK
<1>7. Typed'
    BY <1>0, <1>3, <1>6, MovedTyped
<1> QED
    BY <1>0, <1>1, <1>3, <1>7

\* A request that goes somewhere, or is answered.
LEMMA Moves ==
    ASSUME Typed, NEW r \in Req
    PROVE  /\ \A s \in Step : Goto(r, s) =>
                 pc' \in [Req -> Step] /\ pc'[r] = s /\ \A x \in Req \ {r} : pc'[x] = pc[x]
           /\ Done(r) =>
                 /\ pc' \in [Req -> Step] /\ who' \in [Req -> User \cup {None}]
                 /\ old' \in [Changers -> Password \cup {None}]
                 /\ pc'[r] = "done"
                 /\ \A x \in Req \ {r} : pc'[x] = pc[x] /\ who'[x] = who[x]
<1>1. pc \in [Req -> Step] /\ who \in [Req -> User \cup {None}] /\ old \in [Changers -> Password \cup {None}]
    BY DEF Typed, TypeOK
<1>2. "done" \in Step
    BY DEF Step
<1> QED
    BY <1>1, <1>2 DEF Goto, Done

\* A text that was written or given up is forgotten.
LEMMA TextDropped ==
    ASSUME Typed, NEW w \in Writers, text' = [text EXCEPT ![w] = <<>>]
    PROVE  /\ DOMAIN text' = Writers /\ \A x \in Writers : text'[x] \in Seq(Line)
           /\ \A x \in Writers \ {w} : text'[x] = text[x]
<1>1. <<>> \in Seq(Line)
    OBVIOUS
<1>2. DOMAIN text = Writers /\ \A x \in Writers : text[x] \in Seq(Line)
    BY DEF Typed, TypeOK
<1> QED
    BY <1>1, <1>2

LEMMA BeginTyped ==
    ASSUME Typed, NEW u \in User, NEW w \in Writers,
           \/ w \in Adders /\ AddUser(w, u)
           \/ w \in Changers /\ \E p \in Password : ChangePassword(w, u, p)
    PROVE  Typed'
<1>1. w \in Req /\ {"asked", "done"} \subseteq Step
    BY DEF Req, Step
<1>2. CASE w \in Adders /\ AddUser(w, u)
    <2>1. /\ UNCHANGED <<file, lock, text, secret, bare, users, seen, due, overtaken, old, accidents>>
          /\ \/ Goto(w, "asked") /\ who' = [who EXCEPT ![w] = u]
             \/ Goto(w, "done") /\ who' = who
        BY <1>2 DEF AddUser, memory
    <2>2. TypeOK'
        BY <1>1, <2>1, Moves DEF Typed, TypeOK
    <2>3. /\ \A x \in Req \ {w} : pc'[x] = pc[x] /\ who'[x] = who[x]
          /\ (pc'[w] = "asked" /\ who'[w] \in User) \/ pc'[w] = "done"
        BY <1>1, <2>1, Moves DEF Typed, TypeOK
    <2> QED
        BY <1>1, <2>1, <2>2, <2>3, MovedTyped
<1>3. CASE w \in Changers /\ \E p \in Password : ChangePassword(w, u, p)
    <2>1. PICK p \in Password :
            /\ UNCHANGED <<file, lock, text, secret, bare, users, seen, due, overtaken, accidents>>
            /\ Goto(w, "asked") /\ who' = [who EXCEPT ![w] = u] /\ old' = [old EXCEPT ![w] = p]
        BY <1>3 DEF ChangePassword, memory
    <2>2. TypeOK'
        BY <1>1, <2>1, Moves DEF Typed, TypeOK
    <2>3. /\ \A x \in Req \ {w} : pc'[x] = pc[x] /\ who'[x] = who[x]
          /\ pc'[w] = "asked" /\ who'[w] \in User
        BY <1>1, <2>1, Moves DEF Typed, TypeOK
    <2> QED
        BY <1>1, <2>1, <2>2, <2>3, MovedTyped
<1> QED
    BY <1>2, <1>3

LEMMA UpdateTyped ==
    ASSUME Typed, NEW w \in Writers, Update(w)
    PROVE  Typed'
<1>1. w \in Req /\ who[w] \in User \cup {None} /\ accidents \in Nat /\ (file = NoFile \/ file \in Seq(Line))
    BY DEF Req, Typed, TypeOK
<1>s. {"missing", "locking", "reading", "open", "writing", "written", "committed", "failed"} \subseteq Step
    BY DEF Step
<1>2. CASE Stat(w)
    <2>1. /\ UNCHANGED <<file, lock, text, secret, bare, users, seen, due, overtaken, who, old, accidents>> /\ pc[w] = "asked"
          /\ \/ Goto(w, "missing")
             \/ Goto(w, "locking") /\ file # NoFile
        BY <1>2 DEF Stat, memory, args
    <2>2. TypeOK'
        BY <1>1, <1>s, <2>1, Moves DEF Typed, TypeOK
    <2>3. /\ \A x \in Req \ {w} : pc'[x] = pc[x]
          /\ pc'[w] = "missing" \/ (pc'[w] = "locking" /\ file' \in Seq(Line))
          /\ who'[w] \in User
        BY <1>1, <1>s, <2>1, Moves DEF Typed
    <2> QED
        BY <1>1, <2>1, <2>2, <2>3, MovedTyped
<1>3. CASE Acquire(w) \/ StealLive(w) \/ GiveUp(w)
    <2>1. /\ UNCHANGED <<file, text, secret, bare, users, seen, due, overtaken, who, old>> /\ pc[w] = "locking"
          /\ Goto(w, "reading") /\ lock' \in {lock, w} /\ accidents' \in Nat
        BY <1>1, <1>3 DEF Acquire, StealLive, GiveUp, memory, args
    <2>2. TypeOK'
        BY <1>1, <1>s, <2>1, Moves DEF Typed, TypeOK
    <2>3. /\ \A x \in Req \ {w} : pc'[x] = pc[x]
          /\ pc'[w] = "reading" /\ file' \in Seq(Line)
          /\ who'[w] \in User
        BY <1>1, <1>s, <2>1, Moves DEF Typed
    <2> QED
        BY <1>1, <2>1, <2>2, <2>3, MovedTyped
<1>4. CASE Missing(w)
    <2>1. <<>> \in Seq(Line) /\ bare \in SUBSET Writers
        BY DEF Typed, TypeOK
    <2>2. Handle(w, <<>>) /\ pc[w] = "missing" /\ bare' \in SUBSET Writers
        BY <1>4, <2>1 DEF Missing
    <2> QED
        BY <2>1, <2>2, HandleTyped
<1>5. CASE Read(w)
    <2>1. file \in Seq(Line) /\ bare \in SUBSET Writers
        BY <1>5 DEF Read, Typed, TypeOK
    <2>2. Handle(w, file) /\ pc[w] = "reading" /\ bare' = bare
        BY <1>5 DEF Read
    <2> QED
        BY <2>1, <2>2, HandleTyped
<1>6. CASE ReadFail(w) \/ Answer(w)
    <2>1. /\ UNCHANGED <<file, text, bare, users, seen, due, overtaken>> /\ Done(w)
          /\ lock' \in {lock, Orphan, NoLock} /\ accidents' \in Nat
          /\ secret' = secret \/ secret' = [secret EXCEPT ![who[w]] = w]
        BY <1>1, <1>6 DEF ReadFail, Answer, memory
    <2>2. secret' \in Table
        BY <2>1 DEF Typed, TypeOK, Table, Password
    <2>3. TypeOK'
        BY <1>1, <2>1, <2>2, Moves DEF Typed, TypeOK
    <2>4. (\A x \in Req \ {w} : pc'[x] = pc[x] /\ who'[x] = who[x]) /\ pc'[w] = "done"
        BY <1>1, <2>1, Moves
    <2> QED
        BY <1>1, <2>1, <2>3, <2>4, MovedTyped
<1>7. CASE Open(w) \/ Write(w)
    <2>1. /\ UNCHANGED <<lock, secret, bare, users, seen, due, overtaken, who, old, accidents>>
          /\ \/ pc[w] = "open" /\ Goto(w, "writing") /\ file' = <<>> /\ text' = text
             \/ /\ pc[w] = "writing" /\ Goto(w, "written") /\ text' = [text EXCEPT ![w] = <<>>]
                /\ file' \in Over(text[w], file)
        BY <1>7 DEF Open, Write, memory, args
    <2>2. file' \in Seq(Line)
        <3>1. <<>> \in Seq(Line)
            OBVIOUS
        <3>2. pc[w] = "writing" => file \in Seq(Line) /\ text[w] \in Seq(Line)
            BY DEF Typed, TypeOK
        <3> QED
            BY <2>1, <3>1, <3>2, OverTyped
    <2>3. TypeOK'
        BY <1>1, <1>s, <2>1, <2>2, Moves, TextDropped DEF Typed, TypeOK
    <2>4. (\A x \in Req \ {w} : pc'[x] = pc[x]) /\ pc'[w] \in {"writing", "written"} /\ who'[w] \in User
        BY <1>1, <1>s, <2>1, Moves DEF Typed
    <2> QED
        BY <1>1, <2>1, <2>2, <2>3, <2>4, MovedTyped
<1>8. CASE WriteFail(w)
    <2>1. /\ UNCHANGED <<lock, secret, bare, users, seen, due, overtaken, who, old>> /\ accidents' \in Nat
          /\ pc[w] \in {"open", "writing"} /\ Goto(w, "failed") /\ text' = [text EXCEPT ![w] = <<>>]
          /\ file' = file \/ file' \in Begun(text[w])
        BY <1>1, <1>8 DEF WriteFail, memory, args
    <2>2. file' = file \/ file' \in Seq(Line)
        <3>1. text[w] \in Seq(Line)
            BY DEF Typed, TypeOK
        <3> QED
            BY <2>1, <3>1, BegunTyped
    <2>3. TypeOK'
        BY <1>1, <1>s, <2>1, <2>2, Moves, TextDropped DEF Typed, TypeOK
    <2>4. (\A x \in Req \ {w} : pc'[x] = pc[x]) /\ pc'[w] = "failed" /\ who'[w] \in User
        BY <1>1, <1>s, <2>1, Moves DEF Typed
    <2> QED
        BY <1>1, <2>1, <2>2, <2>3, <2>4, MovedTyped
<1>9. CASE Reload(w)
    <2>1. /\ UNCHANGED <<file, lock, text, secret, bare, seen, due, who, old, accidents>>
          /\ pc[w] = "written" /\ Goto(w, "committed") /\ users' = Assign(users, Parse(file))
          /\ overtaken' = overtaken \cup {l \in Logins : pc[l] = "seen"}
        BY <1>9 DEF Reload, args
    <2>2. file \in Seq(Line)
        BY <2>1 DEF Typed
    <2>3. users' \in Table
        BY <2>1, <2>2, ParseTyped DEF Assign, Table, Typed, TypeOK
    <2>4. TypeOK'
        BY <1>1, <1>s, <2>1, <2>3, Moves DEF Typed, TypeOK
    <2>5. (\A x \in Req \ {w} : pc'[x] = pc[x]) /\ pc'[w] = "committed" /\ who'[w] \in User
        BY <1>1, <1>s, <2>1, Moves DEF Typed
    <2> QED
        BY <1>1, <2>1, <2>2, <2>4, <2>5, MovedTyped
<1> QED
    BY <1>2, <1>3, <1>4, <1>5, <1>6, <1>7, <1>8, <1>9 DEF Update

LEMMA LoginTyped ==
    ASSUME Typed, NEW l \in Logins, (\E u \in User : LoginRead(l, u)) \/ LoginEnd(l)
    PROVE  Typed'
<1>1. l \in Req /\ {"seen", "done"} \subseteq Step
    BY DEF Req, Step
<1>2. CASE \E u \in User : LoginRead(l, u)
    <2>1. PICK u \in User : LoginRead(l, u)
        BY <1>2
    <2>2. CASE file = NoFile
        <3>1. /\ UNCHANGED <<file, lock, text, secret, bare, users, old, accidents, who, seen, due, overtaken>> /\ Goto(l, "done")
            BY <2>1, <2>2 DEF LoginRead
        <3>2. TypeOK'
            BY <1>1, <3>1, Moves DEF Typed, TypeOK
        <3>3. (\A x \in Req \ {l} : pc'[x] = pc[x]) /\ pc'[l] = "done"
            BY <1>1, <3>1, Moves
        <3> QED
            BY <1>1, <3>1, <3>2, <3>3, MovedTyped
    <2>3. CASE file # NoFile
        <3> DEFINE d == {secret[u]} \cup {w \in Writers : who[w] \in {u, None} /\ pc[w] # "done"}
        <3>1. /\ UNCHANGED <<file, lock, text, secret, bare, users, old, overtaken, accidents>> /\ Goto(l, "seen")
              /\ who' = [who EXCEPT ![l] = u]
              /\ seen' = [seen EXCEPT ![l] = Parse(file)] /\ due' = [due EXCEPT ![l] = d]
            BY <2>1, <2>3 DEF LoginRead
        <3>2. Parse(file) \in Table /\ d \in SUBSET (Password \cup {None})
            BY <2>3, ParseTyped DEF Typed, TypeOK, Password, Table
        <3> HIDE DEF d
        <3>3. TypeOK'
            BY <1>1, <3>1, <3>2, Moves DEF Typed, TypeOK
        <3>4. (\A x \in Req \ {l} : pc'[x] = pc[x] /\ who'[x] = who[x]) /\ pc'[l] = "seen" /\ who'[l] \in User
            BY <1>1, <3>1, Moves DEF Typed, TypeOK
        <3> QED
            BY <1>1, <3>1, <3>3, <3>4, MovedTyped
    <2> QED
        BY <2>2, <2>3
<1>3. CASE LoginEnd(l)
    <2>1. /\ UNCHANGED <<file, lock, text, secret, bare, overtaken, accidents>> /\ Done(l)
          /\ users' = Assign(users, seen[l])
          /\ seen' = [seen EXCEPT ![l] = Nobody] /\ due' = [due EXCEPT ![l] = {}]
        BY <1>3 DEF LoginEnd, LoginDone
    <2>2. users' \in Table /\ Nobody \in Table
        BY <2>1 DEF Assign, Nobody, Table, Typed, TypeOK
    <2>3. TypeOK'
        BY <1>1, <2>1, <2>2, Moves DEF Typed, TypeOK
    <2>4. (\A x \in Req \ {l} : pc'[x] = pc[x] /\ who'[x] = who[x]) /\ pc'[l] = "done"
        BY <1>1, <2>1, Moves
    <2> QED
        BY <1>1, <2>1, <2>3, <2>4, MovedTyped
<1> QED
    BY <1>2, <1>3

LEMMA CrashTyped ==
    ASSUME Typed, Crash
    PROVE  Typed'
<1>1. /\ UNCHANGED <<file, secret, bare, overtaken>> /\ accidents' = accidents + 1
      /\ pc' = [r \in Req |-> IF pc[r] = "idle" THEN "idle" ELSE "done"]
      /\ users' = Nobody /\ lock' \in {NoLock, Orphan}
      /\ text' = [w \in Writers |-> <<>>]
      /\ seen' = [l \in Logins |-> Nobody] /\ due' = [l \in Logins |-> {}]
      /\ who' = [r \in Req |-> None] /\ old' = [c \in Changers |-> None]
    BY DEF Crash
<1>2. Nobody \in Table /\ <<>> \in Seq(Line) /\ {"idle", "done"} \subseteq Step
    BY DEF Nobody, Table, Step
<1>3. DOMAIN text' = Writers /\ \A w \in Writers : text'[w] \in Seq(Line)
    BY <1>1, <1>2
<1>4. /\ pc' \in [Req -> Step] /\ who' \in [Req -> User \cup {None}] /\ old' \in [Changers -> Password \cup {None}]
      /\ seen' \in [Logins -> Table] /\ due' \in [Logins -> SUBSET (Password \cup {None})]
      /\ \A r \in Req : pc'[r] \in {"idle", "done"}
    BY <1>1, <1>2
<1>5. TypeOK'
    BY <1>1, <1>2, <1>3, <1>4 DEF Typed, TypeOK
<1> QED
    BY <1>4, <1>5 DEF Typed, Req, Writers

LEMMA TypedStep == Typed /\ [Next]_vars => Typed'
<1> SUFFICES ASSUME Typed, [Next]_vars PROVE Typed'
    OBVIOUS
<1>1. ASSUME NEW a \in Adders, NEW u \in User, AddUser(a, u) PROVE Typed'
    BY <1>1, BeginTyped DEF Writers
<1>2. ASSUME NEW c \in Changers, NEW u \in User, NEW p \in (Writers \ {c}) \cup {First}, ChangePassword(c, u, p)
      PROVE  Typed'
    BY <1>2, BeginTyped DEF Writers, Password
<1>3. CASE UNCHANGED vars
    BY <1>3 DEF Typed, TypeOK, vars, memory, args, Table
<1>4. CASE Crash
    BY <1>4, CrashTyped
<1> QED
    BY <1>1, <1>2, <1>3, <1>4, UpdateTyped, LoginTyped DEF Next, Finished

-----------------------------------------------------------------------------
(* What the lock keeps *)

\* The lines have the password of everybody who is registered, and nobody else.
HasAll(lines) == \A u \in User : Parse(lines)[u] = secret[u]

\* They have the new password of the request, and the others'.
HasNew(lines, w) ==
    /\ Parse(lines)[who[w]] = w
    /\ \A u \in User \ {who[w]} : Parse(lines)[u] = secret[u]

\* One request at a time is between its lock and its answer.
Locked == \A w \in Writers : pc[w] \in Inside => lock = w

\* Outside of a write the file has everybody.
Whole ==
    /\ \A u \in User : secret[u] # None => file \in Seq(Line)
    /\ file \in Seq(Line) /\ (\A w \in Writers : pc[w] \notin {"writing", "written", "committed"}) => HasAll(file)

\* What is written has the new password and everybody else.
Written ==
    \A w \in Writers :
        /\ pc[w] \in {"open", "writing"} => HasNew(text[w], w)
        /\ pc[w] = "writing" => file = <<>>
        /\ pc[w] \in {"written", "committed"} => HasNew(file, w)

\* It was asked for by somebody new, or by the owner of the password in force.
Owned ==
    \A w \in Writers :
        pc[w] \in {"open", "writing", "written", "committed"} /\ secret[who[w]] # None =>
            w \in Changers /\ old[w] = secret[who[w]]

Kept == Regular => Locked /\ Whole /\ Written /\ Owned

Inv == Typed /\ Kept

LEMMA InitKept == Init => Kept
<1> SUFFICES ASSUME Init PROVE Locked /\ Whole /\ Written /\ Owned
    BY DEF Kept
<1>1. \A w \in Writers : pc[w] = "idle"
    BY DEF Init, Req
<1>2. \A u \in User : secret[u] # None => file \in Seq(Line)
    BY TypedInit DEF Init, Nobody, Typed, TypeOK
<1>3. file \in Seq(Line) => HasAll(file)
    BY MarkAssumption DEF Init, HasAll, Line
<1> QED
    BY <1>1, <1>2, <1>3 DEF Locked, Whole, Written, Owned, Inside

\* A regular state has a regular past.
LEMMA RegularBefore ==
    ASSUME Typed, [Next]_vars, Regular'
    PROVE  Regular /\ accidents' = accidents
<1>1. accidents \in Nat /\ accidents' \in Nat /\ bare \subseteq Writers
    BY TypedStep DEF Typed, TypeOK
<1>2. accidents' \in {accidents, accidents + 1} /\ bare \subseteq bare'
    BY DEF Next, Update, AddUser, ChangePassword, Stat, Acquire, StealLive, GiveUp, Missing, Read, ReadFail, Open,
           Write, WriteFail, Reload, Answer, Handle, LoginRead, LoginEnd, LoginDone, Crash, Finished, vars
<1>3. Regular
    BY <1>1, <1>2 DEF Regular
<1> QED
    BY <1>1, <1>2, <1>3 DEF Regular

\* A step that leaves the file, the lock and the passwords alone, and moves one
\* request within its part.
LEMMA Frame ==
    ASSUME Inv, Regular, NEW r \in Req,
           UNCHANGED <<file, lock, secret>>,
           \A x \in Req \ {r} : pc'[x] = pc[x] /\ who'[x] = who[x],
           \A x \in Writers \ {r} : text'[x] = text[x],
           \A x \in Changers \ {r} : old'[x] = old[x],
           r \in Writers => pc[r] \notin Inside /\ pc'[r] \notin Inside
    PROVE  Kept'
<1>1. Locked /\ Whole /\ Written /\ Owned
    BY DEF Inv, Kept
<1>2. Writers \subseteq Req /\ Changers \subseteq Writers
    BY DEF Req, Writers
<1>3. \A x \in Writers : pc[x] \in Inside \/ pc'[x] \in Inside =>
            pc'[x] = pc[x] /\ who'[x] = who[x] /\ text'[x] = text[x] /\ (x \in Changers => old'[x] = old[x])
    BY <1>2
<1>4. {"open", "writing", "written", "committed"} \subseteq Inside
    BY DEF Inside
<1>5. ASSUME NEW x \in Writers, pc'[x] \in Inside
      PROVE  HasNew(file, x)' = HasNew(file, x) /\ HasNew(text[x], x)' = HasNew(text[x], x)
    BY <1>3, <1>5 DEF HasNew
<1>6. Locked'
    BY <1>1, <1>3 DEF Locked
<1>7. Whole'
    BY <1>1, <1>3, <1>4 DEF Whole, HasAll
<1>8. Written'
    BY <1>1, <1>3, <1>4, <1>5 DEF Written
<1>9. Owned'
    BY <1>1, <1>3, <1>4 DEF Owned
<1> QED
    BY <1>6, <1>7, <1>8, <1>9 DEF Kept

\* A step of the request that holds the lock.
LEMMA InsideStep ==
    ASSUME Inv, Regular, NEW w \in Writers, pc[w] \in Inside \/ lock \notin Writers, TypeOK',
           \A x \in Req \ {w} : pc'[x] = pc[x],
           pc'[w] \in Inside => lock' = w,
           Whole',
           pc'[w] \in {"open", "writing"} => HasNew(text[w], w)',
           pc'[w] = "writing" => file' = <<>>,
           pc'[w] \in {"written", "committed"} => HasNew(file, w)',
           pc'[w] \in {"open", "writing", "written", "committed"} /\ secret'[who'[w]] # None =>
               w \in Changers /\ old'[w] = secret'[who'[w]]
    PROVE  Kept'
<1>1. \A x \in Writers \ {w} : pc'[x] \notin Inside
    BY DEF Inv, Kept, Locked, Req, Writers
<1>2. {"open", "writing", "written", "committed"} \subseteq Inside
    BY DEF Inside
<1>3. Locked'
    BY <1>1 DEF Locked
<1>4. Written'
    BY <1>1, <1>2 DEF Written
<1>5. Owned'
    BY <1>1, <1>2 DEF Owned
<1> QED
    BY <1>3, <1>4, <1>5 DEF Kept

\* What a request may write has everybody, and replaces the owner's password.
LEMMA ReadKept ==
    ASSUME Inv, Regular, NEW w \in Writers, Read(w)
    PROVE  Kept'
<1>0. Typed /\ Locked /\ Whole /\ Written /\ Owned
    BY DEF Inv, Kept
<1>1. /\ pc[w] = "reading" /\ file \in Seq(Line) /\ lock = w /\ who[w] \in User
      /\ bare' \in SUBSET Writers /\ Handle(w, file)
    BY <1>0 DEF Read, Typed, TypeOK, Locked, Inside, Req, Writers
<1>2. HasAll(file)
    <2>1. \A x \in Writers : pc[x] \notin {"writing", "written", "committed"}
        BY <1>0, <1>1 DEF Locked, Inside
    <2> QED
        BY <1>0, <1>1, <2>1 DEF Whole
<1>3. /\ Typed' /\ UNCHANGED <<file, lock, secret, who, old, accidents>>
      /\ \A x \in Req \ {w} : pc'[x] = pc[x]
      /\ \/ pc'[w] = "failed"
         \/ /\ pc'[w] = "open" /\ Accepts(w, file)
            /\ Parse(text'[w])[who[w]] = w
            /\ \A u \in User \ {who[w]} : Parse(text'[w])[u] = Parse(file)[u]
    BY <1>0, <1>1, HandleTyped
<1>4. pc'[w] = "open" => HasNew(text[w], w)'
    BY <1>2, <1>3 DEF HasNew, HasAll
<1>5. ASSUME Accepts(w, file), secret[who[w]] # None PROVE w \in Changers /\ old[w] = secret[who[w]]
    <2>1. Parse(file)[who[w]] = secret[who[w]]
        BY <1>1, <1>2, <1>5 DEF HasAll
    <2>2. w \notin Adders
        BY <1>5, <2>1 DEF Accepts, Sane
    <2>3. \A i \in DOMAIN file : file[i].user = who[w] => old[w] = file[i].password
        BY <1>5, <2>2 DEF Accepts, VerifyPassword
    <2>4. LinesOf(file, who[w]) # {}
        BY <1>1, <1>5, <2>1, NoLine
    <2>5. old[w] = Parse(file)[who[w]]
        <3>1. /\ Max(LinesOf(file, who[w])) \in LinesOf(file, who[w])
              /\ Parse(file)[who[w]] = file[Max(LinesOf(file, who[w]))].password
            BY <1>1, <2>4, LastLine
        <3>2. \A i \in LinesOf(file, who[w]) : old[w] = file[i].password
            BY <2>3 DEF LinesOf
        <3> QED
            BY <3>1, <3>2
    <2> QED
        BY <2>1, <2>2, <2>5 DEF Writers
<1>6. Whole'
    BY <1>2, <1>3, <1>0 DEF Whole, HasAll
<1>7. TypeOK' /\ pc[w] \in Inside /\ lock' = w /\ pc'[w] \in {"open", "failed"}
    BY <1>1, <1>3 DEF Typed, Inside
<1> QED
    BY <1>3, <1>4, <1>5, <1>6, <1>7, InsideStep

LEMMA UpdateKept ==
    ASSUME Inv, Regular, TypeOK', NEW w \in Writers, Update(w), accidents' = accidents, ~Missing(w), bare = {}
    PROVE  Kept'
<1>0. Typed /\ Locked /\ Whole /\ Written /\ Owned
    BY DEF Inv, Kept
<1>1. w \in Req /\ accidents \in Nat /\ accidents # accidents + 1
    BY <1>0 DEF Req, Typed, TypeOK
<1>s. {"missing", "locking", "reading", "open", "writing", "written", "committed", "failed"} \subseteq Step
    BY DEF Step
<1>2. CASE Stat(w)
    <2>1. /\ UNCHANGED <<file, lock, text, secret, who, old>> /\ pc[w] = "asked"
          /\ Goto(w, "missing") \/ Goto(w, "locking")
        BY <1>2 DEF Stat, args
    <2>2. (\A x \in Req \ {w} : pc'[x] = pc[x]) /\ pc'[w] \in {"missing", "locking"}
        BY <1>0, <1>1, <1>s, <2>1, Moves
    <2>3. pc[w] \notin Inside /\ pc'[w] \notin Inside
        BY <2>1, <2>2 DEF Inside
    <2> QED
        BY <1>1, <2>1, <2>2, <2>3, Frame
<1>3. CASE Acquire(w)
    <2>1. /\ UNCHANGED <<file, secret>> /\ lock' = w /\ lock \in {NoLock, Orphan} /\ Goto(w, "reading")
          /\ pc[w] = "locking"
        BY <1>3 DEF Acquire
    <2>2. (\A x \in Req \ {w} : pc'[x] = pc[x]) /\ pc'[w] = "reading"
        BY <1>0, <1>1, <1>s, <2>1, Moves
    <2>3. Whole'
        BY <1>0, <1>1, <2>1, <2>2 DEF Whole, HasAll, Writers, Req
    <2>4. lock \notin Writers
        BY <2>1, MarkAssumption
    <2> QED
        BY <2>1, <2>2, <2>3, <2>4, InsideStep
<1>4. CASE Read(w)
    BY <1>4, ReadKept
<1>5. CASE Open(w)
    <2>1. /\ UNCHANGED <<lock, text, secret, who, old>> /\ pc[w] = "open" /\ Goto(w, "writing") /\ file' = <<>>
        BY <1>5 DEF Open, args
    <2>2. (\A x \in Req \ {w} : pc'[x] = pc[x]) /\ pc'[w] = "writing" /\ pc[w] \in Inside
        BY <1>0, <1>1, <1>s, <2>1, Moves DEF Inside
    <2>3. Whole'
        <3>1. <<>> \in Seq(Line)
            OBVIOUS
        <3> QED
            BY <2>1, <2>2, <3>1 DEF Whole
    <2>4. HasNew(text[w], w)'
        BY <1>0, <2>1 DEF Written, HasNew
    <2>5. lock' = w /\ (secret'[who'[w]] # None => w \in Changers /\ old'[w] = secret'[who'[w]])
        BY <1>0, <2>1, <2>2 DEF Locked, Owned
    <2> QED
        BY <2>1, <2>2, <2>3, <2>4, <2>5, InsideStep
<1>6. CASE Write(w)
    <2>1. /\ UNCHANGED <<lock, secret, who, old>> /\ pc[w] = "writing" /\ Goto(w, "written")
          /\ file' \in Over(text[w], file) /\ file = <<>> /\ text[w] \in Seq(Line)
        BY <1>0, <1>6 DEF Write, args, Written, Typed, TypeOK
    <2>2. (\A x \in Req \ {w} : pc'[x] = pc[x]) /\ pc'[w] = "written" /\ pc[w] \in Inside
        BY <1>0, <1>1, <1>s, <2>1, Moves DEF Inside
    <2>3. file' = text[w]
        <3>1. Len(file) = 0 /\ Len(text[w]) \in Nat
            BY <2>1
        <3>2. Len(file) <= Len(text[w])
            BY <3>1
        <3>3. Over(text[w], file) = {text[w]}
            BY <3>2 DEF Over
        <3> QED
            BY <2>1, <3>3
    <2>4. HasNew(file, w)'
        BY <1>0, <2>1, <2>3 DEF Written, HasNew
    <2>5. Whole'
        BY <2>1, <2>2, <2>3 DEF Whole
    <2>6. lock' = w /\ (secret'[who'[w]] # None => w \in Changers /\ old'[w] = secret'[who'[w]])
        BY <1>0, <2>1, <2>2 DEF Locked, Owned
    <2> QED
        BY <2>1, <2>2, <2>4, <2>5, <2>6, InsideStep
<1>7. CASE Reload(w)
    <2>1. /\ UNCHANGED <<file, lock, secret, who, old>> /\ pc[w] = "written" /\ Goto(w, "committed")
        BY <1>7 DEF Reload, args
    <2>2. (\A x \in Req \ {w} : pc'[x] = pc[x]) /\ pc'[w] = "committed" /\ pc[w] \in Inside
        BY <1>0, <1>1, <1>s, <2>1, Moves DEF Inside
    <2>3. HasNew(file, w)' /\ Whole'
        BY <1>0, <2>1, <2>2 DEF Written, HasNew, Whole
    <2>4. lock' = w /\ (secret'[who'[w]] # None => w \in Changers /\ old'[w] = secret'[who'[w]])
        BY <1>0, <2>1, <2>2 DEF Locked, Owned
    <2> QED
        BY <2>1, <2>2, <2>3, <2>4, InsideStep
<1>8. CASE Answer(w)
    <2>1. /\ file' = file /\ pc[w] \in {"committed", "failed"} /\ Done(w)
          /\ secret' = IF pc[w] = "committed" THEN [secret EXCEPT ![who[w]] = w] ELSE secret
        BY <1>8 DEF Answer
    <2>2. (\A x \in Req \ {w} : pc'[x] = pc[x]) /\ pc'[w] = "done" /\ pc[w] \in Inside
        BY <1>0, <1>1, <2>1, Moves DEF Inside
    <2>3. Whole'
        <3>1. \A x \in Writers \ {w} : pc[x] \notin Inside
            BY <1>0, <2>2 DEF Locked
        <3>2. CASE pc[w] = "committed"
            <4>1. HasNew(file, w) /\ file \in Seq(Line) /\ secret \in Table /\ who[w] \in User
                BY <1>0, <1>1, <3>2 DEF Written, Typed, TypeOK
            <4>2. HasAll(file)'
                BY <2>1, <3>2, <4>1 DEF HasNew, HasAll, Table
            <4> QED
                BY <2>1, <4>1, <4>2 DEF Whole
        <3>3. CASE pc[w] = "failed"
            <4>1. \A x \in Writers : pc[x] \notin {"writing", "written", "committed"}
                BY <3>1, <3>3 DEF Inside
            <4> QED
                BY <1>0, <2>1, <3>3, <4>1 DEF Whole, HasAll
        <3> QED
            BY <2>1, <3>2, <3>3
    <2>4. pc'[w] \notin Inside
        BY <2>2 DEF Inside
    <2>5. pc'[w] \notin {"open", "writing", "written", "committed"}
        BY <2>2
    <2> QED
        BY <2>2, <2>3, <2>4, <2>5, InsideStep
<1>9. ~(StealLive(w) \/ GiveUp(w) \/ ReadFail(w) \/ WriteFail(w))
    BY <1>1 DEF StealLive, GiveUp, ReadFail, WriteFail
<1> QED
    BY <1>2, <1>3, <1>4, <1>5, <1>6, <1>7, <1>8, <1>9 DEF Update

LEMMA KeptStep == Inv /\ [Next]_vars => Kept'
<1> SUFFICES ASSUME Inv, [Next]_vars, Regular' PROVE Kept'
    BY DEF Kept
<1>1. Typed /\ Typed' /\ TypeOK' /\ Regular /\ accidents' = accidents /\ bare = {}
    BY TypedStep, RegularBefore DEF Inv, Typed, Regular
<1>2. ASSUME NEW a \in Adders, NEW u \in User, AddUser(a, u) PROVE Kept'
    <2>1. /\ UNCHANGED <<file, lock, text, secret, old>> /\ pc[a] = "idle" /\ a \in Req /\ a \in Writers
          /\ \/ Goto(a, "asked") /\ who' = [who EXCEPT ![a] = u]
             \/ Goto(a, "done") /\ who' = who
          /\ {"asked", "done"} \subseteq Step
        BY <1>2 DEF AddUser, Req, Writers, Step
    <2>2. \A x \in Req \ {a} : pc'[x] = pc[x] /\ who'[x] = who[x]
        BY <1>1, <2>1, Moves DEF Typed, TypeOK
    <2>3. pc[a] \notin Inside /\ pc'[a] \notin Inside
        BY <1>1, <2>1, Moves DEF Inside
    <2> QED
        BY <1>1, <2>1, <2>2, <2>3, Frame
<1>3. ASSUME NEW c \in Changers, NEW u \in User, NEW p \in (Writers \ {c}) \cup {First}, ChangePassword(c, u, p)
      PROVE  Kept'
    <2>1. /\ UNCHANGED <<file, lock, text, secret>> /\ pc[c] = "idle" /\ c \in Req /\ c \in Writers
          /\ Goto(c, "asked") /\ who' = [who EXCEPT ![c] = u] /\ old' = [old EXCEPT ![c] = p]
          /\ "asked" \in Step
        BY <1>3 DEF ChangePassword, Req, Writers, Step
    <2>2. /\ \A x \in Req \ {c} : pc'[x] = pc[x] /\ who'[x] = who[x]
          /\ \A x \in Changers \ {c} : old'[x] = old[x]
        BY <1>1, <2>1, Moves DEF Typed, TypeOK
    <2>3. pc[c] \notin Inside /\ pc'[c] \notin Inside
        BY <1>1, <2>1, Moves DEF Inside
    <2> QED
        BY <1>1, <2>1, <2>2, <2>3, Frame
<1>4. ASSUME NEW l \in Logins, (\E u \in User : LoginRead(l, u)) \/ LoginEnd(l) PROVE Kept'
    <2>1. l \in Req /\ l \notin Writers /\ {"seen", "done"} \subseteq Step
        BY RequestAssumption DEF Req, Step
    <2>2. CASE \E u \in User : LoginRead(l, u)
        <3>1. PICK u \in User :
                /\ UNCHANGED <<file, lock, text, secret, old>>
                /\ \/ Goto(l, "done") /\ who' = who
                   \/ Goto(l, "seen") /\ who' = [who EXCEPT ![l] = u]
            BY <2>2 DEF LoginRead
        <3>2. \A x \in Req \ {l} : pc'[x] = pc[x] /\ who'[x] = who[x]
            BY <1>1, <2>1, <3>1, Moves DEF Typed, TypeOK
        <3> QED
            BY <1>1, <2>1, <3>1, <3>2, Frame
    <2>3. CASE LoginEnd(l)
        <3>1. UNCHANGED <<file, lock, text, secret>> /\ Done(l)
            BY <2>3 DEF LoginEnd, LoginDone
        <3>2. (\A x \in Req \ {l} : pc'[x] = pc[x] /\ who'[x] = who[x])
            BY <1>1, <2>1, <3>1, Moves
        <3>3. \A x \in Changers \ {l} : old'[x] = old[x]
            BY <3>1 DEF Done, Typed, TypeOK
        <3> QED
            BY <1>1, <2>1, <3>1, <3>2, <3>3, Frame
    <2> QED
        BY <1>4, <2>2, <2>3
<1>5. ASSUME NEW w \in Writers, Update(w) PROVE Kept'
    <2>1. ~Missing(w)
        <3>1. pc[w] = "missing" \/ ~Missing(w)
            BY DEF Missing
        <3> QED
            BY <1>1, <3>1 DEF Missing, Regular
    <2> QED
        BY <1>1, <1>5, <2>1, UpdateKept
<1>6. CASE UNCHANGED vars
    BY <1>1, <1>6 DEF Inv, Kept, Locked, Whole, Written, Owned, HasAll, HasNew, vars, args
<1>7. ~Crash
    BY <1>1 DEF Crash, Typed, TypeOK
<1> QED
    BY <1>2, <1>3, <1>4, <1>5, <1>6, <1>7 DEF Next, Finished

LEMMA Invariance == Spec => []Inv
<1>1. Init => Inv
    BY TypedInit, InitKept DEF Inv
<1>2. Inv /\ [Next]_vars => Inv'
    BY TypedStep, KeptStep DEF Inv
<1> QED
    BY <1>1, <1>2, PTL DEF Spec

\* The types of the variables.
THEOREM TypeCorrect == Spec => []TypeOK
<1>1. Inv => TypeOK
    BY DEF Inv, Typed
<1> QED
    BY <1>1, Invariance, PTL

\* As long as every request that wrote had the lock and nothing failed, whoever
\* was answered with success is in the password file with that password, or
\* with one that is about to be answered.
THEOREM RegisteredStay == Spec => []RegisteredKept
<1>1. Inv => RegisteredKept
    <2> SUFFICES ASSUME Inv, Regular, \A w \in Writers : pc[w] # "writing",
                        NEW u \in User, secret[u] # None
                 PROVE  Parse(file)[u] \in {secret[u]} \cup {w \in Writers : pc[w] \in {"written", "committed"}}
        BY DEF RegisteredKept
    <2>1. Whole /\ Written /\ file \in Seq(Line)
        BY DEF Inv, Kept, Whole
    <2>2. CASE \E w \in Writers : pc[w] \in {"written", "committed"}
        <3>1. PICK w \in Writers : pc[w] \in {"written", "committed"}
            BY <2>2
        <3>2. HasNew(file, w)
            BY <2>1, <3>1 DEF Written
        <3>3. CASE u = who[w]
            BY <3>1, <3>2, <3>3 DEF HasNew
        <3>4. CASE u # who[w]
            BY <3>2, <3>4 DEF HasNew
        <3> QED
            BY <3>3, <3>4
    <2>3. CASE ~\E w \in Writers : pc[w] \in {"written", "committed"}
        <3>1. HasAll(file)
            BY <2>1, <2>3 DEF Whole
        <3> QED
            BY <3>1 DEF HasAll
    <2> QED
        BY <2>2, <2>3
<1> QED
    BY <1>1, Invariance, PTL

\* A registered user gets another password only from a request that gave the
\* one in force, however many requests register or change it at once.
THEOREM OwnerOnly == Spec => OnlyByOwner
<1>1. Inv /\ [Next]_vars => [Regular => \A u \in User :
            secret[u] # None /\ secret'[u] # secret[u] =>
                secret'[u] \in Changers /\ old[secret'[u]] = secret[u]]_vars
    <2> SUFFICES ASSUME Inv, [Next]_vars, Regular, NEW u \in User, secret[u] # None, secret'[u] # secret[u]
                 PROVE  secret'[u] \in Changers /\ old[secret'[u]] = secret[u]
        OBVIOUS
    <2>1. \E w \in Writers : Answer(w)
        BY DEF Next, Update, AddUser, ChangePassword, Stat, Acquire, StealLive, GiveUp, Missing, Read, ReadFail, Open,
               Write, WriteFail, Reload, Handle, LoginRead, LoginEnd, LoginDone, Crash, Finished, vars
    <2>2. PICK w \in Writers : Answer(w)
        BY <2>1
    <2>3. pc[w] = "committed" /\ secret' = [secret EXCEPT ![who[w]] = w]
        BY <2>2 DEF Answer
    <2>4. u = who[w] /\ secret'[u] = w
        BY <2>3 DEF Inv, Typed, TypeOK, Table
    <2>5. Owned
        BY DEF Inv, Kept
    <2> QED
        BY <2>3, <2>4, <2>5 DEF Owned
<1> QED
    BY <1>1, Invariance, PTL DEF Spec, OnlyByOwner


-----------------------------------------------------------------------------
(* What is in memory, as long as no login has ended that a change had overtaken *)

NoneStale == \A m \in overtaken : pc[m] # "done"

\* A password of v that is in force, or of a change that comes into force.
Fresh(v, p) ==
    \/ p = None
    \/ p = secret[v] /\ ~\E w \in Writers : pc[w] = "committed" /\ who[w] = v
    \/ \E w \in Writers : pc[w] \in {"written", "committed"} /\ who[w] = v /\ p = w

\* Such passwords are in memory; the ones in force while a request rewrites the
\* file, which a login may find empty.
Remembers ==
    /\ \A v \in User : Fresh(v, users[v])
    /\ \A w \in Writers :
        /\ pc[w] \in {"open", "writing"} => \A v \in User : users[v] = secret[v]
        /\ pc[w] = "written" => \A v \in User : users[v] = secret[v] \/ (v = who[w] /\ users[v] = w)

\* And such have been read by a login that no change has overtaken.
SeenFresh == \A m \in Logins \ overtaken : pc[m] = "seen" => \A v \in User : Fresh(v, seen[m][v])

Recalls == NoneStale => Remembers /\ SeenFresh

\* Requests about v that were not answered, or may still be about v.
About(w, v) == pc[w] # "done" /\ who[w] \in {v, None}

\* A login may accept the password in force, any that was being set when it read
\* the file, and so what it read or, if it read none, what is in memory.
MayAccept(l, v) ==
    /\ secret[v] \in due[l] /\ \A w \in Writers : About(w, v) => w \in due[l]
    /\ seen[l][v] # None => seen[l][v] \in due[l]
    /\ seen[l][v] = None /\ NoneStale => users[v] \in due[l]
Accepted == \A l \in Logins : pc[l] = "seen" => MayAccept(l, who[l])

\* A request that did not begin is about nobody yet.
Unasked == \A r \in Req : pc[r] = "idle" => who[r] = None

Memory == Unasked /\ (Regular => Recalls /\ Accepted)

\* It is enough to look at the user that each login is about.
LEMMA AcceptedBy ==
    (\A l \in Logins : pc'[l] = "seen" =>
        who'[l] \in User /\ \A v \in User : v = who'[l] => MayAccept(l, v)') => Accepted'
BY DEF Accepted, MayAccept, About

\* The steps of a writer put nothing in memory or in force but what was there, or
\* its own password.
LEMMA WriterAccepted ==
    ASSUME Typed, Accepted, NEW w \in Writers, UNCHANGED <<seen, due>>, NoneStale' => NoneStale,
           \A x \in Req \ {w} : pc'[x] = pc[x] /\ who'[x] = who[x],
           \A v \in User :
               /\ secret'[v] = secret[v] \/ (secret'[v] = w /\ About(w, v))
               /\ NoneStale' => users'[v] \in {users[v], secret[v]} \/ (users'[v] = w /\ About(w, v))
               /\ About(w, v)' => About(w, v)
    PROVE  Accepted'
<1>1. ASSUME NEW l \in Logins, NEW v \in User, pc[l] = "seen", v = who[l] PROVE MayAccept(l, v)'
    <2>1. MayAccept(l, v)
        BY <1>1 DEF Accepted
    <2>2. \A x \in Writers : About(x, v)' => About(x, v)
        BY DEF About, Req
    <2> QED
        BY <2>1, <2>2 DEF MayAccept
<1>2. ASSUME NEW l \in Logins, pc'[l] = "seen"
      PROVE  \A v \in User : v = who'[l] => MayAccept(l, v)'
    <2>1. pc[l] = "seen" /\ who'[l] = who[l]
        BY <1>2, RequestAssumption DEF Req
    <2> QED
        BY <1>1, <2>1
<1>3. ASSUME NEW l \in Logins, pc'[l] = "seen" PROVE who'[l] \in User
    BY <1>3, RequestAssumption DEF Typed, Req
<1> QED
    BY <1>2, <1>3, AcceptedBy

\* A step before the text is written, and that step itself, leave what is fresh.
LEMMA FreshStays ==
    ASSUME NEW w \in Writers, secret' = secret,
           \A x \in Writers \ {w} : pc'[x] = pc[x] /\ who'[x] = who[x],
           pc[w] \notin {"written", "committed"}, pc'[w] # "committed",
           NEW v, NEW p, Fresh(v, p)
    PROVE  Fresh(v, p)'
BY DEF Fresh

\* A step that neither begins nor ends a write and leaves what is in memory.
LEMMA WriterFrame ==
    ASSUME Inv, Recalls, Accepted, NEW w \in Writers, UNCHANGED <<users, secret, seen, due, overtaken>>,
           NoneStale' => NoneStale,
           \A x \in Req \ {w} : pc'[x] = pc[x] /\ who'[x] = who[x],
           pc[w] \notin {"written", "committed"}, pc'[w] # "committed",
           pc'[w] \in {"open", "writing", "written"} => pc[w] \in {"open", "writing"},
           \A v \in User : About(w, v)' => About(w, v)
    PROVE  Recalls' /\ Accepted'
<1>1. Accepted'
    BY WriterAccepted DEF Inv
<1>2. /\ \A x \in Writers : x # w => pc'[x] = pc[x] /\ who'[x] = who[x]
      /\ \A m \in Logins : pc'[m] = pc[m]
    BY RequestAssumption DEF Req
<1>3. ASSUME NEW v, NEW p, Fresh(v, p) PROVE Fresh(v, p)'
    BY <1>2, <1>3, FreshStays
<1>4. ASSUME NoneStale' PROVE Remembers'
    <2>1. Remembers
        BY <1>4 DEF Recalls
    <2>2. \A v \in User : Fresh(v, users[v])'
        <3> SUFFICES ASSUME NEW v \in User PROVE Fresh(v, users[v])'
            OBVIOUS
        <3>1. PICK p : p = users[v] /\ Fresh(v, p)
            BY <2>1 DEF Remembers
        <3>2. Fresh(v, p)' /\ users'[v] = p
            BY <1>3, <3>1
        <3> QED
            BY <3>2 DEF Fresh
    <2> QED
        BY <1>2, <2>1, <2>2 DEF Remembers
<1>5. ASSUME NoneStale' PROVE SeenFresh'
    <2>1. SeenFresh
        BY <1>5 DEF Recalls
    <2> SUFFICES ASSUME NEW m \in Logins \ overtaken, pc'[m] = "seen", NEW v \in User PROVE Fresh(v, seen[m][v])'
        BY DEF SeenFresh
    <2>2. PICK p : p = seen[m][v] /\ Fresh(v, p)
        BY <1>2, <2>1 DEF SeenFresh
    <2>3. Fresh(v, p)' /\ seen'[m][v] = p
        BY <1>3, <2>2
    <2> QED
        BY <2>3 DEF Fresh
<1> QED
    BY <1>1, <1>4, <1>5 DEF Recalls

LEMMA UpdateRemembers ==
    ASSUME Inv, Inv', Regular, Recalls, Accepted, NEW w \in Writers, Update(w),
           accidents' = accidents, ~Missing(w), bare = {}, NoneStale' => NoneStale
    PROVE  Recalls' /\ Accepted'
<1>0. Typed /\ Locked /\ Whole /\ Written
    BY DEF Inv, Kept
<1>1. w \in Req /\ accidents \in Nat /\ accidents # accidents + 1 /\ None \notin Writers
    BY <1>0, MarkAssumption DEF Req, Typed, TypeOK, Password
<1>s. {"missing", "locking", "reading", "open", "writing", "written", "committed", "failed"} \subseteq Step
    BY DEF Step
<1>l. \A m \in Logins : m \in Req /\ m # w
    BY RequestAssumption DEF Req
<1>2. CASE Stat(w) \/ Acquire(w) \/ Open(w) \/ Write(w)
    <2>1. /\ UNCHANGED <<users, secret, seen, due, who, overtaken>>
          /\ \/ pc[w] = "asked" /\ (Goto(w, "missing") \/ Goto(w, "locking"))
             \/ pc[w] = "locking" /\ Goto(w, "reading")
             \/ pc[w] = "open" /\ Goto(w, "writing")
             \/ pc[w] = "writing" /\ Goto(w, "written")
        BY <1>2 DEF Stat, Acquire, Open, Write, memory, args
    <2>2. /\ \A x \in Req \ {w} : pc'[x] = pc[x] /\ who'[x] = who[x]
          /\ pc[w] \notin {"written", "committed"} /\ pc'[w] # "committed" /\ pc[w] # "done"
          /\ pc'[w] \in {"open", "writing", "written"} => pc[w] \in {"open", "writing"}
        BY <1>0, <1>1, <1>s, <2>1, Moves
    <2>3. \A v \in User : About(w, v)' => About(w, v)
        BY <2>1, <2>2 DEF About
    <2> QED
        BY <2>1, <2>2, <2>3, WriterFrame
<1>3. CASE Read(w)
    <2>1. /\ pc[w] = "reading" /\ file \in Seq(Line) /\ users' = Parse(file)
          /\ UNCHANGED <<secret, seen, due, who, overtaken>>
          /\ Goto(w, "open") \/ Goto(w, "failed")
        BY <1>0, <1>3 DEF Read, Handle, args, Typed
    <2>2. (\A x \in Req \ {w} : pc'[x] = pc[x] /\ who'[x] = who[x]) /\ pc'[w] \in {"open", "failed"}
        BY <1>0, <1>1, <1>s, <2>1, Moves
    <2>3. \A x \in Writers : x # w => pc[x] \notin Inside /\ pc'[x] \notin Inside
        BY <1>0, <2>1, <2>2 DEF Locked, Inside, Req
    <2>4. \A v \in User : users'[v] = secret[v]
        BY <1>0, <2>1, <2>3 DEF Whole, HasAll, Inside
    <2>5. \A v \in User : About(w, v)' => About(w, v)
        BY <2>1 DEF About
    <2>6. Accepted'
        BY <1>0, <2>1, <2>2, <2>4, <2>5, WriterAccepted
    <2>7. Remembers'
        BY <2>1, <2>2, <2>3, <2>4 DEF Remembers, Fresh, Inside
    <2>8. NoneStale' => SeenFresh'
        BY <1>l, <2>1, <2>2, <2>3 DEF Recalls, SeenFresh, Fresh, Inside
    <2> QED
        BY <2>6, <2>7, <2>8 DEF Recalls
<1>4. CASE Reload(w)
    <2>1. /\ pc[w] = "written" /\ users' = Assign(users, Parse(file)) /\ Goto(w, "committed")
          /\ UNCHANGED <<secret, seen, due, who>> /\ who[w] \in User
          /\ overtaken' = overtaken \cup {l \in Logins : pc[l] = "seen"}
        BY <1>0, <1>1, <1>4 DEF Reload, args, Typed
    <2>2. (\A x \in Req \ {w} : pc'[x] = pc[x] /\ who'[x] = who[x]) /\ pc'[w] = "committed"
        BY <1>0, <1>1, <1>s, <2>1, Moves
    <2>3. \A x \in Writers : x # w => pc[x] \notin Inside /\ pc'[x] \notin Inside
        BY <1>0, <2>1, <2>2 DEF Locked, Inside, Req
    <2>4. HasNew(file, w) /\ (NoneStale' => \A v \in User \ {who[w]} : users[v] = secret[v])
        BY <1>0, <2>1 DEF Written, Recalls, Remembers
    <2>5. NoneStale' => \A v \in User : users'[v] = IF v = who[w] THEN w ELSE secret[v]
        BY <1>1, <2>1, <2>4 DEF HasNew, Assign
    <2>6. \A v \in User : /\ NoneStale' => users'[v] \in {users[v], secret[v]} \/ (users'[v] = w /\ About(w, v))
                          /\ About(w, v)' => About(w, v)
        BY <2>1, <2>5 DEF About
    <2>7. Accepted'
        BY <1>0, <2>1, <2>2, <2>6, WriterAccepted
    <2>8. NoneStale' => Remembers'
        BY <2>1, <2>2, <2>3, <2>5 DEF Remembers, Fresh, Inside
    <2>9. SeenFresh'
        BY <1>l, <2>1, <2>2 DEF SeenFresh
    <2> QED
        BY <2>7, <2>8, <2>9 DEF Recalls
<1>5. CASE Answer(w)
    <2>1. /\ pc[w] \in {"committed", "failed"} /\ UNCHANGED <<users, seen, due, overtaken>> /\ Done(w) /\ who[w] \in User
          /\ secret' = IF pc[w] = "committed" THEN [secret EXCEPT ![who[w]] = w] ELSE secret
        BY <1>0, <1>1, <1>5 DEF Answer, memory, Typed
    <2>2. (\A x \in Req \ {w} : pc'[x] = pc[x] /\ who'[x] = who[x]) /\ pc'[w] = "done"
        BY <1>0, <1>1, <2>1, Moves
    <2>3. \A x \in Writers : x # w => pc[x] \notin Inside /\ pc'[x] \notin Inside
        BY <1>0, <2>1, <2>2 DEF Locked, Inside, Req
    <2>4. \A v \in User : secret'[v] = IF pc[w] = "committed" /\ v = who[w] THEN w ELSE secret[v]
        BY <1>0, <2>1 DEF Typed, TypeOK, Table
    <2>5. \A v \in User : /\ secret'[v] = secret[v] \/ (secret'[v] = w /\ About(w, v))
                          /\ About(w, v)' => About(w, v)
        BY <2>1, <2>2, <2>4 DEF About
    <2>6. Accepted'
        BY <1>0, <2>1, <2>2, <2>5, WriterAccepted
    \* What was fresh is none, or now in force.
    <2>7. ASSUME NEW v \in User, NEW p, Fresh(v, p) PROVE p \in {None, secret'[v]}
        <3>1. CASE pc[w] = "committed" /\ v = who[w]
            BY <2>3, <2>4, <2>7, <3>1 DEF Fresh, Inside
        <3>2. CASE ~(pc[w] = "committed" /\ v = who[w])
            BY <2>1, <2>3, <2>4, <2>7, <3>2 DEF Fresh, Inside
        <3> QED
            BY <3>1, <3>2
    <2>8. \A x \in Writers : pc'[x] \notin {"open", "writing", "written", "committed"}
        BY <2>2, <2>3 DEF Inside
    <2>9. ASSUME NEW v \in User, NEW p, p \in {None, secret'[v]} PROVE Fresh(v, p)'
        BY <2>8, <2>9 DEF Fresh
    <2>10. NoneStale' => Remembers'
        <3> SUFFICES ASSUME NoneStale' PROVE \A v \in User : Fresh(v, users[v])'
            BY <2>8 DEF Remembers
        <3> SUFFICES ASSUME NEW v \in User PROVE Fresh(v, users[v])'
            OBVIOUS
        <3>1. users[v] \in {None, secret'[v]}
            BY <2>7 DEF Recalls, Remembers
        <3> QED
            BY <2>1, <2>8, <3>1 DEF Fresh
    <2>11. NoneStale' => SeenFresh'
        <3> SUFFICES ASSUME NoneStale', NEW m \in Logins \ overtaken, pc'[m] = "seen", NEW v \in User
                     PROVE  Fresh(v, seen[m][v])'
            BY <2>1 DEF SeenFresh
        <3>1. pc[m] = "seen"
            BY <1>l, <2>2
        <3>2. seen[m][v] \in {None, secret'[v]}
            BY <2>7, <3>1 DEF Recalls, SeenFresh
        <3> QED
            BY <2>1, <2>8, <3>2 DEF Fresh
    <2> QED
        BY <2>6, <2>10, <2>11 DEF Recalls
<1>9. ~(StealLive(w) \/ GiveUp(w) \/ ReadFail(w) \/ WriteFail(w))
    BY <1>1 DEF StealLive, GiveUp, ReadFail, WriteFail
<1> QED
    BY <1>2, <1>3, <1>4, <1>5, <1>9 DEF Update

\* What a login reads is fresh: a password in force or about to be, and none when
\* it finds the file empty for a change.
LEMMA FreshRead ==
    ASSUME Inv, Regular, file \in Seq(Line), NEW v \in User
    PROVE  Fresh(v, Parse(file)[v])
<1>0. Locked /\ Whole /\ Written
    BY DEF Inv, Kept
<1>1. CASE \E w \in Writers : pc[w] = "writing"
    <2>1. file = <<>>
        BY <1>0, <1>1 DEF Written
    <2>2. LinesOf(file, v) = {}
        BY <2>1 DEF LinesOf
    <2> QED
        BY <2>2, NoLine DEF Fresh
<1>2. CASE \E w \in Writers : pc[w] \in {"written", "committed"}
    <2>1. PICK w \in Writers : pc[w] \in {"written", "committed"} /\ HasNew(file, w)
        BY <1>0, <1>2 DEF Written
    <2>2. \A x \in Writers : pc[x] = "committed" => x = w
        BY <1>0, <2>1 DEF Locked, Inside
    <2> QED
        BY <2>1, <2>2 DEF HasNew, Fresh
<1>3. CASE \A w \in Writers : pc[w] \notin {"writing", "written", "committed"}
    BY <1>0, <1>3 DEF Whole, HasAll, Fresh
<1> QED
    BY <1>1, <1>2, <1>3

\* What is fresh may be accepted.
LEMMA FreshAccepted ==
    ASSUME NEW l \in Logins, NEW v, NEW p, Fresh(v, p), p # None,
           secret[v] \in due[l], \A w \in Writers : About(w, v) => w \in due[l]
    PROVE  p \in due[l]
BY DEF Fresh, About

\* A login that begins.
LEMMA LoginReads ==
    ASSUME Inv, Regular, Recalls, Accepted, NEW l \in Logins, NEW u \in User, LoginRead(l, u),
           NoneStale' => NoneStale
    PROVE  Recalls' /\ Accepted'
<1>0. Typed /\ pc \in [Req -> Step]
    BY DEF Inv, Typed, TypeOK
<1>1. l \in Req /\ l \notin Writers /\ {"done", "seen"} \subseteq Step
    BY RequestAssumption DEF Req, Step
<1>2. UNCHANGED <<users, secret, overtaken>>
    BY DEF LoginRead
<1>3. /\ \A x \in Req \ {l} : pc'[x] = pc[x]
      /\ \A x \in Writers : pc'[x] = pc[x]
    BY <1>0, <1>1, Moves DEF LoginRead, Req
<1>4. CASE file = NoFile
    <2>1. UNCHANGED <<who, seen, due>> /\ pc'[l] = "done"
        BY <1>0, <1>1, <1>4, Moves DEF LoginRead
    <2>2. \A m \in Logins : pc'[m] = "seen" => pc[m] = "seen"
        BY <1>3, <2>1 DEF Req
    <2>3. Recalls'
        BY <1>2, <1>3, <2>1, <2>2 DEF Recalls, Remembers, SeenFresh, Fresh
    <2>4. ASSUME NEW m \in Logins, pc'[m] = "seen" PROVE MayAccept(m, who[m])'
        <3>1. MayAccept(m, who[m])
            BY <2>2, <2>4 DEF Accepted
        <3> QED
            BY <1>2, <1>3, <2>1, <3>1 DEF MayAccept, About
    <2> QED
        BY <2>3, <2>4 DEF Accepted
<1>5. CASE file # NoFile
    <2>1. /\ UNCHANGED <<users, secret, overtaken>> /\ file \in Seq(Line) /\ pc'[l] = "seen"
          /\ who' = [who EXCEPT ![l] = u] /\ seen' = [seen EXCEPT ![l] = Parse(file)]
          /\ due' = [due EXCEPT ![l] = {secret[u]} \cup {w \in Writers : who[w] \in {u, None} /\ pc[w] # "done"}]
        BY <1>0, <1>1, <1>5, Moves DEF LoginRead, Typed, TypeOK
    <2>2. /\ \A x \in Req \ {l} : who'[x] = who[x]
          /\ \A m \in Logins \ {l} : seen'[m] = seen[m] /\ due'[m] = due[m] /\ pc'[m] = pc[m]
          /\ who'[l] = u /\ seen'[l] = Parse(file)
          /\ due'[l] = {secret[u]} \cup {w \in Writers : who[w] \in {u, None} /\ pc[w] # "done"}
        BY <1>0, <1>1, <1>3, <2>1 DEF Typed, TypeOK, Req
    <2>3. \A w \in Writers : pc'[w] = pc[w] /\ who'[w] = who[w]
        BY <1>1, <1>3, <2>2 DEF Req
    <2>4. Recalls'
        <3>1. \A v, p : Fresh(v, p) => Fresh(v, p)'
            BY <2>1, <2>3 DEF Fresh
        <3>2. NoneStale' => Remembers'
            BY <2>1, <2>3, <3>1 DEF Recalls, Remembers, Fresh
        <3>3. NoneStale' => SeenFresh'
            <4> SUFFICES ASSUME NoneStale', NEW m \in Logins \ overtaken, pc'[m] = "seen", NEW v \in User
                         PROVE  Fresh(v, seen[m][v])'
                BY <2>1 DEF SeenFresh
            <4>1. CASE m = l
                <5>1. Fresh(v, Parse(file)[v])
                    BY <2>1, FreshRead
                <5> QED
                    BY <2>1, <2>2, <2>3, <4>1, <5>1 DEF Fresh
            <4>2. CASE m # l
                <5>1. Fresh(v, seen[m][v])
                    BY <2>2, <4>2 DEF Recalls, SeenFresh
                <5> QED
                    BY <2>1, <2>2, <2>3, <4>2, <5>1 DEF Fresh
            <4> QED
                BY <4>1, <4>2
        <3> QED
            BY <3>2, <3>3 DEF Recalls
    <2>5. secret[u] \in due'[l] /\ \A w \in Writers : About(w, u) => w \in due'[l]
        BY <2>2 DEF About
    <2>6. ASSUME NEW p, Fresh(u, p) PROVE p # None => p \in due'[l]
        BY <2>5, <2>6 DEF Fresh, About
    <2>7. Parse(file)[u] # None => Parse(file)[u] \in due'[l]
        BY <2>1, <2>6, FreshRead
    \* Who is not in the file is nobody yet, or is not there for a change.
    <2>8. Parse(file)[u] = None /\ NoneStale' => users[u] \in due'[l]
        <3> SUFFICES ASSUME Parse(file)[u] = None, NoneStale', users[u] = None PROVE users[u] \in due'[l]
            BY <2>6 DEF Recalls, Remembers
        <3>1. CASE \E w \in Writers : pc[w] = "writing"
            BY <2>5, <3>1 DEF Recalls, Remembers
        <3>2. CASE \E w \in Writers : pc[w] \in {"written", "committed"}
            <4>1. PICK w \in Writers : pc[w] \in {"written", "committed"} /\ HasNew(file, w)
                BY <3>2 DEF Inv, Kept, Written
            <4>2. None \notin Writers
                BY MarkAssumption DEF Password
            <4> QED
                BY <2>5, <4>1, <4>2 DEF HasNew
        <3>3. CASE \A w \in Writers : pc[w] \notin {"writing", "written", "committed"}
            BY <2>1, <2>5, <3>3 DEF Inv, Kept, Whole, HasAll
        <3> QED
            BY <3>1, <3>2, <3>3
    <2>9. MayAccept(l, u)'
        BY <2>1, <2>2, <2>3, <2>7, <2>8 DEF MayAccept, About
    <2>10. ASSUME NEW m \in Logins, m # l, pc'[m] = "seen", NEW v \in User, v = who'[m] PROVE MayAccept(m, v)'
        <3>1. pc[m] = "seen" /\ who'[m] = who[m] /\ seen'[m] = seen[m] /\ due'[m] = due[m]
            BY <2>2, <2>10 DEF Req
        <3>2. MayAccept(m, v)
            BY <2>10, <3>1 DEF Accepted
        <3> QED
            BY <2>1, <2>3, <3>1, <3>2 DEF MayAccept, About
    <2>11. \A m \in Logins : pc'[m] = "seen" => who'[m] \in User
        BY <1>0, <2>2 DEF Typed, Req
    <2> QED
        BY <2>2, <2>4, <2>9, <2>10, <2>11, AcceptedBy
<1> QED
    BY <1>4, <1>5

\* A login that ends: what it read joins what is in memory.
LEMMA LoginEnds ==
    ASSUME Inv, Regular, Recalls, Accepted, NEW l \in Logins, LoginEnd(l), NoneStale' => NoneStale
    PROVE  Recalls' /\ Accepted'
<1>0. Typed /\ Locked
    BY DEF Inv, Kept
<1>1. /\ l \in Req /\ l \notin Writers /\ pc[l] = "seen" /\ Done(l) /\ UNCHANGED <<secret, overtaken>>
      /\ users' = Assign(users, seen[l])
      /\ seen' = [seen EXCEPT ![l] = Nobody] /\ due' = [due EXCEPT ![l] = {}]
    BY RequestAssumption DEF LoginEnd, LoginDone, Req
<1>2. /\ pc'[l] = "done"
      /\ \A w \in Writers : pc'[w] = pc[w] /\ who'[w] = who[w]
      /\ \A m \in Logins \ {l} : pc'[m] = pc[m] /\ who'[m] = who[m] /\ seen'[m] = seen[m] /\ due'[m] = due[m]
    BY <1>0, <1>1, Moves DEF Req, Typed, TypeOK
<1>3. \A v \in User : users'[v] = IF seen[l][v] = None THEN users[v] ELSE seen[l][v]
    BY <1>1 DEF Assign
<1>4. ASSUME NoneStale' PROVE Remembers /\ SeenFresh /\ \A v \in User : Fresh(v, seen[l][v])
    <2>1. l \notin overtaken
        BY <1>1, <1>2, <1>4 DEF NoneStale
    <2> QED
        BY <1>1, <1>4, <2>1 DEF Recalls, SeenFresh
<1>5. ASSUME NoneStale' PROVE Remembers'
    <2>1. ASSUME NEW v \in User PROVE Fresh(v, users[v])'
        <3>1. Fresh(v, users'[v])
            BY <1>3, <1>4, <1>5 DEF Remembers
        <3> QED
            BY <1>1, <1>2, <3>1 DEF Fresh
    <2>2. ASSUME NEW w \in Writers, pc'[w] \in {"open", "writing"}, NEW v \in User PROVE users'[v] = secret'[v]
        <3>1. \A x \in Writers : pc[x] \notin {"written", "committed"}
            BY <1>0, <1>2, <2>2 DEF Locked, Inside
        <3>2. seen[l][v] \in {None, secret[v]}
            BY <1>4, <1>5, <3>1 DEF Fresh
        <3>3. users[v] = secret[v]
            BY <1>2, <1>4, <1>5, <2>2 DEF Remembers
        <3> QED
            BY <1>1, <1>3, <3>2, <3>3
    <2>3. ASSUME NEW w \in Writers, pc'[w] = "written", NEW v \in User
          PROVE  users'[v] = secret'[v] \/ (v = who'[w] /\ users'[v] = w)
        <3>1. \A x \in Writers : pc[x] \in {"written", "committed"} => x = w
            BY <1>0, <1>2, <2>3 DEF Locked, Inside
        <3>2. seen[l][v] \in {None, secret[v]} \/ (v = who[w] /\ seen[l][v] = w)
            BY <1>4, <1>5, <3>1 DEF Fresh
        <3>3. users[v] = secret[v] \/ (v = who[w] /\ users[v] = w)
            BY <1>2, <1>4, <1>5, <2>3 DEF Remembers
        <3> QED
            BY <1>1, <1>2, <1>3, <3>2, <3>3
    <2> QED
        BY <2>1, <2>2, <2>3 DEF Remembers
<1>6. ASSUME NoneStale' PROVE SeenFresh'
    <2> SUFFICES ASSUME NEW m \in Logins \ overtaken, pc'[m] = "seen", NEW v \in User
                 PROVE  Fresh(v, seen[m][v])'
        BY <1>1 DEF SeenFresh
    <2>1. m # l /\ pc[m] = "seen" /\ seen'[m] = seen[m]
        BY <1>2
    <2>2. Fresh(v, seen[m][v])
        BY <1>4, <1>6, <2>1 DEF SeenFresh
    <2> QED
        BY <1>1, <1>2, <2>1, <2>2 DEF Fresh
<1>7. ASSUME NEW m \in Logins, pc'[m] = "seen", NEW v \in User, v = who'[m] PROVE MayAccept(m, v)'
    <2>1. m # l /\ pc[m] = "seen" /\ who'[m] = who[m] /\ seen'[m] = seen[m] /\ due'[m] = due[m]
        BY <1>2, <1>7
    <2>2. MayAccept(m, v)
        BY <1>7, <2>1 DEF Accepted
    <2>3. ASSUME seen[m][v] = None, NoneStale' PROVE users'[v] \in due[m]
        <3>1. CASE seen[l][v] = None
            BY <1>3, <2>2, <2>3, <3>1 DEF MayAccept
        <3>2. CASE seen[l][v] # None
            <4>1. seen[l][v] \in due[m]
                BY <1>4, <2>2, <2>3, <3>2, FreshAccepted DEF MayAccept
            <4> QED
                BY <1>3, <3>2, <4>1
        <3> QED
            BY <3>1, <3>2
    <2> QED
        BY <1>1, <1>2, <2>1, <2>2, <2>3 DEF MayAccept, About
<1>8. \A m \in Logins : pc'[m] = "seen" => who'[m] \in User
    BY <1>0, <1>2 DEF Typed, Req
<1> QED
    BY <1>5, <1>6, <1>7, <1>8, AcceptedBy DEF Recalls

\* A login that has ended stays so, and so does one that was overtaken.
LEMMA StaleBefore == ASSUME Typed, [Next]_vars, NoneStale' PROVE NoneStale
<1>1. (\A x \in Req : pc[x] = "done" => pc'[x] = "done") /\ overtaken \subseteq Logins
    BY DEF Typed, TypeOK, Next, Update, AddUser, ChangePassword, Stat, Acquire, StealLive, GiveUp, Missing, Read,
           ReadFail, Open, Write, WriteFail, Reload, Answer, Handle, LoginRead, LoginEnd, LoginDone, Crash,
           Finished, Goto, Done, vars
<1>2. overtaken \subseteq overtaken'
    BY DEF Next, Update, AddUser, ChangePassword, Stat, Acquire, StealLive, GiveUp, Missing, Read,
           ReadFail, Open, Write, WriteFail, Reload, Answer, Handle, LoginRead, LoginEnd, LoginDone, Crash,
           Finished, vars
<1> QED
    BY <1>1, <1>2 DEF NoneStale, Req

LEMMA UnaskedStep == ASSUME Typed, Unasked, [Next]_vars PROVE Unasked'
<1>1. \A x \in Req : pc'[x] = "idle" => pc[x] = "idle" /\ who'[x] \in {who[x], None}
    BY DEF Typed, TypeOK, Next, Update, AddUser, ChangePassword, Stat, Acquire, StealLive, GiveUp, Missing, Read,
           ReadFail, Open, Write, WriteFail, Reload, Answer, Handle, LoginRead, LoginEnd, LoginDone, Crash,
           Finished, Goto, Done, vars, args
<1> QED
    BY <1>1 DEF Unasked

LEMMA MemoryStep == Inv /\ Memory /\ [Next]_vars => Memory'
<1> SUFFICES ASSUME Inv, Memory, [Next]_vars, Regular' PROVE Recalls' /\ Accepted'
    BY UnaskedStep DEF Memory, Inv
<1>1. /\ Typed /\ Typed' /\ Inv' /\ Regular /\ accidents' = accidents /\ bare = {} /\ (NoneStale' => NoneStale)
      /\ Recalls /\ Accepted /\ Unasked
    BY TypedStep, KeptStep, RegularBefore, StaleBefore DEF Inv, Regular, Memory
<1>2. ASSUME NEW a \in Writers, UNCHANGED <<users, secret, seen, due, overtaken>>, pc[a] = "idle",
             \/ Goto(a, "asked") /\ \E u \in User : who' = [who EXCEPT ![a] = u]
             \/ Goto(a, "done") /\ who' = who
      PROVE  Recalls' /\ Accepted'
    <2>0. a \in Req /\ {"asked", "done"} \subseteq Step
        BY DEF Req, Step
    <2>1. /\ \A x \in Req \ {a} : pc'[x] = pc[x] /\ who'[x] = who[x]
          /\ pc'[a] \in {"asked", "done"}
        BY <1>1, <1>2, <2>0, Moves DEF Typed, TypeOK
    <2>2. who[a] = None
        BY <1>1, <1>2, <2>0 DEF Unasked
    <2>3. \A v \in User : About(a, v)' => About(a, v)
        BY <1>2, <2>2 DEF About
    <2> QED
        BY <1>1, <1>2, <2>1, <2>3, WriterFrame
<1>3. ASSUME NEW a \in Adders, NEW u \in User, AddUser(a, u) PROVE Recalls' /\ Accepted'
    BY <1>2, <1>3 DEF AddUser, memory, Writers
<1>4. ASSUME NEW c \in Changers, NEW u \in User, NEW p \in (Writers \ {c}) \cup {First}, ChangePassword(c, u, p)
      PROVE  Recalls' /\ Accepted'
    BY <1>2, <1>4 DEF ChangePassword, memory, Writers
<1>5. ASSUME NEW w \in Writers, Update(w) PROVE Recalls' /\ Accepted'
    <2>1. ~Missing(w)
        BY <1>1 DEF Missing, Regular
    <2> QED
        BY <1>1, <1>5, <2>1, UpdateRemembers
<1>6. ASSUME NEW l \in Logins, NEW u \in User, LoginRead(l, u) PROVE Recalls' /\ Accepted'
    BY <1>1, <1>6, LoginReads
<1>7. ASSUME NEW l \in Logins, LoginEnd(l) PROVE Recalls' /\ Accepted'
    BY <1>1, <1>7, LoginEnds
<1>8. CASE UNCHANGED vars
    BY <1>1, <1>8 DEF Recalls, NoneStale, Remembers, SeenFresh, Fresh, Accepted, MayAccept, About, vars, memory, args
<1>9. ~Crash
    BY <1>1 DEF Crash, Typed, TypeOK
<1> QED
    BY <1>3, <1>4, <1>5, <1>6, <1>7, <1>8, <1>9 DEF Next, Finished

\* LoginCurrent: as long as every request that wrote had the lock and nothing
\* failed, a login ends with the password in force, or with one that was being
\* set when it read the file; one that found no line of its user does so long as
\* no login has ended that a change had overtaken.
THEOREM LoginsAreCurrent == Spec => LoginCurrent
<1>1. Init => Memory
    BY DEF Init, Memory, Unasked, Recalls, Remembers, SeenFresh, Fresh, Accepted, Nobody, Req
<1>2. Inv /\ Memory /\ [Next]_vars =>
        [\A l \in Logins :
            /\ Regular' /\ Ends(l)
            /\ (seen[l][who[l]] = None => \A m \in overtaken : pc[m] # "done")
            => users'[who[l]] \in due[l]]_vars
    <2> SUFFICES ASSUME Inv, Memory, [Next]_vars, NEW l \in Logins, Regular', pc[l] = "seen", pc'[l] = "done",
                        seen[l][who[l]] = None => NoneStale
                 PROVE  users'[who[l]] \in due[l]
        BY DEF Ends, NoneStale
    <2>1. Typed /\ Regular /\ accidents' = accidents
        BY RegularBefore DEF Inv
    <2>3. MayAccept(l, who[l]) /\ who[l] \in User
        BY <2>1 DEF Memory, Accepted, Typed, Req
    <2>4. LoginEnd(l)
        <3>1. ~Crash
            BY <2>1 DEF Crash, Typed, TypeOK
        <3>2. ~(UNCHANGED vars)
            BY DEF vars
        <3>3. ASSUME NEW r \in Req, r # l, \A x \in Req \ {r} : pc'[x] = pc[x] PROVE FALSE
            BY <3>3 DEF Req
        <3>4. ASSUME NEW w \in Writers PROVE w \in Req /\ w # l
            BY RequestAssumption DEF Req
        <3>5. ASSUME NEW w \in Writers PROVE ~Update(w)
            <4>1. Update(w) => \A x \in Req \ {w} : pc'[x] = pc[x]
                BY <2>1 DEF Typed, TypeOK, Update, Stat, Acquire, StealLive, GiveUp, Missing, Read, ReadFail, Open,
                   Write, WriteFail, Reload, Answer, Handle, Goto, Done
            <4> QED
                BY <3>3, <3>4, <4>1
        <3>6. ASSUME NEW w \in Writers, NEW u \in User PROVE ~AddUser(w, u) /\ \A p : ~ChangePassword(w, u, p)
            <4>1. AddUser(w, u) => \A x \in Req \ {w} : pc'[x] = pc[x]
                BY <2>1 DEF Typed, TypeOK, AddUser, Goto
            <4>2. ASSUME NEW p, ChangePassword(w, u, p) PROVE \A x \in Req \ {w} : pc'[x] = pc[x]
                BY <2>1, <4>2 DEF Typed, TypeOK, ChangePassword, Goto
            <4> QED
                BY <3>3, <3>4, <4>1, <4>2
        <3>7. ASSUME NEW m \in Logins, (\E u \in User : LoginRead(m, u)) \/ LoginEnd(m) PROVE m = l
            <4>1. \A x \in Req \ {m} : pc'[x] = pc[x]
                BY <2>1, <3>7 DEF Typed, TypeOK, LoginRead, LoginEnd, LoginDone, Goto, Done
            <4> QED
                BY <3>3, <4>1 DEF Req
        <3>8. \A u \in User : ~LoginRead(l, u)
            BY DEF LoginRead
        <3> QED
            BY <3>1, <3>2, <3>5, <3>6, <3>7, <3>8 DEF Next, Finished, Writers
    <2>5. users' = Assign(users, seen[l])
        BY <2>4 DEF LoginEnd
    <2> QED
        BY <2>3, <2>5 DEF MayAccept, Assign
<1> QED
    BY <1>1, <1>2, MemoryStep, Invariance, PTL DEF Spec, LoginCurrent
=============================================================================
