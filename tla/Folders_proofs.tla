--------------------------- MODULE Folders_proofs ---------------------------
(***************************************************************************)
(* What the package folder (LocalFS) guarantees for any number of updates,  *)
(* creations, saves and removals, any number of failures, faults and        *)
(* crashes; and what the search and the index that walk the folders of the  *)
(* packages (Search) find, for any packages, uplinks and changes meanwhile. *)
(***************************************************************************)
EXTENDS LocalFS, Search, FiniteSetTheorems, WellFoundedInduction, TLAPS

-----------------------------------------------------------------------------
(* Search: sets as sequences, and what removeDuplicates keeps *)

\* A set of numbers has a least one.
LEMMA LeastNatural ==
    ASSUME NEW T \in SUBSET Nat, T # {}
    PROVE  \E x \in T : \A y \in T : x <= y
<1> DEFINE R == OpToRel(<, Nat)
<1>1. \A a, b \in Nat : <<a, b>> \in R <=> a < b
    BY DEF OpToRel
<1>2. IsWellFoundedOn(R, Nat)
    BY NatLessThanWellFounded
<1> HIDE DEF R
<1>3. PICK x \in T : \A y \in T : ~(<<y, x>> \in R)
    BY <1>2, WFMin
<1>4. ASSUME NEW y \in T PROVE x <= y
    <2>1. x \in Nat /\ y \in Nat
        OBVIOUS
    <2>2. ~(y < x)
        BY <2>1, <1>1, <1>3
    <2> QED
        BY <2>1, <2>2
<1> QED
    BY <1>4

\* SetToSeq has the elements of a finite set, and no others.
LEMMA SeqOfSet ==
    ASSUME NEW S, IsFiniteSet(S)
    PROVE  /\ SetToSeq(S) \in Seq(S)
           /\ \A x \in S : \E i \in DOMAIN SetToSeq(S) : SetToSeq(S)[i] = x
<1> DEFINE n == Cardinality(S)
           f == SetToSeq(S)
<1>1. n \in Nat /\ ExistsBijection(1..n, S)
    BY FS_CardinalityType
<1>2. \E g \in [1..n -> S] : IsInjective(g)
    BY <1>1 DEF ExistsBijection, Bijection, Injection
<1>3. f \in [1..n -> S] /\ IsInjective(f)
    BY <1>2 DEF SetToSeq
<1>4. IsFiniteSet(1..n) /\ Cardinality(1..n) = n
    BY <1>1, FS_Interval
<1> HIDE DEF n, f
<1>5. f \in Injection(1..n, S)
    BY <1>3 DEF Injection
<1>6. Cardinality(1..n) = Cardinality(S)
    BY <1>4 DEF n
<1>7. f \in Surjection(1..n, S)
    BY <1>5, <1>6, FS_Injection
<1>8. f \in Seq(S) /\ DOMAIN f = 1..n
    BY <1>1, <1>3
<1>9. \A x \in S : \E i \in DOMAIN f : f[i] = x
    BY <1>7, <1>8 DEF Surjection
<1> QED
    BY <1>8, <1>9 DEF f

\* The numbers of a finite set are ranked from 1 on without a gap, and the
\* choice of the one of a rank inverts that.
LEMMA Ranks ==
    ASSUME NEW F \in SUBSET Nat, IsFiniteSet(F)
    PROVE  LET n == Cardinality(F)
               at(i) == CHOOSE k \in F : Cardinality({j \in F : j <= k}) = i
           IN  /\ n \in Nat
               /\ \A i \in 1..n : at(i) \in F
               /\ \A i, j \in 1..n : at(i) = at(j) => i = j
               /\ \A k \in F : \E i \in 1..n : at(i) = k
<1> DEFINE n == Cardinality(F)
           rank(k) == Cardinality({j \in F : j <= k})
           at(i) == CHOOSE k \in F : rank(k) = i
           f == [k \in F |-> rank(k)]
<1>1. n \in Nat
    BY FS_CardinalityType
<1>2. ASSUME NEW k \in F PROVE rank(k) \in 1..n
    <2> DEFINE B == {j \in F : j <= k}
    <2>1. IsFiniteSet(B) /\ Cardinality(B) <= n /\ Cardinality(B) \in Nat
        BY FS_Subset, FS_CardinalityType
    <2>2. k \in B
        OBVIOUS
    <2>3. Cardinality(B) # 0
        BY <2>1, <2>2, FS_EmptySet
    <2> HIDE DEF B
    <2>4. Cardinality(B) \in 1..n
        BY <1>1, <2>1, <2>3
    <2> QED
        BY <2>4 DEF B
<1>3. ASSUME NEW k \in F, NEW l \in F, k < l PROVE rank(k) # rank(l)
    <2> DEFINE B == {j \in F : j <= k}
               C == {j \in F : j <= l}
    <2>1. \A j \in F : j <= k => j <= l
        BY <1>3
    <2>2. B \in SUBSET C
        BY <2>1
    <2>3. l <= l /\ ~(l <= k)
        BY <1>3
    <2>4. l \in C /\ l \notin B
        BY <2>3
    <2>5. IsFiniteSet(C)
        BY FS_Subset
    <2>6. Cardinality(C) = Cardinality(B) => C = B
        BY <2>2, <2>5, FS_Subset
    <2> QED
        BY <2>4, <2>6
<1>4. \A k, l \in F : rank(k) = rank(l) => k = l
    <2> SUFFICES ASSUME NEW k \in F, NEW l \in F, rank(k) = rank(l), k # l PROVE FALSE
        OBVIOUS
    <2> HIDE DEF rank
    <2>1. k < l \/ l < k
        OBVIOUS
    <2> QED
        BY <1>3, <2>1
<1> HIDE DEF n, rank
<1>5. f \in Injection(F, 1..n)
    BY <1>2, <1>4 DEF Injection, IsInjective
<1>6. IsFiniteSet(1..n) /\ Cardinality(1..n) = n
    BY <1>1, FS_Interval
<1> HIDE DEF f
<1>7. Cardinality(F) = Cardinality(1..n)
    BY <1>6 DEF n
<1>8. f \in Surjection(F, 1..n)
    BY <1>5, <1>6, <1>7, FS_Injection
<1> USE DEF f
<1>9. ASSUME NEW i \in 1..n PROVE at(i) \in F /\ rank(at(i)) = i
    <2>1. \E k \in F : rank(k) = i
        BY <1>8 DEF Surjection
    <2> QED
        BY <2>1
<1>10. \A k \in F : at(rank(k)) = k
    BY <1>2, <1>4, <1>9
<1> HIDE DEF at
<1>11. \A i, j \in 1..n : at(i) = at(j) => i = j
    BY <1>9
<1>12. \A k \in F : \E i \in 1..n : at(i) = k
    BY <1>2, <1>10
<1> QED
    BY <1>1, <1>9, <1>11, <1>12 DEF at, rank, n


\* removeDuplicates keeps each name once, and every one.
LEMMA Deduplicated ==
    ASSUME NEW s \in Seq(Item)
    PROVE  LET r == RemoveDuplicates(s)
               names == {r[i].name : i \in DOMAIN r}
           IN  /\ \A i \in DOMAIN r : \E j \in DOMAIN s : r[i] = s[j]
               /\ \A j \in DOMAIN s : s[j].name \in names
               /\ Cardinality(names) = Len(r)
<1> DEFINE F == {i \in DOMAIN s : \A j \in 1..(i - 1) : s[j].name # s[i].name}
           n == Cardinality(F)
           at(i) == CHOOSE k \in F : Cardinality({j \in F : j <= k}) = i
           r == [i \in 1..n |-> s[at(i)]]
           names == {r[i].name : i \in DOMAIN r}
<1>1. r = RemoveDuplicates(s)
    BY DEF RemoveDuplicates
<1>2. DOMAIN s = 1..Len(s) /\ Len(s) \in Nat
    OBVIOUS
<1>3. F \in SUBSET Nat /\ IsFiniteSet(F)
    <2>1. F \in SUBSET (1..Len(s)) /\ IsFiniteSet(1..Len(s))
        BY <1>2, FS_Interval
    <2> HIDE DEF F
    <2>2. IsFiniteSet(F)
        BY <2>1, FS_Subset
    <2> QED
        BY <1>2, <2>1, <2>2
<1>4. F \subseteq DOMAIN s /\ \A i \in F : \A j \in 1..(i - 1) : s[j].name # s[i].name
    OBVIOUS
<1>5. ASSUME NEW j \in DOMAIN s PROVE \E i \in F : s[i].name = s[j].name
    <2> DEFINE T == {i \in DOMAIN s : s[i].name = s[j].name}
    <2>1. T \in SUBSET Nat /\ j \in T
        BY <1>2
    <2>2. PICK i \in T : \A k \in T : i <= k
        BY <2>1, LeastNatural
    <2>3. \A k \in 1..(i - 1) : k \in DOMAIN s /\ ~(i <= k)
        BY <1>2, <2>2
    <2>4. i \in F
        BY <2>2, <2>3
    <2> QED
        BY <2>4
<1> HIDE DEF F
<1>6. /\ n \in Nat
      /\ \A i \in 1..n : at(i) \in F
      /\ \A i, j \in 1..n : at(i) = at(j) => i = j
      /\ \A k \in F : \E i \in 1..n : at(i) = k
    BY <1>3, Ranks
<1> HIDE DEF n, at
<1>7. DOMAIN r = 1..n /\ \A i \in 1..n : r[i] = s[at(i)]
    OBVIOUS
<1>8. Len(r) = n
    BY <1>6, <1>7
<1> HIDE DEF r
<1>9. \A i \in DOMAIN r : \E j \in DOMAIN s : r[i] = s[j]
    BY <1>4, <1>6, <1>7
<1>10. ASSUME NEW j \in DOMAIN s PROVE s[j].name \in names
    <2>1. PICK k \in F : s[k].name = s[j].name
        BY <1>5
    <2>2. PICK i \in 1..n : at(i) = k
        BY <1>6
    <2> QED
        BY <1>7, <2>1, <2>2
<1>11. ASSUME NEW i \in 1..n, NEW j \in 1..n, r[i].name = r[j].name PROVE i = j
    <2>1. at(i) \in Nat /\ at(j) \in Nat /\ s[at(i)].name = s[at(j)].name
        BY <1>3, <1>6, <1>7, <1>11
    <2>2. ASSUME NEW k \in F, NEW l \in F, s[k].name = s[l].name PROVE ~(k < l)
        <3>1. k < l => k \in 1..(l - 1)
            BY <1>2, <1>4
        <3> QED
            BY <1>4, <2>2, <3>1
    <2>3. at(i) = at(j)
        BY <1>6, <2>1, <2>2
    <2> QED
        BY <1>6, <2>3
<1>12. Cardinality(names) = n
    <2> DEFINE f == [i \in 1..n |-> r[i].name]
    <2>1. f \in Bijection(1..n, names)
        <3>1. f \in [1..n -> names]
            BY <1>7
        <3>2. IsInjective(f)
            BY <1>11 DEF IsInjective
        <3>3. \A x \in names : \E i \in 1..n : f[i] = x
            BY <1>7
        <3> QED
            BY <3>1, <3>2, <3>3 DEF Bijection, Injection, Surjection
    <2>2. IsFiniteSet(1..n) /\ Cardinality(1..n) = n
        BY <1>6, FS_Interval
    <2> QED
        BY <2>1, <2>2, FS_Bijection DEF ExistsBijection
<1> QED
    BY <1>1, <1>8, <1>9, <1>10, <1>12


-----------------------------------------------------------------------------
\* What sequences hold after the operations on them.
LEMMA AppendHolds ==
    ASSUME NEW S, NEW s \in Seq(S), NEW x \in S
    PROVE  Append(s, x) \in Seq(S) /\ Range(Append(s, x)) = Range(s) \cup {x}
<1>1. /\ DOMAIN Append(s, x) = 1..(Len(s) + 1) /\ DOMAIN s = 1..Len(s) /\ Len(s) \in Nat
      /\ \A i \in 1..Len(s) : Append(s, x)[i] = s[i]
      /\ Append(s, x)[Len(s) + 1] = x /\ Append(s, x) \in Seq(S)
    OBVIOUS
<1>2. 1..(Len(s) + 1) = 1..Len(s) \cup {Len(s) + 1}
    BY <1>1
<1> QED
    BY <1>1, <1>2 DEF Range

LEMMA ConcatHolds ==
    ASSUME NEW S, NEW s \in Seq(S), NEW t \in Seq(S)
    PROVE  s \o t \in Seq(S) /\ Range(s \o t) = Range(s) \cup Range(t)
<1>1. /\ DOMAIN s = 1..Len(s) /\ DOMAIN t = 1..Len(t) /\ Len(s) \in Nat /\ Len(t) \in Nat
      /\ DOMAIN (s \o t) = 1..(Len(s) + Len(t)) /\ s \o t \in Seq(S)
    OBVIOUS
<1>2. /\ \A i \in 1..Len(s) : i \in DOMAIN (s \o t) /\ (s \o t)[i] = s[i]
      /\ \A i \in 1..Len(t) : i + Len(s) \in DOMAIN (s \o t) /\ (s \o t)[i + Len(s)] = t[i]
    BY <1>1
<1>3. ASSUME NEW i \in DOMAIN (s \o t) PROVE i \in 1..Len(s) \/ \E j \in 1..Len(t) : i = j + Len(s)
    <2>1. i \in 1..Len(s) \/ (i - Len(s) \in 1..Len(t) /\ i = (i - Len(s)) + Len(s))
        BY <1>1
    <2> QED
        BY <2>1
<1>4. \A x : x \in Range(s) => x \in Range(s \o t)
    BY <1>1, <1>2 DEF Range
<1>5. \A x : x \in Range(t) => x \in Range(s \o t)
    BY <1>1, <1>2 DEF Range
<1>6. ASSUME NEW x \in Range(s \o t) PROVE x \in Range(s) \cup Range(t)
    <2>1. PICK i \in DOMAIN (s \o t) : x = (s \o t)[i]
        BY DEF Range
    <2>2. CASE i \in 1..Len(s)
        BY <1>1, <1>2, <2>1, <2>2 DEF Range
    <2>3. CASE \E j \in 1..Len(t) : i = j + Len(s)
        BY <1>1, <1>2, <2>1, <2>3 DEF Range
    <2> QED
        BY <1>3, <2>2, <2>3
<1> QED
    BY <1>1, <1>4, <1>5, <1>6

LEMMA TailHolds ==
    ASSUME NEW S, NEW s \in Seq(S), s # <<>>
    PROVE  /\ Head(s) \in Range(s) /\ Tail(s) \in Seq(S)
           /\ Range(s) \subseteq {Head(s)} \cup Range(Tail(s)) /\ Range(Tail(s)) \subseteq Range(s)
<1>1. /\ Len(s) \in Nat /\ Len(s) # 0 /\ DOMAIN s = 1..Len(s) /\ Head(s) = s[1]
      /\ Tail(s) \in Seq(S) /\ DOMAIN Tail(s) = 1..(Len(s) - 1)
      /\ \A i \in 1..(Len(s) - 1) : Tail(s)[i] = s[i + 1]
    OBVIOUS
<1>2. 1 \in DOMAIN s
    BY <1>1
<1>3. ASSUME NEW i \in DOMAIN s PROVE i = 1 \/ (i - 1 \in DOMAIN Tail(s) /\ s[i] = Tail(s)[i - 1])
    <2>1. i = 1 \/ (i - 1 \in 1..(Len(s) - 1) /\ (i - 1) + 1 = i)
        BY <1>1
    <2> QED
        BY <1>1, <2>1
<1>4. \A i \in DOMAIN Tail(s) : i + 1 \in DOMAIN s
    BY <1>1
<1>5. ASSUME NEW x \in Range(s) PROVE x = Head(s) \/ x \in Range(Tail(s))
    <2>1. PICK i \in DOMAIN s : x = s[i]
        BY DEF Range
    <2> QED
        BY <1>1, <1>3, <2>1 DEF Range
<1>6. \A x : x \in Range(Tail(s)) => x \in Range(s)
    BY <1>1, <1>4 DEF Range
<1> QED
    BY <1>1, <1>2, <1>5, <1>6 DEF Range

\* A finite set as a sequence has the elements of the set.
LEMMA SetListed ==
    ASSUME NEW S, NEW T \in SUBSET S, IsFiniteSet(T)
    PROVE  SetToSeq(T) \in Seq(S) /\ Range(SetToSeq(T)) = T
<1>1. SetToSeq(T) \in Seq(T) /\ \A x \in T : \E i \in DOMAIN SetToSeq(T) : SetToSeq(T)[i] = x
    BY SeqOfSet
<1>2. SetToSeq(T) \in Seq(S) /\ \A i \in DOMAIN SetToSeq(T) : SetToSeq(T)[i] \in T
    BY <1>1
<1> QED
    BY <1>1, <1>2 DEF Range

\* The image of a finite set is finite.
LEMMA ImageFinite ==
    ASSUME NEW S, IsFiniteSet(S), NEW T, NEW f \in [S -> T], \A t \in T : \E x \in S : f[x] = t
    PROVE  IsFiniteSet(T)
<1>1. f \in Surjection(S, T)
    BY DEF Surjection
<1> QED
    BY <1>1, FS_Surjection

\* The list at the start has the packages that are ready.
LEMMA ReadyListed == SetToSeq(Ready) \in Seq(Package) /\ Range(SetToSeq(Ready)) = Ready
<1>1. Ready \in SUBSET Package
    BY DEF Ready
<1>2. IsFiniteSet(Ready)
    BY <1>1, SearchAssumption, FS_Subset
<1> QED
    BY <1>1, <1>2, SetListed

LEMMA ConcatLength ==
    ASSUME NEW S, NEW s \in Seq(S), NEW t \in Seq(S)
    PROVE  Len(s \o t) = Len(s) + Len(t)
<1>1. Len(s) \in Nat /\ Len(t) \in Nat /\ DOMAIN (s \o t) = 1..(Len(s) + Len(t)) /\ s \o t \in Seq(S)
    OBVIOUS
<1>2. DOMAIN (s \o t) = 1..Len(s \o t) /\ Len(s \o t) \in Nat
    BY <1>1
<1> QED
    BY <1>1, <1>2

\* What is in a list without one of its places is what was there, but for that.
LEMMA RemoveHolds ==
    ASSUME NEW S, NEW s \in Seq(S), NEW i \in DOMAIN s
    PROVE  /\ RemoveAt(s, i) \in Seq(S) /\ Len(RemoveAt(s, i)) = Len(s) - 1
           /\ \A j \in 1..(i - 1) : RemoveAt(s, i)[j] = s[j]
           /\ \A j \in i..(Len(s) - 1) : RemoveAt(s, i)[j] = s[j + 1]
<1>1. Len(s) \in Nat /\ DOMAIN s = 1..Len(s) /\ i \in 1..Len(s)
    OBVIOUS
<1> DEFINE a == SubSeq(s, 1, i - 1)
           b == SubSeq(s, i + 1, Len(s))
<1>2. a \in Seq(S) /\ Len(a) = i - 1 /\ \A j \in 1..(i - 1) : a[j] = s[j]
    <2>1. \A j \in 1..(i - 1) : s[j] \in S
        BY <1>1
    <2> QED
        BY <1>1, <2>1
<1>3. b \in Seq(S) /\ Len(b) = Len(s) - i /\ \A j \in 1..(Len(s) - i) : b[j] = s[j + i]
    <2>1. \A j \in (i + 1)..Len(s) : s[j] \in S
        BY <1>1
    <2> QED
        BY <1>1, <2>1
<1> HIDE DEF a, b
<1>4. a \o b \in Seq(S) /\ Len(a \o b) = Len(s) - 1
    <2>1. a \in Seq(S) /\ b \in Seq(S) /\ Len(a) = i - 1 /\ Len(b) = Len(s) - i
        BY <1>2, <1>3
    <2>2. a \o b \in Seq(S)
        BY <2>1
    <2>3. Len(a \o b) = Len(a) + Len(b)
        BY <2>1, ConcatLength
    <2>4. (i - 1) + (Len(s) - i) = Len(s) - 1
        BY <1>1
    <2> QED
        BY <2>1, <2>2, <2>3, <2>4
<1>5. \A j \in 1..(i - 1) : (a \o b)[j] = s[j]
    BY <1>1, <1>2, <1>3
<1>6. ASSUME NEW j \in i..(Len(s) - 1) PROVE (a \o b)[j] = s[j + 1]
    <2>1. j - (i - 1) \in 1..(Len(s) - i) /\ (j - (i - 1)) + i = j + 1
        BY <1>1
    <2>2. (a \o b)[j] = b[j - (i - 1)]
        BY <1>1, <1>2, <1>3, <2>1
    <2> QED
        BY <1>3, <2>1, <2>2
<1> QED
    BY <1>4, <1>5, <1>6 DEF RemoveAt, a, b

-----------------------------------------------------------------------------
(* What a search has, stage by stage *)

In(s) == {x.name : x \in Range(s)}
Lasts == throughout \cap Matching

\* What an uplink has answered is in the stream ...
Collected ==
    /\ phase \in {"walking", "metadata", "draining"} => \A u \in Uplink : up[u] = "ended"
    /\ phase # "resolved" =>
         \A u \in Uplink : up[u] \in {"sent", "paused", "ended"} => ToSet(offered[u]) \subseteq In(stream)
\* ... so are, of the packages that were there all the time, those that were
\* found, and their folder or that of their scope is still to be read ...
Walked ==
    /\ throughout \subseteq Ready
    /\ phase = "walking" =>
         \A p \in Lasts : p \in Range(found) \/ InStorage(p) \in Range(dirs) \/ PackageStorage(p) \in Range(dirs)
    /\ phase = "metadata" => Lasts \subseteq Range(found) \cup In(stream)
    /\ phase = "draining" => Lasts \subseteq In(stream)
\* ... and of the packages here no others than the query matches.
Matches ==
    /\ Range(found) \subseteq Matching
    /\ \A x \in Range(stream) : x.from = "local" => x.name \in Matching

SearchInv == SearchTypeOK /\ Collected /\ Walked /\ Matches /\ SearchComplete

\* The walk begins with the storage of every package.
LEMMA StoragesListed ==
    /\ Storages \in Seq(Folders)
    /\ \A p \in Package : PackageStorage(p) \in Range(Storages)
<1> DEFINE S == {<<Root, x>> : x \in CustomStorages}
<1>1. IsFiniteSet({Storage[p] : p \in Package})
    <2> DEFINE T == {Storage[p] : p \in Package}
               f == [p \in Package |-> Storage[p]]
    <2>1. f \in [Package -> T] /\ \A t \in T : \E p \in Package : f[p] = t
        OBVIOUS
    <2> HIDE DEF T, f
    <2>2. IsFiniteSet(T)
        BY <2>1, SearchAssumption, ImageFinite
    <2> QED
        BY <2>2 DEF T
<1>2. IsFiniteSet(CustomStorages)
    <2>1. CustomStorages \in SUBSET {Storage[p] : p \in Package}
        BY DEF CustomStorages
    <2> QED
        BY <1>1, <2>1, FS_Subset
<1>3. IsFiniteSet(S)
    <2> DEFINE f == [x \in CustomStorages |-> <<Root, x>>]
    <2>1. f \in [CustomStorages -> S] /\ \A t \in S : \E x \in CustomStorages : f[x] = t
        OBVIOUS
    <2> HIDE DEF S, f
    <2> QED
        BY <1>2, <2>1, ImageFinite
<1>4. S \in SUBSET Folders /\ <<Root>> \in Folders
    BY DEF Folders
<1> HIDE DEF S
<1>5. SetToSeq(S) \in Seq(Folders) /\ Range(SetToSeq(S)) = S
    BY <1>3, <1>4, SetListed
<1>6. <<<<Root>>>> \in Seq(Folders) /\ Range(<<<<Root>>>>) = {<<Root>>}
    BY <1>4 DEF Range
<1>7. Storages \in Seq(Folders) /\ Range(Storages) = {<<Root>>} \cup S
    <2>1. Storages = <<<<Root>>>> \o SetToSeq(S)
        BY DEF Storages, S
    <2> DEFINE a == <<<<Root>>>>
               b == SetToSeq(S)
    <2>2. a \in Seq(Folders) /\ b \in Seq(Folders) /\ Range(a) = {<<Root>>} /\ Range(b) = S
        BY <1>5, <1>6
    <2> HIDE DEF a, b
    <2>3. a \o b \in Seq(Folders) /\ Range(a \o b) = {<<Root>>} \cup S
        BY <2>2, ConcatHolds
    <2> QED
        BY <2>1, <2>3 DEF a, b
<1>8. \A p \in Package : PackageStorage(p) \in {<<Root>>} \cup S
    BY DEF PackageStorage, S
<1> QED
    BY <1>7, <1>8

\* What comes and goes leaves the search, but for what was there all the time.
LEMMA ChangeSearched ==
    ASSUME SearchInv, SearchTypeOK', UNCHANGED searchVars, throughout' \subseteq throughout,
           throughout' \subseteq Ready'
    PROVE  SearchInv'
<1>1. Collected' /\ Matches'
    BY DEF SearchInv, Collected, Matches, searchVars, In
<1>2. Walked'
    BY DEF SearchInv, Walked, searchVars, In, Lasts
<1>3. SearchComplete'
    BY DEF SearchInv, SearchComplete, searchVars, Names
<1> QED
    BY <1>1, <1>2, <1>3 DEF SearchInv

LEMMA FolderSearched ==
    ASSUME SearchInv, NEW p \in Package, NEW x \in {"none", "bare", "empty", "ready"}, Folder(p, x),
           list' \in Seq(Package), index' \subseteq Package, due' \subseteq Package,
           shifted' \in Nat, reindexing' = reindexing
    PROVE  SearchInv'
<1>1. SearchTypeOK'
    BY SearchAssumption DEF SearchInv, SearchTypeOK, Folder, searchVars, Over
<1>2. throughout' \subseteq throughout /\ throughout' \subseteq Ready'
    BY DEF SearchInv, SearchTypeOK, Walked, Folder, Ready, HasLatest
<1> QED
    BY <1>1, <1>2, ChangeSearched DEF Folder

\* A folder gives the packages in it that match, among them all that were there
\* all the time, and the folders of its scopes.
LEMMA FolderListed ==
    ASSUME SearchTypeOK, Walked, ListFolder
    PROVE  /\ found' \in Seq(Package) /\ dirs' \in Seq(Folders)
           /\ Range(found) \subseteq Range(found') /\ Range(found') \subseteq Range(found) \cup Matching
           /\ \A p \in Lasts : InStorage(p) = Head(dirs) => p \in Range(found')
           /\ \A p \in Lasts : PackageStorage(p) = Head(dirs) /\ Scope[p] # NoScope => InStorage(p) \in Range(dirs')
           /\ \A d \in Range(dirs) : d = Head(dirs) \/ d \in Range(dirs')
<1> DEFINE d == Head(dirs)
           T == {p \in There : InStorage(p) = d} \cap Matching
           Q == {q \in There : Scope[q] # NoScope /\ PackageStorage(q) = d}
           S == ScopesIn(d)
<1>1. T \in SUBSET Package /\ Q \in SUBSET Package
    BY DEF There
<1>2. IsFiniteSet(T) /\ IsFiniteSet(Q)
    BY <1>1, SearchAssumption, FS_Subset
<1>3. S = {InStorage(p) : p \in Q}
    BY DEF ScopesIn
<1>4. S \in SUBSET Folders
    BY <1>1, <1>3 DEF Folders
<1>5. \A p \in Lasts : p \in There /\ p \in Matching
    BY DEF Lasts, Walked, Ready, HasLatest, There
<1>6. \A p \in Lasts : (InStorage(p) = d => p \in T) /\ (Scope[p] # NoScope /\ PackageStorage(p) = d => p \in Q)
    BY <1>5
<1>7. found' = found \o SetToSeq(T) /\ dirs' = SetToSeq(S) \o Tail(dirs) /\ dirs # <<>>
    BY DEF ListFolder
<1>8. found \in Seq(Package) /\ dirs \in Seq(Folders) /\ T \subseteq Matching
    BY DEF SearchTypeOK
<1> HIDE DEF T, Q, S
<1>9. IsFiniteSet(S)
    <2> DEFINE f == [p \in Q |-> InStorage(p)]
    <2>1. f \in [Q -> S] /\ \A t \in S : \E p \in Q : f[p] = t
        BY <1>3
    <2> HIDE DEF f
    <2> QED
        BY <1>2, <2>1, ImageFinite
<1>10. SetToSeq(T) \in Seq(Package) /\ Range(SetToSeq(T)) = T
    BY <1>1, <1>2, SetListed
<1>11. SetToSeq(S) \in Seq(Folders) /\ Range(SetToSeq(S)) = S
    BY <1>4, <1>9, SetListed
<1>12. found' \in Seq(Package) /\ Range(found') = Range(found) \cup T
    BY <1>7, <1>8, <1>10, ConcatHolds
<1>13. Tail(dirs) \in Seq(Folders) /\ Range(dirs) \subseteq {d} \cup Range(Tail(dirs))
    BY <1>7, <1>8, TailHolds
<1>14. dirs' \in Seq(Folders) /\ Range(dirs') = S \cup Range(Tail(dirs))
    <2> DEFINE a == SetToSeq(S)
               b == Tail(dirs)
    <2>1. a \in Seq(Folders) /\ b \in Seq(Folders) /\ Range(a) = S /\ dirs' = a \o b
        BY <1>7, <1>11, <1>13
    <2> HIDE DEF a, b
    <2>2. a \o b \in Seq(Folders) /\ Range(a \o b) = Range(a) \cup Range(b)
        BY <2>1, ConcatHolds
    <2> QED
        BY <2>1, <2>2 DEF b
<1>15. \A p \in Lasts : PackageStorage(p) = d /\ Scope[p] # NoScope => InStorage(p) \in S
    BY <1>3, <1>6
<1> QED
    BY <1>6, <1>8, <1>12, <1>13, <1>14, <1>15

\* An array in the stream are its items, one by one.
LEMMA ItemsAdded ==
    ASSUME NEW u \in Uplink, NEW names \in Seq(Package), NEW s \in Seq(Item)
    PROVE  /\ s \o Items(names, u) \in Seq(Item)
           /\ In(s \o Items(names, u)) = In(s) \cup ToSet(names)
           /\ \A x \in Range(s \o Items(names, u)) : x \in Range(s) \/ x.from = u
<1> DEFINE t == Items(names, u)
<1>1. DOMAIN names = 1..Len(names) /\ Len(names) \in Nat /\ \A i \in 1..Len(names) : names[i] \in Package
    OBVIOUS
<1>2. DOMAIN t = DOMAIN names /\ \A i \in DOMAIN names : t[i] = [name |-> names[i], from |-> u]
    BY DEF Items
<1>3. t \in Seq(Item)
    <2>1. t = [i \in 1..Len(names) |-> [name |-> names[i], from |-> u]]
        BY <1>1 DEF Items
    <2>2. \A i \in 1..Len(names) : [name |-> names[i], from |-> u] \in Item
        BY <1>1 DEF Item
    <2> HIDE DEF t
    <2> QED
        BY <1>1, <2>1, <2>2
<1> HIDE DEF t
<1>4. s \o t \in Seq(Item) /\ Range(s \o t) = Range(s) \cup Range(t)
    BY <1>3, ConcatHolds
<1>5. \A i \in DOMAIN t : t[i].name = names[i] /\ t[i].from = u
    BY <1>2
<1>6. In(t) = ToSet(names) /\ \A x \in Range(t) : x.from = u
    BY <1>2, <1>5 DEF In, Range, ToSet
<1>7. In(s \o t) = In(s) \cup In(t)
    BY <1>4 DEF In
<1> QED
    BY <1>4, <1>6, <1>7 DEF t

\* Every step keeps what the stages of a search are about.
LEMMA NextSearched == SearchInv /\ [SearchNext]_allVars => SearchInv'
<1> SUFFICES ASSUME SearchInv, [SearchNext]_allVars PROVE SearchInv'
    OBVIOUS
<1> USE DEF SearchInv
<1>0. stream \in Seq(Item) /\ found \in Seq(Package)
    BY DEF SearchTypeOK
<1>1. ASSUME NEW p \in Package,
             CreateFolder(p) \/ CreatePackage(p) \/ AddVersion(p) \/ RemoveMetadata(p) \/ RemoveFolder(p)
      PROVE  SearchInv'
    <2>1. PICK x \in {"none", "bare", "empty", "ready"} : Folder(p, x)
        BY <1>1 DEF CreateFolder, CreatePackage, AddVersion, RemoveMetadata, RemoveFolder
    <2>2. index' \subseteq Package /\ due' \subseteq Package /\ reindexing' = reindexing
        BY <1>1
        DEF SearchTypeOK, CreateFolder, CreatePackage, AddVersion, RemoveMetadata, RemoveFolder, indexVars
    <2>3. list' \in Seq(Package) /\ shifted' \in Nat
        <3>1. CASE RemoveMetadata(p)
            <4>1. list \in Seq(Package) /\ shifted \in Nat /\ \A i \in DOMAIN list : RemoveAt(list, i) \in Seq(Package)
                BY RemoveHolds DEF SearchTypeOK
            <4> QED
                BY <3>1, <4>1 DEF RemoveMetadata
        <3> QED
            BY <1>1, <3>1 DEF SearchTypeOK, CreateFolder, CreatePackage, AddVersion, RemoveFolder, indexVars
    <2> QED
        BY <2>1, <2>2, <2>3, FolderSearched
<1>2. ASSUME NEW p \in Package, AddToList(p) PROVE SearchInv'
    <2>1. list' \in Seq(Package) /\ UNCHANGED <<folder, changes, index, reindexing, due, shifted, searchVars, throughout>>
        BY <1>2 DEF AddToList, SearchTypeOK
    <2>2. SearchTypeOK'
        BY <2>1 DEF SearchTypeOK, searchVars, Over
    <2> QED
        BY <2>1, <2>2, ChangeSearched DEF Walked, Ready, HasLatest
<1>3. CASE ReadForIndex \/ ReadNext \/ Reindexed
    <2>1. UNCHANGED <<folder, changes, list, due, shifted, searchVars, throughout>> /\ index' \subseteq Package
        BY <1>3 DEF ReadForIndex, ReadNext, Reindexed, SearchTypeOK
    <2>2. reindexing' \in [at : Nat, reading : SUBSET Package, seen : SUBSET Package, on : BOOLEAN]
        <3>1. CASE ReadForIndex
            BY <3>1 DEF ReadForIndex, SearchTypeOK, Ready
        <3>2. CASE ReadNext
            <4>1. reindexing.at \in Nat /\ Len(list) \in Nat /\ reindexing.at < Len(list) /\ list \in Seq(Package)
                BY <3>2 DEF ReadNext, SearchTypeOK
            <4>2. list[reindexing.at + 1] \in Package
                BY <4>1
            <4>3. reindexing' = [reindexing EXCEPT !.at = reindexing.at + 1, !.reading = {list[reindexing.at + 1]}]
                BY <3>2 DEF ReadNext
            <4>4. {list[reindexing.at + 1]} \in SUBSET Package /\ reindexing.at + 1 \in Nat
                BY <4>1, <4>2
            <4> HIDE DEF SearchInv
            <4>5. reindexing \in [at : Nat, reading : SUBSET Package, seen : SUBSET Package, on : BOOLEAN]
                BY DEF SearchTypeOK, SearchInv
            <4> QED
                BY <4>3, <4>4, <4>5
        <3>3. CASE Reindexed
            BY <3>3 DEF Reindexed, SearchTypeOK
        <3> QED
            BY <1>3, <3>1, <3>2, <3>3
    <2>3. SearchTypeOK'
        BY <2>1, <2>2 DEF SearchTypeOK, searchVars, Over
    <2> QED
        BY <2>1, <2>3, ChangeSearched DEF Walked, Ready, HasLatest
<1>4. CASE Begin
    <2>1. SearchTypeOK'
        BY <1>4 DEF Begin, SearchTypeOK, indexVars, Ready, Over
    <2>2. Collected' /\ Matches'
        BY <1>4 DEF Begin, Collected, Matches, In
    <2>3. Walked' /\ SearchComplete'
        BY <1>4 DEF Begin, Walked, Ready, HasLatest, SearchComplete
    <2> QED
        BY <2>1, <2>2, <2>3
<1>5. ASSUME NEW u \in Uplink, UplinkFails(u) PROVE SearchInv'
    <2> USE <1>5 DEF UplinkFails, Here
    <2>1. SearchTypeOK'
        BY DEF SearchTypeOK, indexVars, Over
    <2>2. Collected' /\ Matches'
        BY DEF SearchTypeOK, Collected, Matches, In
    <2>3. Walked' /\ SearchComplete'
        BY DEF Walked, Ready, HasLatest, SearchComplete
    <2> QED
        BY <2>1, <2>2, <2>3
<1>6. ASSUME NEW u \in Uplink, UplinkAnswers(u) PROVE SearchInv'
    <2>1. /\ phase = "uplinks" /\ stream' = stream \o Items(offered[u], u)
          /\ up' \in [Uplink -> {"asked", "sent", "paused", "ended", "failed"}]
          /\ \A v \in Uplink : v # u => up'[v] = up[v]
          /\ UNCHANGED <<folder, changes, indexVars, throughout, phase, offered, dirs, found, results>>
        BY <1>6 DEF UplinkAnswers, Here, SearchTypeOK
    <2>2. offered[u] \in Seq(Package)
        BY SearchAssumption DEF SearchTypeOK
    <2>3. /\ stream' \in Seq(Item) /\ In(stream') = In(stream) \cup ToSet(offered[u])
          /\ \A x \in Range(stream') : x \in Range(stream) \/ x.from = u
        BY <1>0, <2>1, <2>2, ItemsAdded
    <2>4. SearchTypeOK'
        BY <2>1, <2>3 DEF SearchTypeOK, indexVars, Over
    <2>5. Collected'
        BY <2>1, <2>3 DEF Collected
    <2>6. Matches'
        BY <2>1, <2>3, SearchAssumption DEF Matches
    <2>7. Walked' /\ SearchComplete'
        BY <2>1 DEF Walked, Ready, HasLatest, SearchComplete
    <2> QED
        BY <2>4, <2>5, <2>6, <2>7
<1>7. ASSUME NEW u \in Uplink, UplinkEnds(u) PROVE SearchInv'
    <2> USE <1>7 DEF UplinkEnds, Here
    <2>1. SearchTypeOK'
        BY DEF SearchTypeOK, indexVars, Over
    <2>2. Collected' /\ Matches'
        BY DEF SearchTypeOK, Collected, Matches, In
    <2>3. Walked' /\ SearchComplete'
        BY DEF Walked, Ready, HasLatest, SearchComplete
    <2> QED
        BY <2>1, <2>2, <2>3
<1>8. CASE UplinksDone
    <2> USE <1>8 DEF UplinksDone, Here
    <2>1. SearchTypeOK'
        BY StoragesListed DEF SearchTypeOK, indexVars, Over
    <2>2. Collected' /\ Matches'
        BY DEF SearchTypeOK, Collected, Matches, In
    <2>3. \A p \in throughout : PackageStorage(p) \in Range(dirs')
        BY StoragesListed DEF SearchTypeOK
    <2>4. Walked'
        BY <2>3 DEF Walked, Lasts, Ready, HasLatest
    <2>5. SearchComplete'
        BY DEF SearchComplete
    <2> QED
        BY <2>1, <2>2, <2>4, <2>5
<1>9. CASE ListFolder
    <2>1. /\ phase = "walking"
          /\ UNCHANGED <<folder, changes, indexVars, throughout, phase, up, offered, stream, results>>
        BY <1>9 DEF ListFolder, Here
    <2>2. /\ found' \in Seq(Package) /\ dirs' \in Seq(Folders)
          /\ Range(found) \subseteq Range(found') /\ Range(found') \subseteq Range(found) \cup Matching
          /\ \A p \in Lasts : InStorage(p) = Head(dirs) => p \in Range(found')
          /\ \A p \in Lasts : PackageStorage(p) = Head(dirs) /\ Scope[p] # NoScope => InStorage(p) \in Range(dirs')
          /\ \A d \in Range(dirs) : d = Head(dirs) \/ d \in Range(dirs')
        BY <1>9, FolderListed
    <2>3. SearchTypeOK'
        BY <2>1, <2>2 DEF SearchTypeOK, indexVars, Over
    <2>4. Collected' /\ Matches' /\ SearchComplete'
        BY <2>1, <2>2 DEF Collected, Matches, In, SearchComplete
    <2>5. ASSUME NEW p \in Lasts
          PROVE  p \in Range(found') \/ InStorage(p) \in Range(dirs') \/ PackageStorage(p) \in Range(dirs')
        <3>1. p \in Range(found) \/ InStorage(p) \in Range(dirs) \/ PackageStorage(p) \in Range(dirs)
            BY <2>1 DEF Walked
        <3>2. Scope[p] = NoScope => InStorage(p) = PackageStorage(p)
            BY DEF InStorage
        <3> QED
            BY <2>2, <3>1, <3>2
    <2>6. Lasts' = Lasts
        BY <2>1 DEF Lasts
    <2>7. Walked'
        BY <2>1, <2>5, <2>6 DEF Walked, Ready, HasLatest
    <2> QED
        BY <2>3, <2>4, <2>7
<1>10. CASE Listed
    <2> USE <1>10 DEF Listed, Here
    <2>1. SearchTypeOK'
        BY DEF SearchTypeOK, indexVars, Over
    <2>2. Collected' /\ Matches'
        BY DEF SearchTypeOK, Collected, Matches, In
    <2>3. Range(dirs) = {}
        BY DEF Range
    <2>4. Walked' /\ SearchComplete'
        BY <2>3 DEF Walked, Lasts, Ready, HasLatest, SearchComplete
    <2> QED
        BY <2>1, <2>2, <2>4
<1>11. ASSUME Metadata, HasLatest(Head(found)) PROVE SearchInv'
    <2> USE DEF Here
    <2> DEFINE p == Head(found)
               x == [name |-> p, from |-> "local"]
    <2>1. phase = "metadata" /\ found # <<>> /\ phase' = phase
        BY <1>11 DEF Metadata
    <2>2. stream' = Append(stream, x) /\ found' = Tail(found)
        BY <1>11 DEF Metadata
    <2>3. /\ p \in Range(found) /\ found' \in Seq(Package)
          /\ Range(found) \subseteq {p} \cup Range(found') /\ Range(found') \subseteq Range(found)
        BY <1>0, <2>1, <2>2, TailHolds
    <2>4. p \in Package /\ p \in Matching
        BY <2>3, SearchAssumption DEF Matches
    <2> HIDE DEF p
    <2>5. x \in Item /\ x.name = p /\ x.from = "local"
        BY <2>4 DEF Item
    <2> HIDE DEF x
    <2>6. stream' \in Seq(Item) /\ Range(stream') = Range(stream) \cup {x}
        BY <1>0, <2>2, <2>5, AppendHolds
    <2>7. In(stream') = In(stream) \cup {p}
        BY <2>5, <2>6 DEF In
    <2>8. UNCHANGED <<folder, changes, indexVars, throughout, up, offered, dirs, results>>
        BY <1>11 DEF Metadata
    <2>9. SearchTypeOK'
        BY <2>1, <2>3, <2>6, <2>8 DEF SearchTypeOK, indexVars, Over
    <2>10. Collected'
        BY <2>1, <2>7, <2>8 DEF Collected, In
    <2>11. Matches'
        BY <2>3, <2>4, <2>5, <2>6 DEF Matches
    <2>12. Walked' /\ SearchComplete'
        BY <2>1, <2>3, <2>7, <2>8 DEF Walked, Lasts, Ready, HasLatest, SearchComplete, In
    <2> QED
        BY <2>9, <2>10, <2>11, <2>12
<1>12. ASSUME Metadata, ~HasLatest(Head(found)) PROVE SearchInv'
    <2>1. /\ phase' \in {"rejected", "died"} /\ UNCHANGED <<stream, found>>
          /\ UNCHANGED <<folder, changes, indexVars, throughout, up, offered, dirs, results>>
        BY <1>12 DEF Metadata, Here
    <2>2. SearchTypeOK'
        BY <2>1 DEF SearchTypeOK, indexVars, Over
    <2>3. Collected' /\ Matches'
        BY <2>1, <1>12 DEF Collected, Matches, In, Metadata
    <2>4. Walked' /\ SearchComplete'
        BY <2>1 DEF Walked, Ready, HasLatest, SearchComplete
    <2> QED
        BY <2>2, <2>3, <2>4
<1>13. CASE StreamEnds
    <2> USE <1>13 DEF StreamEnds, Here
    <2>1. SearchTypeOK'
        BY DEF SearchTypeOK, indexVars, Over
    <2>2. Collected' /\ Matches'
        BY DEF SearchTypeOK, Collected, Matches, In
    <2>3. Range(found) = {}
        BY DEF Range
    <2>4. Walked' /\ SearchComplete'
        BY <2>3 DEF Walked, Lasts, In, Ready, HasLatest, SearchComplete
    <2> QED
        BY <2>1, <2>2, <2>4
<1>14. CASE Resolve
    <2> DEFINE r == RemoveDuplicates(stream)
    <2>1. /\ phase = "draining" /\ phase' = "resolved" /\ results' = r /\ stream' = <<>>
          /\ UNCHANGED <<folder, changes, indexVars, throughout, up, offered, dirs, found>>
        BY <1>14 DEF Resolve, Here
    <2>2. /\ \A i \in DOMAIN r : \E j \in DOMAIN stream : r[i] = stream[j]
          /\ \A j \in DOMAIN stream : stream[j].name \in {r[i].name : i \in DOMAIN r}
          /\ Cardinality({r[i].name : i \in DOMAIN r}) = Len(r)
        BY <1>0, Deduplicated
    <2>3. r \in Seq(Item)
        <3>1. PICK n \in Nat : DOMAIN r = 1..n /\ r = [i \in 1..n |-> r[i]]
            <4> DEFINE F == {i \in DOMAIN stream : \A j \in 1..(i - 1) : stream[j].name # stream[i].name}
                       at(i) == CHOOSE k \in F : Cardinality({j \in F : j <= k}) = i
            <4>1. r = [i \in 1..Cardinality(F) |-> stream[at(i)]]
                BY DEF RemoveDuplicates
            <4>2. IsFiniteSet(DOMAIN stream) /\ F \in SUBSET DOMAIN stream
                BY <1>0, FS_Interval
            <4> HIDE DEF F
            <4>3. Cardinality(F) \in Nat
                BY <4>2, FS_Subset, FS_CardinalityType
            <4> QED
                BY <4>1, <4>3
        <3>2. \A i \in 1..n : r[i] \in Item
            BY <1>0, <2>2, <3>1
        <3> QED
            BY <3>1, <3>2
    <2> HIDE DEF r
    <2>4. SearchTypeOK'
        BY <2>1, <2>3 DEF SearchTypeOK, indexVars, Over
    <2>5. Collected' /\ Walked'
        BY <2>1 DEF Collected, Walked, Ready, HasLatest
    <2>6. Matches'
        BY <2>1 DEF Matches, Range
    <2>7. Names' = {r[i].name : i \in DOMAIN r}
        BY <2>1 DEF Names
    <2>8. In(stream) \subseteq Names'
        BY <2>2, <2>7 DEF In, Range
    <2>9. \A u \in Uplink : ToSet(offered[u]) \subseteq In(stream)
        BY <2>1 DEF Collected
    <2>10. throughout \cap Matching \subseteq In(stream)
        BY <2>1 DEF Walked, Lasts
    <2>11. ASSUME NEW i \in DOMAIN r, r[i].from = "local" PROVE r[i].name \in Matching
        BY <2>2, <2>11 DEF Matches, Range
    <2> DEFINE all == UNION {ToSet(offered'[u]) : u \in Uplink}
    <2>12. \A x \in all : x \in Names'
        <3>1. \A u \in Uplink : ToSet(offered'[u]) \subseteq Names'
            BY <2>1, <2>8, <2>9
        <3> HIDE DEF Names
        <3> QED
            BY <3>1
    <2>13. Cardinality(Names') = Len(results')
        BY <2>1, <2>2, <2>7
    <2>14. throughout' \cap Matching \subseteq Names'
        BY <2>1, <2>8, <2>10
    <2> HIDE DEF all
    <2>15. all \cup (throughout' \cap Matching) \subseteq Names'
        BY <2>12, <2>14
    <2>16. \A i \in DOMAIN results' : results'[i].from = "local" => results'[i].name \in Matching
        <3>1. \A i \in DOMAIN r : r[i].from = "local" => r[i].name \in Matching
            BY <2>11
        <3>2. results' = r
            BY <2>1
        <3> QED
            BY <3>1, <3>2, Zenon
    <2>17. SearchComplete'
        BY <2>13, <2>15, <2>16, Zenon DEF SearchComplete, all
    <2> QED
        BY <2>4, <2>5, <2>6, <2>17
<1>15. CASE UNCHANGED allVars
    <2>1. UNCHANGED <<folder, changes, indexVars, searchVars, throughout>>
        BY <1>15 DEF allVars
    <2>2. SearchTypeOK'
        BY <2>1 DEF SearchTypeOK, indexVars, searchVars, Over
    <2> QED
        BY <2>1, <2>2, ChangeSearched DEF Walked, Ready, HasLatest
<1>16. Idle => UNCHANGED allVars
    BY Zenon DEF Idle
<1>17. Searching => SearchInv'
    BY <1>5, <1>6, <1>7, <1>8, <1>9, <1>10, <1>11, <1>12, <1>13, <1>14, Zenon DEF Searching
<1>18. Indexing => SearchInv'
    BY <1>3, Zenon DEF Indexing
<1> QED
    BY <1>1, <1>2, <1>4, <1>15, <1>16, <1>17, <1>18, Zenon DEF SearchNext

\* A search starts with nothing.
LEMMA SearchInitially == SearchInit => SearchInv
<1> SUFFICES ASSUME SearchInit PROVE SearchInv
    OBVIOUS
<1> USE DEF SearchInit
<1>1. SearchTypeOK
    <2>1. list \in Seq(Package) /\ folder \in [Package -> {"none", "bare", "empty", "ready"}]
        BY ReadyListed
    <2>2. up \in [Uplink -> {"asked", "sent", "paused", "ended", "failed"}]
        OBVIOUS
    <2>3. stream \in Seq(Item) /\ found \in Seq(Package) /\ results \in Seq(Item) /\ dirs \in Seq(Folders)
        OBVIOUS
    <2>4. (IF list = <<>> THEN {} ELSE {list[1]}) \in SUBSET Package
        BY <2>1
    <2>5. reindexing \in [at : Nat, reading : SUBSET Package, seen : SUBSET Package, on : BOOLEAN]
        BY <2>4
    <2>6. changes \in 0..MaxChanges /\ due \subseteq Package /\ shifted \in Nat
        BY SearchAssumption DEF Ready
    <2> QED
        BY <2>1, <2>2, <2>3, <2>5, <2>6 DEF SearchTypeOK
<1>2. Collected /\ Walked /\ SearchComplete
    BY DEF Collected, Walked, SearchComplete
<1>3. Matches
    BY DEF Matches, Range
<1> QED
    BY <1>1, <1>2, <1>3 DEF SearchInv

LEMMA SearchSteps == SearchSpec => SearchInit /\ [][SearchNext]_allVars
    BY PTL DEF SearchSpec

\* SearchComplete: a search that resolves has what the uplinks offered and what
\* was here all the time, each name once, whatever comes and goes meanwhile and
\* whatever is in a storage of its own or under a scope.
THEOREM SearchIsComplete == SearchSpec => []SearchComplete
<1>1. SearchInv => SearchComplete
    BY DEF SearchInv
<1> QED
    BY <1>1, SearchInitially, NextSearched, SearchSteps, PTL

\* The variables have the values the code gives them.
THEOREM SearchTyped == SearchSpec => []SearchTypeOK
<1>1. SearchInv => SearchTypeOK
    BY DEF SearchInv
<1> QED
    BY <1>1, SearchInitially, NextSearched, SearchSteps, PTL

-----------------------------------------------------------------------------
(* The index *)

\* What the reindexing has read, is reading, and has still to read.
ToIndex ==
    IF reindexing.on
    THEN reindexing.seen \cup reindexing.reading \cup {list[j] : j \in (reindexing.at + 1)..Len(list)}
    ELSE {}

\* What is due is there, and is indexed or has a version; and it is indexed or
\* will be, but for some packages, no more than were shifted.
Indexed ==
    /\ \A p \in due : folder[p] \in {"empty", "ready"} /\ (p \in index \/ HasLatest(p))
    /\ \E M \in SUBSET Package : Cardinality(M) <= shifted /\ due \subseteq index \cup M \cup ToIndex

\* One package more that may be missing.
LEMMA OneMore ==
    ASSUME NEW M \in SUBSET Package, NEW x \in Package, NEW n \in Nat, Cardinality(M) <= n
    PROVE  M \cup {x} \in SUBSET Package /\ Cardinality(M \cup {x}) <= n + 1
<1>1. IsFiniteSet(M)
    BY SearchAssumption, FS_Subset
<1>2. Cardinality(M) \in Nat
    BY <1>1, FS_CardinalityType
<1>3. Cardinality(M \cup {x}) = Cardinality(M) \/ Cardinality(M \cup {x}) = Cardinality(M) + 1
    BY <1>1, FS_AddElement
<1> QED
    BY <1>2, <1>3

\* A removal takes one package off what is still to be read, or two: the one
\* removed, and the one that moves to a position already passed.
LEMMA Spliced ==
    ASSUME list \in Seq(Package), reindexing.at \in Nat, reindexing.on, NEW i \in DOMAIN list,
           list' = RemoveAt(list, i), reindexing' = reindexing
    PROVE  /\ i > reindexing.at => ToIndex \subseteq ToIndex' \cup {list[i]}
           /\ \E x \in Package : ToIndex \subseteq ToIndex' \cup {list[i], x}
<1> DEFINE at == reindexing.at
           rest == {list[j] : j \in (at + 1)..Len(list)}
           rest2 == {list'[j] : j \in (at + 1)..Len(list')}
<1>1. /\ Len(list) \in Nat /\ DOMAIN list = 1..Len(list) /\ \A j \in 1..Len(list) : list[j] \in Package
      /\ Len(list') = Len(list) - 1
      /\ \A j \in 1..(i - 1) : list'[j] = list[j]
      /\ \A j \in i..(Len(list) - 1) : list'[j] = list[j + 1]
    <2>1. Len(list) \in Nat /\ DOMAIN list = 1..Len(list) /\ \A j \in 1..Len(list) : list[j] \in Package
        OBVIOUS
    <2> DEFINE r == RemoveAt(list, i)
    <2>2. /\ Len(r) = Len(list) - 1
          /\ \A j \in 1..(i - 1) : r[j] = list[j]
          /\ \A j \in i..(Len(list) - 1) : r[j] = list[j + 1]
        BY RemoveHolds
    <2>3. list' = r
        OBVIOUS
    <2> HIDE DEF r
    <2> QED
        BY <2>1, <2>2, <2>3
<1>2. ASSUME NEW j \in (at + 1)..Len(list), j # i, j # at + 1 \/ i > at PROVE list[j] \in rest2
    <2>1. CASE j < i
        <3>1. j \in (at + 1)..Len(list') /\ j \in 1..(i - 1)
            BY <1>1, <1>2, <2>1
        <3>2. list'[j] = list[j]
            BY <1>1, <3>1
        <3> QED
            BY <3>1, <3>2
    <2>2. CASE j > i
        <3>1. j - 1 \in (at + 1)..Len(list') /\ j - 1 \in i..(Len(list) - 1) /\ (j - 1) + 1 = j
            BY <1>1, <1>2, <2>2
        <3>2. list'[j - 1] = list[j]
            BY <1>1, <3>1
        <3> QED
            BY <3>1, <3>2
    <2> QED
        BY <1>1, <1>2, <2>1, <2>2
<1>3. ASSUME i > at PROVE rest \subseteq rest2 \cup {list[i]}
    BY <1>2, <1>3
<1>4. ASSUME at + 1 \in 1..Len(list) PROVE rest \subseteq rest2 \cup {list[i], list[at + 1]}
    BY <1>2
<1>5. ASSUME at + 1 \notin 1..Len(list) PROVE rest = {}
    BY <1>1, <1>5
<1>6. list[i] \in Package
    BY <1>1
<1>7. \E x \in Package : rest \subseteq rest2 \cup {list[i], x}
    <2>1. CASE at + 1 \in 1..Len(list)
        BY <1>1, <1>4, <2>1
    <2>2. CASE at + 1 \notin 1..Len(list)
        BY <1>5, <1>6, <2>2
    <2> QED
        BY <2>1, <2>2
<1>8. ToIndex = reindexing.seen \cup reindexing.reading \cup rest
      /\ ToIndex' = reindexing.seen \cup reindexing.reading \cup rest2
    BY DEF ToIndex
<1> QED
    BY <1>3, <1>7, <1>8

LEMMA NextIndexed == SearchInv /\ Indexed /\ [SearchNext]_allVars => Indexed'
<1> SUFFICES ASSUME SearchInv, Indexed, [SearchNext]_allVars PROVE Indexed'
    OBVIOUS
<1>0. SearchTypeOK
    BY DEF SearchInv
<1>t. /\ folder \in [Package -> {"none", "bare", "empty", "ready"}] /\ list \in Seq(Package)
      /\ index \subseteq Package /\ due \subseteq Package /\ shifted \in Nat /\ reindexing.at \in Nat
      /\ reindexing.on \in BOOLEAN /\ reindexing.reading \subseteq Package
      /\ reindexing.seen \subseteq Package
      /\ reindexing \in [at : Nat, reading : SUBSET Package, seen : SUBSET Package, on : BOOLEAN]
    BY <1>0 DEF SearchTypeOK
<1>m. PICK M \in SUBSET Package : Cardinality(M) <= shifted /\ due \subseteq index \cup M \cup ToIndex
    BY DEF Indexed
<1>d. \A p \in due : folder[p] \in {"empty", "ready"} /\ (p \in index \/ folder[p] = "ready")
    BY DEF Indexed, HasLatest
<1>1. ASSUME NEW p \in Package, CreateFolder(p) \/ CreatePackage(p) \/ AddVersion(p) PROVE Indexed'
    <2>1. /\ UNCHANGED <<list, reindexing, shifted>> /\ index \subseteq index'
          /\ due' = due \/ (due' = due \cup {p} /\ p \in index')
        BY <1>1 DEF CreateFolder, CreatePackage, AddVersion, indexVars
    <2>2. \A x \in due' : folder'[x] \in {"empty", "ready"} /\ (x \in index' \/ folder'[x] = "ready")
        BY <1>t, <1>d, <1>1 DEF CreateFolder, CreatePackage, AddVersion, Folder, indexVars
    <2>3. ToIndex' = ToIndex
        BY <2>1 DEF ToIndex
    <2>4. due' \subseteq index' \cup M \cup ToIndex'
        BY <1>m, <2>1, <2>3
    <2> QED
        BY <1>m, <2>1, <2>2, <2>4 DEF Indexed, HasLatest
<1>2. ASSUME NEW p \in Package, RemoveFolder(p) PROVE Indexed'
    <2>1. p \notin due /\ UNCHANGED <<list, reindexing, due, shifted>> /\ index' = index \ {p}
        BY <1>d, <1>2 DEF RemoveFolder
    <2>2. \A x \in due : folder'[x] = folder[x]
        BY <1>t, <1>2, <2>1 DEF RemoveFolder, Folder
    <2>3. ToIndex' = ToIndex
        BY <2>1 DEF ToIndex
    <2>4. due' \subseteq index' \cup M \cup ToIndex'
        BY <1>m, <2>1, <2>3
    <2>5. \A x \in due' : folder'[x] \in {"empty", "ready"} /\ (x \in index' \/ folder'[x] = "ready")
        BY <1>d, <2>1, <2>2
    <2> QED
        BY <1>m, <2>1, <2>4, <2>5 DEF Indexed, HasLatest
<1>3. ASSUME NEW p \in Package, RemoveMetadata(p) PROVE Indexed'
    <2>1. due' = due \ {p} /\ UNCHANGED <<index, reindexing>> /\ \A x \in due' : folder'[x] = folder[x]
        BY <1>t, <1>3 DEF RemoveMetadata, Folder
    <2>2. \A x \in due' : folder'[x] \in {"empty", "ready"} /\ (x \in index' \/ folder'[x] = "ready")
        BY <1>d, <2>1
    <2>3. \E N \in SUBSET Package : Cardinality(N) <= shifted' /\ due' \subseteq index' \cup N \cup ToIndex'
        <3>1. CASE p \notin ToSet(list) /\ UNCHANGED <<list, shifted>>
            <4>1. ToIndex' = ToIndex
                BY <2>1, <3>1 DEF ToIndex
            <4> QED
                BY <1>m, <2>1, <3>1, <4>1
        <3>2. ASSUME NEW i \in DOMAIN list, list[i] = p, list' = RemoveAt(list, i),
                     shifted' = IF reindexing.on /\ i <= reindexing.at THEN shifted + 1 ELSE shifted
              PROVE  \E N \in SUBSET Package : Cardinality(N) <= shifted' /\ due' \subseteq index' \cup N \cup ToIndex'
            <4>0. i \in Nat
                BY <1>t
            <4>1. CASE ~reindexing.on
                <5>1. ToIndex = {} /\ shifted' = shifted
                    BY <3>2, <4>1 DEF ToIndex
                <5> QED
                    BY <1>m, <2>1, <5>1
            <4>2. CASE reindexing.on /\ i > reindexing.at
                <5>1. ToIndex \subseteq ToIndex' \cup {p} /\ shifted' = shifted
                    BY <1>t, <2>1, <3>2, <4>0, <4>2, Spliced
                <5> QED
                    BY <1>m, <2>1, <5>1
            <4>3. CASE reindexing.on /\ i <= reindexing.at
                <5>1. PICK x \in Package : ToIndex \subseteq ToIndex' \cup {p, x}
                    BY <1>t, <2>1, <3>2, <4>3, Spliced
                <5>2. M \cup {x} \in SUBSET Package /\ Cardinality(M \cup {x}) <= shifted + 1
                    BY <1>t, <1>m, OneMore
                <5>3. due' \subseteq index' \cup (M \cup {x}) \cup ToIndex'
                    BY <1>m, <2>1, <5>1
                <5>4. shifted' = shifted + 1
                    BY <3>2, <4>3
                <5> QED
                    BY <5>2, <5>3, <5>4
            <4> QED
                BY <1>t, <4>0, <4>1, <4>2, <4>3
        <3> QED
            BY <1>3, <3>1, <3>2 DEF RemoveMetadata
    <2> QED
        BY <2>2, <2>3 DEF Indexed, HasLatest
<1>4. ASSUME NEW p \in Package, AddToList(p) PROVE Indexed'
    <2>1. list' = Append(list, p) /\ UNCHANGED <<folder, index, due, shifted, reindexing>>
        BY <1>4 DEF AddToList
    <2>2. Len(list) \in Nat /\ Len(list') = Len(list) + 1 /\ \A j \in 1..Len(list) : list'[j] = list[j]
        BY <1>t, <2>1
    <2>3. {list[j] : j \in (reindexing.at + 1)..Len(list)} \subseteq {list'[j] : j \in (reindexing.at + 1)..Len(list')}
        <3>1. ASSUME NEW j \in (reindexing.at + 1)..Len(list) PROVE j \in (reindexing.at + 1)..Len(list') /\ list'[j] = list[j]
            BY <1>t, <2>2
        <3> QED
            BY <3>1
    <2>4. ToIndex \subseteq ToIndex'
        BY <2>1, <2>3 DEF ToIndex
    <2> QED
        BY <1>m, <1>d, <2>1, <2>4 DEF Indexed, HasLatest
<1>5. CASE ReadForIndex
    <2>1. /\ UNCHANGED <<folder, list, index, due, shifted>>
          /\ reindexing'.on = reindexing.on /\ reindexing'.at = reindexing.at
          /\ reindexing'.reading = {} /\ reindexing'.seen = reindexing.seen \cup (reindexing.reading \cap Ready)
        BY <1>t, <1>5 DEF ReadForIndex
    <2>2. \A x \in due : x \in ToIndex => x \in index \/ x \in ToIndex'
        BY <1>t, <1>d, <2>1 DEF ToIndex, Ready, HasLatest
    <2>3. due \subseteq index \cup M \cup ToIndex'
        BY <1>m, <2>2
    <2> QED
        BY <1>m, <1>d, <2>1, <2>3 DEF Indexed, HasLatest
<1>6. CASE ReadNext
    <2> DEFINE at == reindexing.at
    <2>1. /\ UNCHANGED <<folder, list, index, due, shifted>> /\ reindexing.reading = {} /\ at < Len(list)
          /\ reindexing.on /\ reindexing'.on /\ reindexing'.at = at + 1
          /\ reindexing'.reading = {list[at + 1]} /\ reindexing'.seen = reindexing.seen
        BY <1>t, <1>6 DEF ReadNext
    <2>2. ASSUME NEW j \in (at + 1)..Len(list) PROVE j = at + 1 \/ j \in ((at + 1) + 1)..Len(list)
        BY <1>t
    <2>3. {list[j] : j \in (at + 1)..Len(list)} \subseteq {list[at + 1]} \cup {list[j] : j \in ((at + 1) + 1)..Len(list)}
        BY <2>2
    <2>4. ToIndex \subseteq ToIndex'
        BY <2>1, <2>3 DEF ToIndex
    <2>5. due \subseteq index \cup M \cup ToIndex'
        BY <1>m, <2>4
    <2> QED
        BY <1>m, <1>d, <2>1, <2>5 DEF Indexed, HasLatest
<1>7. CASE Reindexed
    <2>1. /\ UNCHANGED <<folder, list, due, shifted>> /\ reindexing.reading = {} /\ reindexing.at >= Len(list)
          /\ index' = index \cup reindexing.seen
        BY <1>t, <1>7 DEF Reindexed
    <2>2. (reindexing.at + 1)..Len(list) = {}
        BY <1>t, <2>1
    <2>3. ToIndex \subseteq index'
        BY <2>1, <2>2 DEF ToIndex
    <2>4. due' \subseteq index' \cup M \cup ToIndex'
        BY <1>m, <2>1, <2>3
    <2> QED
        BY <1>m, <1>d, <2>1, <2>4 DEF Indexed, HasLatest
<1>8. ASSUME UNCHANGED <<folder, indexVars>> PROVE Indexed'
    <2>1. UNCHANGED <<folder, list, index, reindexing, due, shifted>>
        BY <1>8 DEF indexVars
    <2>2. ToIndex' = ToIndex
        BY <2>1 DEF ToIndex
    <2> QED
        BY <1>m, <1>d, <2>1, <2>2 DEF Indexed, HasLatest
<1>9. Begin \/ Idle \/ UNCHANGED allVars => Indexed'
    BY <1>8 DEF Begin, Idle, allVars
<1>10. Searching => Indexed'
    BY <1>8 DEF Searching, UplinkFails, UplinkAnswers, UplinkEnds, UplinksDone, ListFolder, Listed, Metadata,
                StreamEnds, Resolve, Here
<1>11. Indexing => Indexed'
    BY <1>5, <1>6, <1>7 DEF Indexing
<1> QED
    BY <1>1, <1>2, <1>3, <1>4, <1>9, <1>10, <1>11 DEF SearchNext

LEMMA IndexedAtStart == SearchInit => Indexed
<1> SUFFICES ASSUME SearchInit PROVE Indexed
    OBVIOUS
<1>1. list \in Seq(Package) /\ Range(list) = Ready /\ due = Ready /\ shifted = 0 /\ list = SetToSeq(Ready)
    BY ReadyListed DEF SearchInit
<1>2. /\ reindexing.on = (list # <<>>) /\ reindexing.at = 1
      /\ reindexing.reading = IF list = <<>> THEN {} ELSE {list[1]}
    BY DEF SearchInit
<1>3. Ready \subseteq ToIndex
    <2>1. CASE list = <<>>
        BY <1>1, <2>1 DEF Range
    <2>2. CASE list # <<>>
        <3>1. ASSUME NEW j \in DOMAIN list PROVE j = 1 \/ j \in (1 + 1)..Len(list)
            BY <1>1
        <3>2. \A j \in DOMAIN list : list[j] \in ToIndex
            BY <1>2, <2>2, <3>1 DEF ToIndex
        <3> QED
            BY <1>1, <3>2 DEF Range
    <2> QED
        BY <2>1, <2>2
<1>4. {} \in SUBSET Package /\ Cardinality({}) <= shifted
    BY <1>1, FS_EmptySet
<1>5. due \subseteq index \cup {} \cup ToIndex
    BY <1>1, <1>3
<1>6. \A p \in due : folder[p] \in {"empty", "ready"} /\ (p \in index \/ HasLatest(p))
    BY <1>1 DEF Ready, HasLatest
<1> QED
    BY <1>4, <1>5, <1>6 DEF Indexed

\* When the reindexing is over, of the packages that were listed at the start or
\* created since, and not removed, no more are missing in the index than packages
\* were removed at positions that getLocalDatabase had passed.
THEOREM IndexIsComplete == SearchSpec => []IndexComplete
<1>1. SearchTypeOK /\ Indexed => IndexComplete
    <2> SUFFICES ASSUME SearchTypeOK, Indexed, ~reindexing.on PROVE Cardinality(due \ index) <= shifted
        BY DEF IndexComplete
    <2>1. PICK M \in SUBSET Package : Cardinality(M) <= shifted /\ due \subseteq index \cup M
        BY DEF Indexed, ToIndex
    <2>2. IsFiniteSet(M) /\ due \ index \subseteq M
        BY <2>1, SearchAssumption, FS_Subset
    <2>3. Cardinality(due \ index) <= Cardinality(M) /\ IsFiniteSet(due \ index)
        BY <2>2, FS_Subset
    <2>4. Cardinality(due \ index) \in Nat /\ Cardinality(M) \in Nat /\ shifted \in Nat
        BY <2>2, <2>3, FS_CardinalityType DEF SearchTypeOK
    <2> QED
        BY <2>1, <2>3, <2>4
<1>2. SearchInv => SearchTypeOK
    BY DEF SearchInv
<1> QED
    BY <1>1, <1>2, SearchInitially, IndexedAtStart, NextSearched, NextIndexed, SearchSteps, PTL

-----------------------------------------------------------------------------
(* The package folder *)

USE ReqAssumption, MarkAssumption, BoundAssumption DEF Req, Content, Step

\* The updates whose content was renamed into place.
Applied == {u \in Updaters : u \in acked \/ pc[u] = "committed"}

\* Until a lock is refused or stolen, an update that is inside holds the lock.
LockHeld == failures = 0 => \A u \in Inside : lock = u

\* A lock file keeps its folder.
LockKeepsFolder == lock # NoLock => dir

\* A removal writes nothing; an update writes its own change.
Roles ==
    /\ \A d \in Removers : pc[d] \in {"idle", "unlinking", "rmdir", "done"}
    /\ \A u \in Updaters : pc[u] \in {"writing", "renaming"} => u \in mem[u]

\* The content on disk has every applied update ...
AppliedKept == failures = 0 /\ bare = {} => \A u \in Applied : Readable /\ u \in json

\* ... and so has the content of every update that read it under the lock.
HeldComplete ==
    failures = 0 /\ bare = {} =>
        \A u \in Updaters : pc[u] \in {"updating", "writing", "renaming"} => Applied \subseteq mem[u]

Inv ==
    /\ TypeOK /\ Roles /\ LockHeld /\ LockKeepsFolder
    /\ AppliedKept /\ HeldComplete /\ EmptyOnlyWhileCreating

\* There is no update yet, and no package.json that is empty.
LEMMA InitInv == Init => Inv
  <1> SUFFICES ASSUME Init PROVE Inv  OBVIOUS
  <1>1. TypeOK  BY DEF Init, TypeOK
  <1>2. Roles /\ LockHeld /\ LockKeepsFolder
    BY DEF Init, Roles, LockHeld, LockKeepsFolder, Inside
  <1>3. AppliedKept /\ HeldComplete
    BY DEF Init, AppliedKept, HeldComplete, Applied
  <1>4. EmptyOnlyWhileCreating
    <2>1. {} # Empty  OBVIOUS
    <2> QED  BY <2>1 DEF Init, EmptyOnlyWhileCreating
  <1> QED  BY <1>1, <1>2, <1>3, <1>4 DEF Inv

\* Every action keeps the types.
LEMMA TypeInv == ASSUME Inv, Next PROVE TypeOK'
  <1>1. ASSUME NEW u \in Updaters, Update(u) PROVE TypeOK'
    BY <1>1 DEF Inv, TypeOK, Update, Stat, Acquire, StealLive, GiveUp, LockNoDir, Read,
                ReadFail, Handle, HandleFail, Unlock, Goto, disk, counts, Readable
  <1>2. ASSUME NEW c \in Creators, Open(c) PROVE TypeOK'
    BY <1>2 DEF Inv, TypeOK, Open, Goto, counts
  <1>3. ASSUME NEW s \in Savers, Load(s) PROVE TypeOK'
    BY <1>3 DEF Inv, TypeOK, Load, Goto, disk, counts
  <1>4. ASSUME NEW r \in Req, WriteTemp(r) PROVE TypeOK'
    BY <1>4 DEF Inv, TypeOK, WriteTemp, Goto, counts
  <1>5. ASSUME NEW r \in Req, Rename(r) PROVE TypeOK'
    BY <1>5 DEF Inv, TypeOK, Rename, Goto, counts
  <1>6. ASSUME NEW r \in Req, WriteFail(r) PROVE TypeOK'
    <2>1. temp' \in SUBSET Req  BY <1>6 DEF Inv, TypeOK, WriteFail
    <2> QED  BY <1>6, <2>1 DEF Inv, TypeOK, WriteFail, Goto, counts
  <1>7. ASSUME NEW d \in Removers, Find(d) PROVE TypeOK'
    BY <1>7 DEF Inv, TypeOK, Find, Goto, disk, counts
  <1>8. ASSUME NEW d \in Removers, Unlink(d) PROVE TypeOK'
    BY <1>8 DEF Inv, TypeOK, Unlink, Goto, disk, counts
  <1>9. ASSUME NEW d \in Removers, Rmdir(d) PROVE TypeOK'
    BY <1>9 DEF Inv, TypeOK, Rmdir, Goto, disk, counts
  <1>10. CASE Crash
    BY <1>10 DEF Inv, TypeOK, Crash
  <1>11. CASE Finished
    BY <1>11 DEF Inv, TypeOK, Finished, vars, disk, counts
  <1> QED  BY <1>1, <1>2, <1>3, <1>4, <1>5, <1>6, <1>7, <1>8, <1>9, <1>10, <1>11 DEF Next

\* The steps of an update but for its writing and renaming: what it reads is
\* complete, and it holds the lock until it answers.
LEMMA UpdateInv == ASSUME Inv, TypeOK', NEW u \in Updaters, Update(u) PROVE Inv'
  <1>1. Roles'
    BY DEF Inv, TypeOK, Roles, Update, Stat, Acquire, StealLive, GiveUp, LockNoDir, Read,
                ReadFail, Handle, HandleFail, Unlock, Goto, disk, counts, Readable
  <1>2. LockHeld'
    BY DEF Inv, TypeOK, LockHeld, Inside, Update, Stat, Acquire, StealLive, GiveUp, LockNoDir, Read,
                ReadFail, Handle, HandleFail, Unlock, Goto, disk, counts, Readable
  <1>3. LockKeepsFolder'
    BY DEF Inv, TypeOK, LockKeepsFolder, Update, Stat, Acquire, StealLive, GiveUp, LockNoDir, Read,
                ReadFail, Handle, HandleFail, Unlock, Goto, disk, counts, Readable
  <1>4. AppliedKept'
    BY DEF Inv, TypeOK, AppliedKept, Applied, Update, Stat, Acquire, StealLive, GiveUp, LockNoDir, Read,
                ReadFail, Handle, HandleFail, Unlock, Goto, disk, counts, Readable
  <1>5. HeldComplete'
    BY DEF Inv, TypeOK, AppliedKept, HeldComplete, Applied, Update, Stat, Acquire, StealLive, GiveUp, LockNoDir, Read,
                ReadFail, Handle, HandleFail, Unlock, Goto, disk, counts, Readable
  <1>6. EmptyOnlyWhileCreating'
    BY DEF Inv, TypeOK, EmptyOnlyWhileCreating, Update, Stat, Acquire, StealLive, GiveUp, LockNoDir, Read,
                ReadFail, Handle, HandleFail, Unlock, Goto, disk, counts, Readable
  <1> QED  BY <1>1, <1>2, <1>3, <1>4, <1>5, <1>6 DEF Inv

\* A creation, or the read of a save: neither is an update.
LEMMA OpenLoadInv ==
    ASSUME Inv, TypeOK',
           (\E c \in Creators : Open(c)) \/ (\E s \in Savers : Load(s))
    PROVE  Inv'
  <1>1. Roles' /\ LockHeld' /\ LockKeepsFolder'
    BY DEF Inv, TypeOK, Roles, LockHeld, LockKeepsFolder, Inside, Open, Load, Goto, disk, counts
  <1>2. AppliedKept' /\ HeldComplete'
    BY DEF Inv, TypeOK, AppliedKept, HeldComplete, Applied, Open, Load, Goto, disk, counts, Readable
  <1>3. EmptyOnlyWhileCreating'
    BY ZenonT(60) DEF Inv, TypeOK, EmptyOnlyWhileCreating, Open, Load, Goto, disk, counts
  <1> QED  BY <1>1, <1>2, <1>3 DEF Inv

\* A temporary file changes nothing that anybody reads.
LEMMA WriteTempInv ==
    ASSUME Inv, TypeOK', NEW r \in Req, WriteTemp(r) PROVE Inv'
  <1>1. Roles' /\ LockHeld' /\ LockKeepsFolder'
    BY DEF Inv, TypeOK, Roles, LockHeld, LockKeepsFolder, Inside, WriteTemp, Goto, counts
  <1>2. AppliedKept' /\ HeldComplete'
    BY DEF Inv, TypeOK, AppliedKept, HeldComplete, Applied, WriteTemp, Goto, counts, Readable
  <1>3. EmptyOnlyWhileCreating'
    BY DEF Inv, TypeOK, EmptyOnlyWhileCreating, WriteTemp, Goto, counts
  <1> QED  BY <1>1, <1>2, <1>3 DEF Inv

\* The step that matters.  An update under the lock writes back all that was
\* applied; anything else is counted in bare, or finds nothing to lose.
LEMMA RenameInv ==
    ASSUME Inv, TypeOK', NEW r \in Req, Rename(r) PROVE Inv'
  <1>1. Roles' /\ LockHeld' /\ LockKeepsFolder'
    BY DEF Inv, TypeOK, Roles, LockHeld, LockKeepsFolder, Inside, Rename, Goto, counts
  <1>2. AppliedKept'
    BY DEF Inv, TypeOK, Roles, AppliedKept, HeldComplete, Applied, Rename, Goto, counts, Readable
  <1>3. HeldComplete'
    <2> SUFFICES ASSUME failures = 0, bare' = {}, NEW u \in Updaters,
                        pc'[u] \in {"updating", "writing", "renaming"}
                 PROVE  Applied' \subseteq mem'[u]
      BY DEF HeldComplete, Rename, counts
    <2>1. u # r /\ pc[u] = pc'[u] /\ mem'[u] = mem[u] /\ bare = {}
      BY DEF Inv, TypeOK, Rename, Goto
    <2>2. r \notin Updaters
      BY <2>1 DEF Inv, LockHeld, Inside, Rename
    <2>3. Applied' = Applied
      BY <2>2 DEF Inv, TypeOK, Applied, Rename, Goto
    <2> QED  BY <2>1, <2>3 DEF Inv, HeldComplete
  <1>4. EmptyOnlyWhileCreating'
    BY DEF Inv, TypeOK, EmptyOnlyWhileCreating, Rename, Goto, counts
  <1> QED  BY <1>1, <1>2, <1>3, <1>4 DEF Inv

\* A failing write leaves package.json as it is and is counted.
LEMMA WriteFailInv ==
    ASSUME Inv, TypeOK', NEW r \in Req, WriteFail(r) PROVE Inv'
  <1>1. Roles' /\ LockHeld' /\ LockKeepsFolder'
    BY DEF Inv, TypeOK, Roles, LockHeld, LockKeepsFolder, Inside, WriteFail, Goto, counts
  <1>2. AppliedKept' /\ HeldComplete'
    BY DEF Inv, TypeOK, AppliedKept, HeldComplete, Applied, WriteFail, Goto, counts, Readable
  <1>3. EmptyOnlyWhileCreating'
    BY DEF Inv, TypeOK, EmptyOnlyWhileCreating, WriteFail
  <1> QED  BY <1>1, <1>2, <1>3 DEF Inv

\* A removal unlinks package.json without the lock, which bare records.
LEMMA RemoveInv ==
    ASSUME Inv, TypeOK', NEW d \in Removers, Find(d) \/ Unlink(d) \/ Rmdir(d) PROVE Inv'
  <1>1. Roles' /\ LockHeld' /\ LockKeepsFolder'
    BY DEF Inv, TypeOK, Roles, LockHeld, LockKeepsFolder, Inside, Find, Unlink, Rmdir, Goto, disk, counts
  <1>2. AppliedKept' /\ HeldComplete'
    BY DEF Inv, TypeOK, AppliedKept, HeldComplete, Applied, Find, Unlink, Rmdir, Goto, disk, counts, Readable
  <1>3. EmptyOnlyWhileCreating'
    BY DEF Inv, TypeOK, EmptyOnlyWhileCreating, Find, Unlink, Rmdir, Goto, disk, counts
  <1> QED  BY <1>1, <1>2, <1>3 DEF Inv

\* A crash leaves nobody inside.
LEMMA CrashInv == ASSUME Inv, TypeOK', Crash PROVE Inv'
  BY DEF Inv, TypeOK, Roles, LockHeld, LockKeepsFolder, Inside, AppliedKept, HeldComplete, Applied,
         EmptyOnlyWhileCreating, Crash, Readable

\* Nothing changes.
LEMMA StutterInv == ASSUME Inv, UNCHANGED vars PROVE Inv'
  BY DEF Inv, TypeOK, Roles, LockHeld, LockKeepsFolder, Inside, AppliedKept, HeldComplete, Applied,
         EmptyOnlyWhileCreating, Readable, vars, disk, counts

\* Every reachable state satisfies the invariant.
THEOREM InvHolds == Spec => []Inv
  <1>1. Inv /\ [Next]_vars => Inv'
    <2> SUFFICES ASSUME Inv, [Next]_vars PROVE Inv'  OBVIOUS
    <2>1. CASE UNCHANGED vars  BY <2>1, StutterInv
    <2>2. CASE Next
      BY <2>2, TypeInv, UpdateInv, OpenLoadInv, WriteTempInv, RenameInv, WriteFailInv, RemoveInv,
         CrashInv, StutterInv DEF Next, Finished
    <2> QED  BY <2>1, <2>2
  <1> QED  BY <1>1, InitInv, PTL DEF Spec

\* Every state of the folder and of its requests has its type.
THEOREM TypeCorrect == Spec => []TypeOK
  BY InvHolds, PTL DEF Inv

\* An update that was answered with success stays in package.json until a lock
\* is refused or stolen, or somebody writes or removes it without the lock.
THEOREM UpdatesAreKept == Spec => []UpdatesSurvive
  <1>1. Inv => UpdatesSurvive
    BY DEF Inv, TypeOK, AppliedKept, Applied, UpdatesSurvive
  <1> QED  BY <1>1, InvHolds, PTL

\* package.json is empty only while it is created, or after a creation that a
\* crash or a failing write cut short.
THEOREM EmptyWhileCreating == Spec => []EmptyOnlyWhileCreating
  BY InvHolds, PTL DEF Inv

\* Until a lock is refused or stolen, no update that was under way brings a
\* removed package back.
THEOREM RemovedStaysRemoved == Spec => NoResurrection
  <1> DEFINE A == ~dir /\ dir' /\ failures = 0 =>
                    \E r \in Creators \cup Savers : pc[r] = "writing" /\ pc'[r] = "renaming"
  <1>1. Inv /\ [Next]_vars => [A]_vars
    <2> SUFFICES ASSUME Inv, Next, ~dir, dir', failures = 0
                 PROVE  \E r \in Creators \cup Savers : pc[r] = "writing" /\ pc'[r] = "renaming"
      OBVIOUS
    <2>1. PICK r \in Req : WriteTemp(r)
      BY DEF Next, Update, Stat, Acquire, StealLive, GiveUp, LockNoDir, Read, ReadFail, Handle,
             HandleFail, Unlock, Open, Load, Rename, WriteFail, Find, Unlink, Rmdir, Crash,
             Finished, Goto, disk, vars
    <2>2. pc[r] = "writing" /\ pc'[r] = "renaming"
      BY <2>1 DEF WriteTemp, Goto, Inv, TypeOK
    <2>3. r \notin Updaters
      BY <2>2 DEF Inv, LockHeld, LockKeepsFolder, Inside
    <2>4. r \notin Removers
      BY <2>2 DEF Inv, Roles
    <2> QED  BY <2>2, <2>3, <2>4
  <1> QED  BY <1>1, InvHolds, PTL DEF Spec, NoResurrection

\* Files are in a folder that is there; a request that is about to rename its
\* temporary file has one, so that the folder cannot be removed under it.
InFolder ==
    /\ json # Absent \/ temp # {} => dir
    /\ \A r \in Req : pc[r] = "renaming" => r \in temp

\* What the folder holds keeps it there: rmdir only takes an empty one.
THEOREM FilesInFolder == Spec => []InFolder
  <1>1. Init => InFolder
    BY DEF Init, InFolder
  <1>2. Inv /\ InFolder /\ [Next]_vars => InFolder'
    <2> SUFFICES ASSUME Inv, InFolder, [Next]_vars PROVE InFolder'  OBVIOUS
    <2>1. ASSUME NEW u \in Updaters, Update(u) PROVE InFolder'
      BY <2>1 DEF Inv, TypeOK, InFolder, Update, Stat, Acquire, StealLive, GiveUp, LockNoDir, Read,
                  ReadFail, Handle, HandleFail, Unlock, Goto, disk, counts
    <2>2. ASSUME NEW c \in Creators, Open(c) PROVE InFolder'
      BY <2>2 DEF Inv, TypeOK, InFolder, Open, Goto
    <2>3. ASSUME NEW s \in Savers, Load(s) PROVE InFolder'
      BY <2>3 DEF Inv, TypeOK, InFolder, Load, Goto, disk
    <2>4. ASSUME NEW r \in Req, WriteTemp(r) PROVE InFolder'
      BY <2>4 DEF Inv, TypeOK, InFolder, WriteTemp, Goto
    <2>5. ASSUME NEW r \in Req, Rename(r) PROVE InFolder'
      BY <2>5 DEF Inv, TypeOK, InFolder, Rename, Goto
    <2>6. ASSUME NEW r \in Req, WriteFail(r) PROVE InFolder'
      BY <2>6 DEF Inv, TypeOK, InFolder, WriteFail, Goto
    <2>7. ASSUME NEW d \in Removers, Find(d) \/ Unlink(d) \/ Rmdir(d) PROVE InFolder'
      BY <2>7 DEF Inv, TypeOK, InFolder, Find, Unlink, Rmdir, Goto, disk
    <2>8. CASE Crash
      BY <2>8 DEF Inv, TypeOK, InFolder, Crash
    <2>9. CASE UNCHANGED vars
      BY <2>9 DEF InFolder, vars, disk
    <2> QED  BY <2>1, <2>2, <2>3, <2>4, <2>5, <2>6, <2>7, <2>8, <2>9 DEF Next, Finished
  <1> QED  BY <1>1, <1>2, InvHolds, PTL DEF Spec

\* An empty package.json that nobody is about to replace stays for ever: no
\* request of the registry, and no restart, gets the package out of it.
THEOREM EmptyStays == Spec => EmptyIsFinal
  <1> DEFINE A == json = Empty /\ NoWriter => json' = Empty /\ NoWriter'
  <1>1. Inv /\ InFolder /\ [Next]_vars => [A]_vars
    <2> SUFFICES ASSUME Inv, InFolder, Next, json = Empty, NoWriter, vars' # vars
                 PROVE  json' = Empty /\ NoWriter'
      OBVIOUS
    <2>1. ~Readable /\ json # Absent /\ dir
      BY DEF Readable, InFolder
    <2>2. ASSUME NEW u \in Updaters, Update(u) PROVE json' = Empty /\ NoWriter'
      BY <2>1, <2>2 DEF Inv, TypeOK, Update, Stat, Acquire, StealLive, GiveUp, LockNoDir, Read,
         ReadFail, Handle, HandleFail, Unlock, Goto, disk, counts, NoWriter
    <2>3. ASSUME NEW c \in Creators, Open(c) PROVE json' = Empty /\ NoWriter'
      BY <2>1, <2>3 DEF Inv, TypeOK, Open, Goto, NoWriter
    <2>4. ASSUME NEW s \in Savers, Load(s) PROVE json' = Empty /\ NoWriter'
      BY <2>1, <2>4 DEF Inv, TypeOK, Load, Goto, disk, NoWriter
    <2>5. ASSUME NEW d \in Removers, Find(d) \/ Unlink(d) \/ Rmdir(d)
          PROVE  json' = Empty /\ NoWriter'
      BY <2>1, <2>5 DEF Inv, TypeOK, Find, Unlink, Rmdir, Goto, disk, NoWriter
    <2>6. CASE Crash
      BY <2>6 DEF Inv, TypeOK, Crash, NoWriter
    <2>7. ASSUME NEW r \in Req PROVE ~(WriteTemp(r) \/ Rename(r) \/ WriteFail(r))
      BY DEF NoWriter, WriteTemp, Rename, WriteFail
    <2> QED  BY <2>2, <2>3, <2>4, <2>5, <2>6, <2>7 DEF Next, Finished
  <1> QED  BY <1>1, InvHolds, FilesInFolder, PTL DEF Spec, EmptyIsFinal


-----------------------------------------------------------------------------
(* updatePackage follows the lock protocol of FileLocking *)

\* The stage of the lock protocol that a step of an update stands for.
Mapped(s) ==
    CASE s \in {"idle", "done"} -> "idle"
      [] s \in {"locking", "reading"} -> s
      [] OTHER -> "holding"

\* Each update goes through the lock once, so that it fails for want of the
\* folder once.
Through == {u \in Updaters : pc[u] \notin {"idle", "locking"}}
Bounded == failures <= MaxFailures + Cardinality(Through)

\* A request that goes on moves its own stage alone; others than updates none.
LEMMA StageOf ==
    ASSUME TypeOK, NEW r \in Req, NEW s \in Step, Goto(r, s)
    PROVE  /\ r \in Updaters => /\ lockPc[r] = Mapped(pc[r])
                                /\ lockPc' = [lockPc EXCEPT ![r] = Mapped(s)]
           /\ r \notin Updaters => lockPc' = lockPc
  <1>1. lockPc = [u \in Updaters |-> Mapped(pc[u])]  BY DEF lockPc, Mapped
  <1>2. lockPc' = [u \in Updaters |-> Mapped(pc'[u])]  BY DEF lockPc, Mapped
  <1>3. \A u \in Updaters : pc'[u] = IF u = r THEN s ELSE pc[u]  BY DEF TypeOK, Goto
  <1> HIDE DEF Mapped
  <1> QED  BY <1>1, <1>2, <1>3

\* Counting the updates that went through: a step lets none of them back.
LEMMA BoundedInv == ASSUME Inv, Bounded, [Next]_vars PROVE Bounded'
  <1>1. IsFiniteSet(Updaters)
    BY FS_Subset
  <1>2. Through' \in SUBSET Updaters /\ IsFiniteSet(Through') /\ Cardinality(Through') \in Nat
    <2>1. Through' \in SUBSET Updaters  BY DEF Through
    <2> QED  BY <1>1, <2>1, FS_Subset, FS_CardinalityType
  <1>3. IsFiniteSet(Through) /\ Cardinality(Through) \in Nat
    <2>1. Through \in SUBSET Updaters  BY DEF Through
    <2> QED  BY <1>1, <2>1, FS_Subset, FS_CardinalityType
  <1>4. ASSUME Through \subseteq Through', failures' = failures PROVE Bounded'
    <2>1. Cardinality(Through) <= Cardinality(Through')  BY <1>2, <1>4, FS_Subset
    <2> QED  BY <1>2, <1>3, <1>4, <2>1 DEF Bounded, Inv, TypeOK
  <1>5. ASSUME failures < MaxFailures, failures' = failures + 1 PROVE Bounded'
    BY <1>2, <1>5 DEF Bounded, Inv, TypeOK
  <1>6. ASSUME NEW u \in Updaters, LockNoDir(u) PROVE Bounded'
    <2>1. Through' = Through \cup {u} /\ u \notin Through /\ failures' = failures + 1
      BY <1>6 DEF LockNoDir, Goto, Through, Inv, TypeOK
    <2>2. Cardinality(Through') = Cardinality(Through) + 1
      BY <1>3, <2>1, FS_AddElement
    <2> QED  BY <1>3, <2>1, <2>2 DEF Bounded, Inv, TypeOK
  <1>7. ASSUME NEW u \in Updaters, Update(u) PROVE Bounded'
    <2>1. CASE LockNoDir(u)  BY <1>6, <2>1
    <2>2. CASE StealLive(u) \/ GiveUp(u)  BY <1>5, <2>2 DEF StealLive, GiveUp
    <2>3. CASE Stat(u) \/ Acquire(u) \/ Read(u) \/ ReadFail(u) \/ Handle(u) \/ HandleFail(u) \/ Unlock(u)
      <3>1. failures' = failures
        BY <2>3 DEF Stat, Acquire, Read, ReadFail, Handle, HandleFail, Unlock, counts
      <3>2. Through \subseteq Through'
        BY <2>3 DEF Stat, Acquire, Read, ReadFail, Handle, HandleFail, Unlock, Goto, Through, Inv, TypeOK
      <3> QED  BY <1>4, <3>1, <3>2
    <2> QED  BY <1>7, <2>1, <2>2, <2>3 DEF Update
  <1>8. ASSUME NEW r \in Req, WriteTemp(r) \/ Rename(r) \/ WriteFail(r) PROVE Bounded'
    <2>1. failures' = failures  BY <1>8 DEF WriteTemp, Rename, WriteFail, counts
    <2>2. Through \subseteq Through'
      BY <1>8 DEF WriteTemp, Rename, WriteFail, Goto, Through, Inv, TypeOK
    <2> QED  BY <1>4, <2>1, <2>2
  <1>9. ASSUME NEW r \in Req \ Updaters,
               Open(r) \/ Load(r) \/ Find(r) \/ Unlink(r) \/ Rmdir(r)
        PROVE Bounded'
    <2>1. failures' = failures  BY <1>9 DEF Open, Load, Find, Unlink, Rmdir, counts
    <2>2. \A u \in Updaters : pc'[u] = pc[u]
      BY <1>9 DEF Open, Load, Find, Unlink, Rmdir, Goto, Inv, TypeOK
    <2> QED  BY <1>4, <2>1, <2>2 DEF Through
  <1>10. CASE Crash
    BY <1>4, <1>10 DEF Crash, Through, Inv, TypeOK
  <1>11. CASE UNCHANGED vars
    BY <1>4, <1>11 DEF vars, counts, Through
  <1> QED  BY <1>7, <1>8, <1>9, <1>10, <1>11 DEF Next, Finished

\* A step of an update is a step of the lock protocol, or none.
LEMMA UpdateFollows ==
    ASSUME Inv, Bounded, NEW u \in Updaters, Update(u)
    PROVE  [Locking!LockNext]_Locking!lockVars
  <1> DEFINE Stutters == UNCHANGED <<lock, lockPc, failures, crashes>>
  <1>0. u \in Req /\ TypeOK  BY DEF Inv
  <1>1. Stutters => [Locking!LockNext]_Locking!lockVars
    BY DEF Locking!lockVars
  <1>2. CASE Stat(u)
    <2>1. CASE json = Absent
      <3>1. lockPc[u] = "idle" /\ lockPc' = [lockPc EXCEPT ![u] = "idle"]
        BY <1>0, <1>2, <2>1, StageOf DEF Stat, Mapped
      <3>2. lockPc' = lockPc  BY <3>1 DEF lockPc
      <3> QED  BY <1>1, <1>2, <3>2 DEF Stat, disk, counts
    <2>2. CASE json # Absent
      <3>1. lockPc[u] = "idle" /\ lockPc' = [lockPc EXCEPT ![u] = "locking"]
        BY <1>0, <1>2, <2>2, StageOf DEF Stat, Mapped
      <3>2. Locking!Stat(u)  BY <1>2, <3>1 DEF Stat, disk, counts, Locking!Stat
      <3> QED  BY <3>2 DEF Locking!LockNext
    <2> QED  BY <2>1, <2>2
  <1>3. CASE Acquire(u)
    <2>1. lockPc[u] = "locking" /\ lockPc' = [lockPc EXCEPT ![u] = "reading"]
      BY <1>0, <1>3, StageOf DEF Acquire, Mapped
    <2>2. Locking!Acquire(u) \/ Locking!StealOrphan(u)
      BY <1>3, <2>1 DEF Acquire, counts, Locking!Acquire, Locking!StealOrphan
    <2> QED  BY <2>2 DEF Locking!LockNext
  <1>4. CASE StealLive(u)
    <2>1. lockPc[u] = "locking" /\ lockPc' = [lockPc EXCEPT ![u] = "reading"]
      BY <1>0, <1>4, StageOf DEF StealLive, Mapped
    <2>2. failures < MaxFailures + Cardinality(Updaters)
      <3>1. Cardinality(Updaters) \in Nat  BY FS_Subset, FS_CardinalityType
      <3> QED  BY <1>0, <1>4, <3>1 DEF StealLive, TypeOK
    <2>3. Locking!StealLive(u)  BY <1>4, <2>1, <2>2 DEF StealLive, Locking!StealLive
    <2> QED  BY <2>3 DEF Locking!LockNext
  <1>5. CASE GiveUp(u) \/ LockNoDir(u)
    <2>1. lockPc[u] = "locking" /\ lockPc' = [lockPc EXCEPT ![u] = "reading"]
      BY <1>0, <1>5, StageOf DEF GiveUp, LockNoDir, Mapped
    <2>2. failures < MaxFailures + Cardinality(Updaters)
      <3>1. IsFiniteSet(Updaters) /\ Cardinality(Updaters) \in Nat
        BY FS_Subset, FS_CardinalityType
      <3>2. u \notin Through /\ Through \in SUBSET Updaters
        BY <1>5 DEF GiveUp, LockNoDir, Through
      <3>3. Cardinality(Through) \in Nat /\ Cardinality(Through) < Cardinality(Updaters)
        BY <3>1, <3>2, FS_Subset, FS_CardinalityType
      <3> QED  BY <1>0, <3>1, <3>3 DEF Bounded, TypeOK
    <2>3. Locking!GiveUp(u)
      BY <1>5, <2>1, <2>2 DEF GiveUp, LockNoDir, disk, Locking!GiveUp
    <2> QED  BY <2>3 DEF Locking!LockNext
  <1>6. CASE Read(u)
    <2>1. lockPc[u] = "reading" /\ lockPc' = [lockPc EXCEPT ![u] = "holding"]
      BY <1>0, <1>6, StageOf DEF Read, Mapped
    <2>2. Locking!Read(u)  BY <1>6, <2>1 DEF Read, disk, counts, Locking!Read
    <2> QED  BY <2>2 DEF Locking!LockNext
  <1>7. CASE ReadFail(u)
    <2>1. lockPc[u] = "reading" /\ lockPc' = [lockPc EXCEPT ![u] = "idle"]
      BY <1>0, <1>7, StageOf DEF ReadFail, Mapped
    <2>2. Locking!ReadFail(u)  BY <1>7, <2>1 DEF ReadFail, counts, Locking!ReadFail
    <2> QED  BY <2>2 DEF Locking!LockNext
  <1>8. CASE Handle(u) \/ HandleFail(u)
    <2>1. lockPc[u] = "holding" /\ lockPc' = [lockPc EXCEPT ![u] = "holding"]
      BY <1>0, <1>8, StageOf DEF Handle, HandleFail, Mapped
    <2>2. lockPc' = lockPc  BY <2>1 DEF lockPc
    <2> QED  BY <1>1, <1>8, <2>2 DEF Handle, HandleFail, disk, counts
  <1>9. CASE Unlock(u)
    <2>1. lockPc[u] = "holding" /\ lockPc' = [lockPc EXCEPT ![u] = "idle"]
      BY <1>0, <1>9, StageOf DEF Unlock, Mapped
    <2>2. Locking!Unlock(u)  BY <1>9, <2>1 DEF Unlock, counts, Locking!Unlock
    <2> QED  BY <2>2 DEF Locking!LockNext
  <1> QED  BY <1>2, <1>3, <1>4, <1>5, <1>6, <1>7, <1>8, <1>9 DEF Update

\* FollowsLocking: every behaviour of the folder is one of the lock protocol,
\* so that what is proved of FileLocking holds of package.json.
THEOREM LockIsFollowed == Spec => FollowsLocking
  <1>1. Init => Locking!LockInit /\ Bounded
    <2>1. ASSUME Init PROVE Bounded
      <3>1. Through = {}  BY <2>1 DEF Init, Through
      <3> QED  BY <2>1, <3>1, FS_EmptySet DEF Init, Bounded
    <2>2. Init => Locking!LockInit
      BY DEF Init, Locking!LockInit, lockPc
    <2> QED  BY <2>1, <2>2
  <1>2. ASSUME Inv, Bounded, [Next]_vars PROVE [Locking!LockNext]_Locking!lockVars
    <2>0. TypeOK  BY <1>2 DEF Inv
    <2>1. UNCHANGED <<lock, lockPc, failures, crashes>> => [Locking!LockNext]_Locking!lockVars
      BY DEF Locking!lockVars
    <2>2. ASSUME NEW u \in Updaters, Update(u) PROVE [Locking!LockNext]_Locking!lockVars
      BY <1>2, <2>2, UpdateFollows
    <2>3. ASSUME NEW r \in Req \ Updaters,
                 Open(r) \/ Load(r) \/ WriteTemp(r) \/ Rename(r) \/ WriteFail(r) \/ Find(r) \/ Unlink(r) \/ Rmdir(r)
          PROVE  UNCHANGED <<lock, lockPc, failures, crashes>>
      <3>1. UNCHANGED <<lock, failures, crashes>>
        BY <2>3 DEF Open, Load, WriteTemp, Rename, WriteFail, Find, Unlink, Rmdir, disk, counts
      <3>2. \A u \in Updaters : pc'[u] = pc[u]
        BY <2>0, <2>3 DEF Open, Load, WriteTemp, Rename, WriteFail, Find, Unlink, Rmdir, Goto, TypeOK
      <3>3. lockPc' = lockPc  BY <3>2 DEF lockPc
      <3> QED  BY <3>1, <3>3
    <2>4. ASSUME NEW u \in Updaters, WriteTemp(u) \/ Rename(u) \/ WriteFail(u)
          PROVE  UNCHANGED <<lock, lockPc, failures, crashes>>
      <3>1. UNCHANGED <<lock, failures, crashes>>
        BY <2>4 DEF WriteTemp, Rename, WriteFail, counts
      <3>2. \A v \in Updaters : \/ pc'[v] = pc[v]
                                \/ /\ pc[v] \in {"writing", "renaming"}
                                   /\ pc'[v] \in {"renaming", "committed", "failed"}
        BY <2>0, <2>4 DEF WriteTemp, Rename, WriteFail, Goto, TypeOK
      <3>3. lockPc' = lockPc  BY <3>2 DEF lockPc
      <3> QED  BY <3>1, <3>3
    <2>5. CASE Crash
      <3>1. lockPc' = [u \in Updaters |-> "idle"]  BY <2>5 DEF Crash, lockPc
      <3>2. Locking!Crash  BY <2>5, <3>1 DEF Crash, Locking!Crash
      <3> QED  BY <3>2 DEF Locking!LockNext
    <2>6. CASE UNCHANGED vars
      BY <2>1, <2>6 DEF vars, disk, counts, lockPc
    <2>7. CASE Next
      <3>1. CASE \E r \in Req : WriteTemp(r) \/ Rename(r) \/ WriteFail(r)
        BY <2>1, <2>3, <2>4, <3>1
      <3>2. CASE (\E c \in Creators : Open(c)) \/ (\E s \in Savers : Load(s))
                 \/ (\E d \in Removers : Find(d) \/ Unlink(d) \/ Rmdir(d))
        BY <2>1, <2>3, <3>2
      <3> QED  BY <2>2, <2>5, <2>6, <2>7, <3>1, <3>2 DEF Next, Finished
    <2> QED  BY <1>2, <2>6, <2>7
  <1>3. ASSUME Inv, Bounded, [Next]_vars PROVE Bounded'
    BY <1>3, BoundedInv
  <1> QED  BY <1>1, <1>2, <1>3, InvHolds, PTL DEF Spec, FollowsLocking, Locking!LockSpec


-----------------------------------------------------------------------------
(* Updates and one creation, with a lock that never fails: an atomic store *)

Quiet == MaxFailures = 0 /\ Savers = {} /\ Removers = {} /\ \A c, d \in Creators : c = d

\* What an update under way has in memory is the package as it is, with its own
\* change or without; a creation is under way only while there is no package.
StoreLike ==
    /\ failures = 0 /\ bare = {}
    /\ \A u \in Updaters :
        /\ pc[u] = "locking" => dir
        /\ pc[u] \in {"updating", "writing", "renaming", "committed"} => Readable
        /\ pc[u] = "updating" => mem[u] = json
        /\ pc[u] \in {"writing", "renaming"} => mem[u] = json \cup {u}
    /\ \A c \in Creators :
        /\ mem[c] = {} /\ pc[c] \in {"idle", "writing", "renaming", "done"}
        /\ pc[c] \in {"writing", "renaming"} => ~Readable

LEMMA StoreLikeInv ==
    ASSUME Quiet, Inv, InFolder, StoreLike, [Next]_vars
    PROVE  StoreLike'
  <1> USE DEF Quiet
  <1>0. TypeOK /\ Req = Updaters \cup Creators  BY DEF Inv
  <1>1. ASSUME NEW u \in Updaters, Update(u) PROVE StoreLike'
    <2>1. CASE StealLive(u) \/ GiveUp(u) \/ LockNoDir(u)
      BY <1>0, <2>1 DEF StealLive, GiveUp, LockNoDir, StoreLike, TypeOK
    <2>2. CASE Stat(u) \/ Acquire(u)
      BY <1>0, <2>2 DEF Stat, Acquire, StoreLike, InFolder, Goto, disk, counts, Readable, TypeOK
    <2>3. CASE Read(u) \/ ReadFail(u)
      BY <1>0, <2>3 DEF Read, ReadFail, StoreLike, Goto, disk, counts, Readable, TypeOK
    <2>4. CASE Handle(u) \/ HandleFail(u)
      BY <1>0, <2>4 DEF Handle, HandleFail, StoreLike, Goto, disk, counts, Readable, TypeOK
    <2>5. CASE Unlock(u)
      BY <1>0, <2>5 DEF Unlock, StoreLike, Goto, counts, Readable, TypeOK
    <2> QED  BY <1>1, <2>1, <2>2, <2>3, <2>4, <2>5 DEF Update
  <1>2. ASSUME NEW c \in Creators, Open(c) PROVE StoreLike'
    <2>1. UNCHANGED <<dir, mem, bare, failures>> /\ Goto(c, pc'[c])
      BY <1>0, <1>2 DEF Open, Goto, counts, TypeOK
    <2>2. \A v \in Req : v # c => pc'[v] = pc[v]
      BY <1>0, <2>1 DEF Goto, TypeOK
    <2>3. CASE dir /\ json # Absent
      <3>1. json' = json /\ pc'[c] = "done"
        BY <1>0, <1>2, <2>3 DEF Open, Goto, TypeOK
      <3> QED  BY <1>0, <2>1, <2>2, <3>1 DEF StoreLike, Readable
    <2>4. CASE ~(dir /\ json # Absent)
      <3>1. ~Readable /\ ~Readable' /\ pc'[c] = "writing"
        BY <1>0, <1>2, <2>4 DEF Open, Goto, TypeOK, Readable, InFolder
      <3> QED  BY <1>0, <2>1, <2>2, <3>1 DEF StoreLike
    <2> QED  BY <2>3, <2>4
  <1>3. ASSUME NEW r \in Req, WriteTemp(r) PROVE StoreLike'
    BY <1>0, <1>3 DEF WriteTemp, StoreLike, Goto, counts, Readable, TypeOK
  <1>4. ASSUME NEW u \in Updaters, Rename(u) PROVE StoreLike'
    <2>1. /\ json' = mem[u] /\ Goto(u, "committed") /\ pc[u] = "renaming" /\ mem' = mem
          /\ UNCHANGED <<acked, bare, dir, failures>>
      BY <1>4 DEF Rename, counts
    <2>2. \A v \in Updaters : v # u => pc[v] \notin {"updating", "writing", "renaming"}
      BY <2>1 DEF Inv, LockHeld, Inside, StoreLike
    <2>3. Readable' /\ Readable
      BY <1>0, <2>1 DEF Readable, TypeOK, StoreLike
    <2>4. \A v \in Updaters : v # u => pc'[v] = pc[v]
      BY <1>0, <2>1 DEF Goto, TypeOK
    <2>5. \A c \in Creators : pc'[c] = pc[c] /\ pc[c] \notin {"writing", "renaming"}
      BY <1>0, <2>1, <2>3 DEF Goto, TypeOK, StoreLike
    <2>6. pc'[u] = "committed"
      BY <1>0, <2>1 DEF Goto, TypeOK
    <2> QED  BY <2>1, <2>2, <2>3, <2>4, <2>5, <2>6 DEF StoreLike
  <1>5. ASSUME NEW c \in Creators, Rename(c) PROVE StoreLike'
    BY <1>0, <1>5 DEF Rename, StoreLike, Goto, counts, Readable, TypeOK
  <1>6. ASSUME NEW r \in Req, WriteFail(r) PROVE StoreLike'
    BY <1>0, <1>6 DEF WriteFail, StoreLike, Goto, Readable, TypeOK
  <1>7. CASE Crash
    BY <1>0, <1>7 DEF Crash, StoreLike, Readable, TypeOK
  <1>8. CASE UNCHANGED vars
    BY <1>8 DEF vars, disk, counts, StoreLike, Readable
  <1> QED  BY <1>0, <1>1, <1>2, <1>3, <1>4, <1>5, <1>6, <1>7, <1>8 DEF Next, Finished

\* A step that leaves what is there and who was answered is none of the store.
LEMMA StoreStep ==
    ASSUME Quiet, Inv, StoreLike, [Next]_vars
    PROVE  [Store!Next]_Store!vars
  <1> DEFINE value == IF json = Empty THEN Absent ELSE json
  <1>0. TypeOK /\ Req = Updaters \cup Creators  BY DEF Quiet, Inv
  <1>1. ASSUME value' = value, acked' = acked PROVE [Store!Next]_Store!vars
    BY <1>1 DEF Store!vars
  <1>2. ASSUME NEW u \in Updaters, Unlock(u) PROVE [Store!Next]_Store!vars
    <2>1. CASE pc[u] = "committed"
      <3>1. Readable /\ u \in json
        BY <2>1 DEF StoreLike, Inv, AppliedKept, Applied
      <3>2. Store!Answer(u)  BY <1>2, <2>1, <3>1 DEF Unlock, Readable, Store!Answer
      <3> QED  BY <3>2 DEF Store!Next
    <2>2. CASE pc[u] # "committed"  BY <1>1, <1>2, <2>2 DEF Unlock
    <2> QED  BY <2>1, <2>2
  <1>3. ASSUME NEW u \in Updaters, Rename(u) PROVE [Store!Next]_Store!vars
    <2>1. Readable /\ json' = json \cup {u} /\ json' \in SUBSET Req /\ acked' = acked
      BY <1>0, <1>3 DEF Rename, StoreLike, TypeOK
    <2>2. Store!Update(u)  BY <2>1 DEF Readable, Store!Update
    <2> QED  BY <2>2 DEF Store!Next
  <1>4. ASSUME NEW c \in Creators, Rename(c) PROVE [Store!Next]_Store!vars
    <2>1. ~Readable /\ json' = {} /\ {} \in SUBSET Req
      BY <1>4 DEF Rename, StoreLike
    <2>2. acked' = acked \cup {c}
      BY <1>4 DEF Rename
    <2>3. Store!Create(c)  BY <2>1, <2>2 DEF Readable, Store!Create
    <2> QED  BY <2>3 DEF Store!Next
  <1>5. ASSUME NEW c \in Creators, Open(c) PROVE [Store!Next]_Store!vars
    BY <1>1, <1>5 DEF Open
  <1>6. ASSUME NEW u \in Updaters, Update(u), ~Unlock(u) PROVE [Store!Next]_Store!vars
    <2>1. json' = json /\ acked' = acked
      BY <1>6 DEF Update, Stat, Acquire, StealLive, GiveUp, LockNoDir, Read, ReadFail, Handle, HandleFail, disk
    <2> QED  BY <1>1, <2>1
  <1>7. ASSUME NEW r \in Req, WriteTemp(r) \/ WriteFail(r) PROVE [Store!Next]_Store!vars
    BY <1>1, <1>7 DEF WriteTemp, WriteFail
  <1>8. CASE Crash  BY <1>1, <1>8 DEF Crash
  <1>9. CASE UNCHANGED vars  BY <1>1, <1>9 DEF vars, disk
  <1> HIDE DEF value
  <1> QED  BY <1>0, <1>2, <1>3, <1>4, <1>5, <1>6, <1>7, <1>8, <1>9 DEF Quiet, Next, Finished

\* ImplementsStore: with a lock that is never refused or stolen, and no saves
\* nor removals, any number of updates and a creation of a package, with any
\* faults and crashes, are those of an atomic store.
THEOREM StoreIsImplemented == ASSUME Quiet PROVE Spec => ImplementsStore
  <1>1. Init => Store!Init /\ StoreLike
    <2>1. ASSUME Init PROVE Store!Init
      <3>1. {} \in SUBSET Req  OBVIOUS
      <3> QED  BY <2>1, <3>1 DEF Init, Store!Init
    <2>2. ASSUME Init PROVE StoreLike
      BY <2>2 DEF Init, StoreLike
    <2> QED  BY <2>1, <2>2
  <1>2. Inv /\ InFolder /\ StoreLike /\ [Next]_vars => StoreLike'
    BY StoreLikeInv
  <1>3. Inv /\ StoreLike /\ [Next]_vars => [Store!Next]_Store!vars
    BY StoreStep
  <1> QED  BY <1>1, <1>2, <1>3, InvHolds, FilesInFolder, PTL DEF Spec, ImplementsStore, Store!Spec
=============================================================================
