---------------------------- MODULE ClientProofs ----------------------------
(***************************************************************************)
(* Two clients of the server, both on top of its own invariant: what the   *)
(* details page shows of a document's history, and what the sample data    *)
(* generator writes down of its run.                                       *)
(***************************************************************************)
EXTENDS DetailsPage, SeedLog, NotaryServerProofs, FiniteSetTheorems, SequenceTheorems

-----------------------------------------------------------------------------
(* The first of a history. *)

LEMMA MinIsLeast ==
    ASSUME NEW S \in SUBSET Nat, S # {}
    PROVE  Min(S) \in S
BY Least DEF Min

-----------------------------------------------------------------------------
(* The order of versions.                                                  *)

LEMMA VersionOrder ==
    ASSUME NEW h \in SUBSET Nat, \A i \in h : EntryAt(i).ver \in Nat,
           NEW i \in h, NEW j \in h, NEW k \in h
    PROVE  /\ ~EarlierVersion(i, i)
           /\ EarlierVersion(i, j) => ~EarlierVersion(j, i)
           /\ EarlierVersion(i, j) /\ EarlierVersion(j, k) => EarlierVersion(i, k)
           /\ i = j \/ EarlierVersion(i, j) \/ EarlierVersion(j, i)
BY DEF EarlierVersion

\* As many earlier events, plus one, is a numbering of the history.
LEMMA VersionRank ==
    ASSUME NEW h \in SUBSET Nat, IsFiniteSet(h), \A i \in h : EntryAt(i).ver \in Nat
    PROVE  \E r \in [h -> 1 .. Cardinality(h)] :
              \A i, j \in h : EarlierVersion(i, j) => r[i] < r[j]
<1> DEFINE earlier(i) == {j \in h : EarlierVersion(j, i)}
           r == [i \in h |-> Cardinality(earlier(i)) + 1]
<1>1. ASSUME NEW i \in h
      PROVE  /\ IsFiniteSet(earlier(i)) /\ Cardinality(earlier(i)) \in Nat
             /\ Cardinality(earlier(i) \cup {i}) = Cardinality(earlier(i)) + 1
             /\ IsFiniteSet(earlier(i) \cup {i})
  <2>1. earlier(i) \in SUBSET h /\ i \notin earlier(i)
    BY VersionOrder
  <2> HIDE DEF earlier
  <2>2. IsFiniteSet(earlier(i)) /\ Cardinality(earlier(i)) \in Nat
    BY <2>1, FS_Subset, FS_CardinalityType
  <2> QED
    BY <2>1, <2>2, FS_AddElement
<1>2. ASSUME NEW i \in h PROVE r[i] \in 1 .. Cardinality(h)
  <2>1. earlier(i) \cup {i} \in SUBSET h
    OBVIOUS
  <2>2. Cardinality(earlier(i) \cup {i}) <= Cardinality(h) /\ Cardinality(h) \in Nat
    BY <2>1, FS_Subset, FS_CardinalityType
  <2> HIDE DEF earlier
  <2> QED
    BY <1>1, <2>2
<1>3. ASSUME NEW i \in h, NEW j \in h, EarlierVersion(i, j) PROVE r[i] < r[j]
  <2>1. earlier(i) \cup {i} \in SUBSET earlier(j)
    BY <1>3, VersionOrder
  <2>2. r[i] = Cardinality(earlier(i)) + 1 /\ r[j] = Cardinality(earlier(j)) + 1
    OBVIOUS
  <2> HIDE DEF earlier, r
  <2>3. Cardinality(earlier(i) \cup {i}) <= Cardinality(earlier(j))
    BY <1>1, <2>1, FS_Subset
  <2>4. /\ Cardinality(earlier(i)) \in Nat /\ Cardinality(earlier(j)) \in Nat
        /\ Cardinality(earlier(i) \cup {i}) = Cardinality(earlier(i)) + 1
    BY <1>1
  <2> QED
    BY <2>2, <2>3, <2>4
<1>4. r \in [h -> 1 .. Cardinality(h)]
  BY <1>2
<1> HIDE DEF r
<1> QED
  BY <1>3, <1>4

LEMMA SortedByVersion ==
    ASSUME NEW h \in SUBSET Nat, IsFiniteSet(h), \A i \in h : EntryAt(i).ver \in Nat
    PROVE  /\ ByVersion(h) \in [1 .. Cardinality(h) -> h]
           /\ \A k, l \in 1 .. Cardinality(h) :
                 k < l => EarlierVersion(ByVersion(h)[k], ByVersion(h)[l])
<1> DEFINE n == Cardinality(h)
<1>1. n \in Nat /\ IsFiniteSet(1 .. n) /\ Cardinality(1 .. n) = n
  BY FS_CardinalityType, FS_Interval
<1>2. PICK r \in [h -> 1 .. n] : \A i, j \in h : EarlierVersion(i, j) => r[i] < r[j]
  BY VersionRank
<1>3. \A i, j \in h : r[i] = r[j] => i = j
  BY <1>1, <1>2, VersionOrder
<1>4. r \in Surjection(h, 1 .. n)
  <2>1. r \in Injection(h, 1 .. n)
    BY <1>2, <1>3 DEF Injection, IsInjective
  <2> QED
    BY <1>1, <2>1, FS_Injection
<1>5. \A k \in 1 .. n : \E i \in h : r[i] = k
  BY <1>4 DEF Surjection
<1> DEFINE s == [k \in 1 .. n |-> CHOOSE i \in h : r[i] = k]
<1>6. \A k \in 1 .. n : s[k] \in h /\ r[s[k]] = k
  BY <1>5
<1>7. s \in [1 .. n -> h]
  BY <1>6
<1> HIDE DEF s
<1>8. ASSUME NEW k \in 1 .. n, NEW l \in 1 .. n, k < l PROVE EarlierVersion(s[k], s[l])
  <2>1. s[k] # s[l] /\ ~(r[s[l]] < r[s[k]])
    BY <1>6, <1>8
  <2> QED
    BY <1>2, <1>6, <2>1, VersionOrder
<1>9. \E t \in [1 .. n -> h] : \A k, l \in DOMAIN t : k < l => EarlierVersion(t[k], t[l])
  BY <1>7, <1>8
<1> QED
  BY <1>9 DEF ByVersion
-----------------------------------------------------------------------------
(* The walk along the links.                                               *)

\* The recursive definition of the walk has a solution: a longest one that
\* did not could be had from the one before it.
LEMMA WalkEquation ==
    ASSUME NEW h, IsFiniteSet(h)
    PROVE  Walk(h) = [k \in 1 .. Cardinality(h) |->
                        IF k = 1 THEN Roots(h)
                        ELSE UNION {Successors(h, i) : i \in Walk(h)[k - 1]}]
<1> DEFINE Next1(f, k) == IF k = 1 THEN Roots(h)
                          ELSE UNION {Successors(h, i) : i \in f[k - 1]}
           Solves(f, m) == f = [k \in 1 .. m |-> Next1(f, k)]
           Bad == {m \in Nat : ~\E f : Solves(f, m)}
<1>1. Bad = {}
  <2> SUFFICES ASSUME Bad # {} PROVE FALSE
    OBVIOUS
  <2>1. PICK m \in Bad : \A j \in Bad : m <= j
    <3>1. Bad \in SUBSET Nat
      OBVIOUS
    <3> HIDE DEF Bad
    <3> QED
      BY <3>1, Least
  <2>2. m # 0
    <3>1. Solves([k \in 1 .. 0 |-> {}], 0)
      OBVIOUS
    <3> QED
      BY <2>1, <3>1
  <2>3. m \in Nat /\ m - 1 \in Nat /\ m - 1 \notin Bad
    <3>1. m \in Nat
      OBVIOUS
    <3> HIDE DEF Bad
    <3> QED
      BY <2>1, <2>2, <3>1
  <2>4. PICK f : Solves(f, m - 1)
    BY <2>3
  <2> DEFINE g == [k \in 1 .. m |-> Next1(f, k)]
  <2>5. \A k \in 1 .. m - 1 : g[k] = f[k]
    BY <2>3, <2>4
  <2>6. ASSUME NEW k \in 1 .. m PROVE Next1(g, k) = Next1(f, k)
    <3>1. CASE k = 1
      BY <3>1
    <3>2. CASE k # 1
      <4>1. k - 1 \in 1 .. m - 1
        BY <2>1, <3>2
      <4> HIDE DEF g
      <4> QED
        BY <2>5, <3>2, <4>1
    <3> QED
      BY <3>1, <3>2
  <2>7. Solves(g, m)
    <3> HIDE DEF Next1
    <3>1. g = [k \in 1 .. m |-> Next1(f, k)]
      OBVIOUS
    <3> HIDE DEF g
    <3> QED
      BY <2>6, <3>1
  <2> HIDE DEF g, Solves
  <2> QED
    BY <2>1, <2>7
<1>2. \E f : Solves(f, Cardinality(h))
  BY <1>1, FS_CardinalityType
<1> QED
  BY <1>2 DEF Walk
LEMMA WalkSteps ==
    ASSUME NEW h, IsFiniteSet(h)
    PROVE  /\ DOMAIN Walk(h) = 1 .. Cardinality(h)
           /\ \A k \in 1 .. Cardinality(h) :
                 Walk(h)[k] = IF k = 1 THEN Roots(h)
                              ELSE UNION {Successors(h, i) : i \in Walk(h)[k - 1]}
<1> DEFINE W == Walk(h)
           step(k) == IF k = 1 THEN Roots(h)
                      ELSE UNION {Successors(h, i) : i \in W[k - 1]}
<1>1. W = [k \in 1 .. Cardinality(h) |-> step(k)]
  BY WalkEquation
<1> HIDE DEF W, step
<1>2. DOMAIN W = 1 .. Cardinality(h) /\ \A k \in 1 .. Cardinality(h) : W[k] = step(k)
  BY <1>1
<1> QED
  BY <1>2 DEF W, step

\* An id is the id of one event only, and is never missing.
LEMMA Predecessor ==
    ASSUME IInv, VersionsFollow, NEW i \in 0 .. Len(log) - 1, NEW j \in 0 .. Len(log) - 1,
           EntryAt(i).prev = EntryAt(j).id
    PROVE  /\ HasPrev(i)
           /\ EntryAt(i).doc = EntryAt(j).doc
           /\ EntryAt(i).ver \in Nat /\ EntryAt(j).ver \in Nat
           /\ EntryAt(i).ver = EntryAt(j).ver + 1
<1>1. EntryAt(i) \in Event /\ EntryAt(j) \in Event
  BY EntryType DEF IInv
<1>2. EntryAt(j).id \in EventIDs /\ EntryAt(i).ver \in Nat /\ EntryAt(j).ver \in Nat
  BY <1>1 DEF Event
<1>3. HasPrev(i)
  BY <1>2, NoneIsNoID, TrimmedID DEF HasPrev
<1>4. PICK k \in 0 .. i - 1 : /\ EntryAt(i).prev = EntryAt(k).id
                             /\ EntryAt(i).doc = EntryAt(k).doc
                             /\ EntryAt(i).ver = EntryAt(k).ver + 1
  BY <1>3 DEF VersionsFollow
<1>5. k = j
  <2>1. k \in 0 .. Len(log) - 1
    BY DEF IInv, TypeOK
  <2> QED
    BY <1>4, <2>1 DEF IInv, ChainsLinked
<1> QED
  BY <1>2, <1>3, <1>4, <1>5

LEMMA RootsAreFew ==
    ASSUME NEW h \in SUBSET Nat
    PROVE  /\ Roots(h) \subseteq h
           /\ \A a, b \in Roots(h) : a = b
           /\ \A a \in Roots(h) : ~HasPrev(a)
<1>1. Unpreceded(h) \in SUBSET Nat /\ Creates1st(h) \in SUBSET Nat
  BY DEF Unpreceded, Creates1st
<1>2. CASE Creates1st(h) # {}
  <2>1. Min(Creates1st(h)) \in Creates1st(h)
    BY <1>1, <1>2, MinIsLeast
  <2> QED
    BY <1>2, <2>1 DEF Roots, Creates1st, Unpreceded
<1>3. CASE Creates1st(h) = {} /\ Unpreceded(h) # {}
  <2>1. Min(Unpreceded(h)) \in Unpreceded(h)
    BY <1>1, <1>3, MinIsLeast
  <2> QED
    BY <1>3, <2>1 DEF Roots, Unpreceded
<1>4. CASE Creates1st(h) = {} /\ Unpreceded(h) = {}
  BY <1>4 DEF Roots
<1> QED
  BY <1>2, <1>3, <1>4

\* Without a fork each step of the walk reaches one event at most.
LEMMA WalkIsThin ==
    ASSUME NEW h \in SUBSET Nat, IsFiniteSet(h), ~Forked(h),
           \A i \in h : EntryAt(i).id \notin {None, Blank}
    PROVE  \A k \in 1 .. Cardinality(h) :
              Walk(h)[k] \subseteq h /\ \A a, b \in Walk(h)[k] : a = b
<1> DEFINE n == Cardinality(h)
           W == Walk(h)
           Thin(k) == W[k] \subseteq h /\ \A a, b \in W[k] : a = b
           Bad == {k \in 1 .. n : ~Thin(k)}
<1>1. n \in Nat
  BY FS_CardinalityType
<1>2. \A k \in 1 .. n : W[k] = IF k = 1 THEN Roots(h)
                               ELSE UNION {Successors(h, i) : i \in W[k - 1]}
  BY WalkSteps
<1> HIDE DEF W
<1> SUFFICES ASSUME Bad # {} PROVE FALSE
  BY DEF W
<1>3. PICK m \in Bad : \A j \in Bad : m <= j
  <2>1. Bad \in SUBSET Nat
    BY <1>1
  <2> HIDE DEF Bad
  <2> QED
    BY <2>1, Least
<1>4. m \in 1 .. n /\ ~Thin(m)
  OBVIOUS
<1>5. CASE m = 1
  <2>1. W[1] = Roots(h)
    BY <1>2, <1>4, <1>5
  <2>2. Thin(1)
    BY <2>1, RootsAreFew
  <2> QED
    BY <1>4, <1>5, <2>2
<1>6. CASE m # 1
  <2>1. m - 1 \in 1 .. n /\ m - 1 \notin Bad
    BY <1>1, <1>3, <1>4, <1>6
  <2>2. Thin(m - 1)
    BY <2>1
  <2>3. W[m] = UNION {Successors(h, i) : i \in W[m - 1]}
    BY <1>2, <1>4, <1>6
  <2>4. W[m] \subseteq h
    BY <2>3 DEF Successors
  <2>5. ASSUME NEW a \in W[m], NEW b \in W[m] PROVE a = b
    <3>1. PICK i \in W[m - 1] : a \in Successors(h, i)
      BY <2>3
    <3>2. PICK j \in W[m - 1] : b \in Successors(h, j)
      BY <2>3
    <3>3. i = j /\ i \in h
      BY <2>2
    <3>4. a \in h /\ b \in h /\ EntryAt(a).prev = EntryAt(i).id /\ EntryAt(b).prev = EntryAt(i).id
      BY <3>1, <3>2, <3>3 DEF Successors
    <3> QED
      BY <3>3, <3>4 DEF Forked, HasPrev
  <2> QED
    BY <1>4, <2>4, <2>5
<1> QED
  BY <1>5, <1>6

\* When the walk reaches the whole history, each step reaches exactly one
\* event and each event is reached once.
LEMMA LinksInOrder ==
    ASSUME NEW h \in SUBSET Nat, IsFiniteSet(h), ~Forked(h), Walked(h) = h,
           \A i \in h : EntryAt(i).id \notin {None, Blank}
    PROVE  LET s == ByLinks(h)
               n == Cardinality(h)
           IN  /\ s \in Surjection(1 .. n, h)
               /\ n > 0 => ~HasPrev(s[1])
               /\ \A k \in 2 .. n : EntryAt(s[k]).prev = EntryAt(s[k - 1]).id
<1> DEFINE n == Cardinality(h)
           W == Walk(h)
           s == ByLinks(h)
           K == {k \in 1 .. n : W[k] # {}}
           g == [k \in K |-> CHOOSE i \in W[k] : TRUE]
<1>1. n \in Nat /\ IsFiniteSet(1 .. n) /\ Cardinality(1 .. n) = n
  BY FS_CardinalityType, FS_Interval
<1>2. /\ DOMAIN W = 1 .. n
      /\ \A k \in 1 .. n : W[k] = IF k = 1 THEN Roots(h)
                                  ELSE UNION {Successors(h, i) : i \in W[k - 1]}
  BY WalkSteps
<1>3. \A k \in 1 .. n : W[k] \subseteq h /\ \A a, b \in W[k] : a = b
  BY WalkIsThin
<1>4. s = [k \in 1 .. n |-> CHOOSE i \in W[k] : TRUE]
  BY DEF ByLinks
<1>5. h = UNION {W[k] : k \in 1 .. n}
  BY <1>2 DEF Walked
<1> HIDE DEF W, s
<1>6. \A k \in K : g[k] \in W[k]
  OBVIOUS
<1>7. g \in Surjection(K, h)
  <2>1. g \in [K -> h]
    BY <1>3, <1>6
  <2>2. ASSUME NEW i \in h PROVE \E k \in K : g[k] = i
    <3>1. PICK k \in 1 .. n : i \in W[k]
      BY <1>5
    <3>2. k \in K
      BY <3>1
    <3> QED
      BY <1>3, <1>6, <3>1, <3>2
  <2> HIDE DEF g, K
  <2> QED
    BY <2>1, <2>2 DEF Surjection
<1>8. K = 1 .. n
  <2>1. K \in SUBSET (1 .. n)
    OBVIOUS
  <2> HIDE DEF g, K
  <2>2. IsFiniteSet(K) /\ Cardinality(K) <= n /\ (n = Cardinality(K) => K = 1 .. n)
    BY <1>1, <2>1, FS_Subset
  <2>3. n <= Cardinality(K)
    BY <1>7, <2>2, FS_Surjection
  <2>4. Cardinality(K) \in Nat
    BY <2>2, FS_CardinalityType
  <2> QED
    BY <1>1, <2>2, <2>3, <2>4
<1>9. s = g
  BY <1>4, <1>8
<1>10. \A k \in 1 .. n : s[k] \in W[k]
  BY <1>6, <1>8, <1>9
<1>11. n > 0 => ~HasPrev(s[1])
  BY <1>1, <1>2, <1>10, RootsAreFew
<1>12. ASSUME NEW k \in 2 .. n PROVE EntryAt(s[k]).prev = EntryAt(s[k - 1]).id
  <2>1. k \in 1 .. n /\ k - 1 \in 1 .. n /\ k # 1
    BY <1>1
  <2>2. PICK i \in W[k - 1] : s[k] \in Successors(h, i)
    BY <1>2, <1>10, <2>1
  <2>3. i = s[k - 1]
    BY <1>3, <1>10, <2>1
  <2> QED
    BY <2>2, <2>3 DEF Successors
<1> HIDE DEF g, K
<1>13. s \in Surjection(1 .. n, h)
  BY <1>7, <1>8, <1>9
<1> QED
  BY <1>11, <1>12, <1>13 DEF s
-----------------------------------------------------------------------------
(* The sorted history.                                                     *)

\* What the page says of a history it shows in the order s.
Ordered(h, s) ==
    /\ s \in Seq(h)
    /\ ToSet(s) = h /\ Len(s) = Cardinality(h)
    /\ \A k, l \in DOMAIN s : EntryAt(s[l]).prev = EntryAt(s[k]).id => k < l
    /\ \A i \in h : EntryAt(i).ver <= EntryAt(Last(s)).ver

LEMMA HistoryOfLog ==
    ASSUME IInv, NEW h \in SUBSET (0 .. Len(log) - 1)
    PROVE  /\ h \in SUBSET Nat /\ IsFiniteSet(h) /\ Cardinality(h) \in Nat
           /\ h # {} => Cardinality(h) >= 1
           /\ \A i \in h : EntryAt(i).ver \in Nat /\ EntryAt(i).id \notin {None, Blank}
<1>1. Len(log) \in Nat
  BY DEF IInv, TypeOK
<1>2. IsFiniteSet(0 .. Len(log) - 1)
  BY <1>1, FS_Interval
<1>3. IsFiniteSet(h)
  BY <1>2, FS_Subset
<1>4. Cardinality(h) \in Nat /\ (Cardinality(h) = 0 <=> h = {})
  BY <1>3, FS_CardinalityType, FS_EmptySet
<1>5. ASSUME NEW i \in h PROVE EntryAt(i).ver \in Nat /\ EntryAt(i).id \notin {None, Blank}
  <2>1. EntryAt(i) \in Event
    BY EntryType DEF IInv
  <2>2. EntryAt(i).id \in EventIDs /\ EntryAt(i).ver \in Nat
    BY <2>1 DEF Event
  <2> QED
    BY <2>2, NoneIsNoID, TrimmedID
<1>6. h \in SUBSET Nat
  BY <1>1
<1>7. h # {} => Cardinality(h) >= 1
  <2>1. \A n \in Nat : n # 0 => n >= 1
    OBVIOUS
  <2> QED
    BY <1>4, <2>1
<1> QED
  BY <1>3, <1>4, <1>5, <1>6, <1>7

LEMMA VersionsAreOrdered ==
    ASSUME IInv, VersionsFollow, NEW h \in SUBSET (0 .. Len(log) - 1), h # {}
    PROVE  Ordered(h, ByVersion(h))
<1> DEFINE n == Cardinality(h)
           s == ByVersion(h)
<1>1. /\ h \in SUBSET Nat /\ IsFiniteSet(h) /\ n \in Nat /\ n >= 1
      /\ \A i \in h : EntryAt(i).ver \in Nat
  BY HistoryOfLog
<1>2. s \in [1 .. n -> h] /\ \A k, l \in 1 .. n : k < l => EarlierVersion(s[k], s[l])
  BY <1>1, SortedByVersion
<1> HIDE DEF s
<1>3. s \in Seq(h) /\ Len(s) = n /\ DOMAIN s = 1 .. n
  BY <1>1, <1>2
<1>4. ASSUME NEW k \in 1 .. n, NEW l \in 1 .. n, s[k] = s[l] PROVE k = l
  <2>1. s[k] \in h /\ s[l] \in h
    BY <1>2
  <2>2. ~EarlierVersion(s[k], s[l]) /\ ~EarlierVersion(s[l], s[k])
    BY <1>1, <1>4, <2>1, VersionOrder
  <2>3. k \in Nat /\ l \in Nat
    BY <1>1
  <2> QED
    BY <1>2, <2>2, <2>3
<1>5. \A i \in h : \E k \in 1 .. n : s[k] = i
  <2>1. s \in Injection(1 .. n, h)
    BY <1>2, <1>4 DEF Injection, IsInjective
  <2>2. Cardinality(1 .. n) = n
    BY <1>1, FS_Interval
  <2>3. s \in Surjection(1 .. n, h)
    BY <1>1, <2>1, <2>2, FS_Injection
  <2> QED
    BY <2>3 DEF Surjection
<1>6. ToSet(s) = h
  BY <1>2, <1>3, <1>5 DEF ToSet
<1>7. ASSUME NEW k \in 1 .. n, NEW l \in 1 .. n, EntryAt(s[l]).prev = EntryAt(s[k]).id
      PROVE  k < l
  <2>1. s[k] \in h /\ s[l] \in h
    BY <1>2
  <2>2. EntryAt(s[l]).ver = EntryAt(s[k]).ver + 1 /\ EntryAt(s[k]).ver \in Nat
    BY <1>7, <2>1, Predecessor
  <2>3. ~EarlierVersion(s[l], s[k]) /\ k # l
    BY <2>2 DEF EarlierVersion
  <2> QED
    BY <1>1, <1>2, <2>3
<1>8. ASSUME NEW i \in h PROVE EntryAt(i).ver <= EntryAt(s[n]).ver
  <2>1. PICK k \in 1 .. n : s[k] = i
    BY <1>5
  <2>2. k = n \/ EarlierVersion(i, s[n])
    BY <1>1, <1>2, <2>1
  <2>3. n \in 1 .. n
    BY <1>1
  <2>4. s[n] \in h
    BY <1>2, <2>3
  <2>5. EntryAt(i).ver \in Nat /\ EntryAt(s[n]).ver \in Nat
    BY <1>1, <2>4
  <2> QED
    BY <2>1, <2>2, <2>5 DEF EarlierVersion
<1> QED
  BY <1>3, <1>6, <1>7, <1>8 DEF Ordered, Last, s

LEMMA LinksAreOrdered ==
    ASSUME IInv, VersionsFollow, NEW h \in SUBSET (0 .. Len(log) - 1), h # {},
           ~Forked(h), Walked(h) = h
    PROVE  Ordered(h, ByLinks(h))
<1> DEFINE n == Cardinality(h)
           s == ByLinks(h)
<1>1. /\ h \in SUBSET Nat /\ IsFiniteSet(h) /\ n \in Nat /\ n >= 1
      /\ \A i \in h : EntryAt(i).ver \in Nat /\ EntryAt(i).id \notin {None, Blank}
  BY HistoryOfLog
<1>2. /\ s \in Surjection(1 .. n, h)
      /\ n > 0 => ~HasPrev(s[1])
      /\ \A k \in 2 .. n : EntryAt(s[k]).prev = EntryAt(s[k - 1]).id
  BY <1>1, LinksInOrder
<1> HIDE DEF s
<1>3. s \in [1 .. n -> h] /\ \A i \in h : \E k \in 1 .. n : s[k] = i
  BY <1>2 DEF Surjection
<1>4. s \in Seq(h) /\ Len(s) = n /\ DOMAIN s = 1 .. n
  BY <1>1, <1>3
<1>5. ToSet(s) = h
  BY <1>3, <1>4 DEF ToSet
<1>6. \A k, l \in 1 .. n : s[k] = s[l] => k = l
  <2>1. IsFiniteSet(1 .. n) /\ Cardinality(1 .. n) = n
    BY <1>1, FS_Interval
  <2>2. s \in Injection(1 .. n, h)
    BY <1>1, <1>2, <2>1, FS_SurjSameCardinalityImpliesInj
  <2> QED
    BY <1>3, <2>2 DEF Injection, IsInjective
<1>7. ASSUME NEW k \in 1 .. n, NEW l \in 1 .. n, EntryAt(s[l]).prev = EntryAt(s[k]).id
      PROVE  k < l
  <2>1. s[k] \in 0 .. Len(log) - 1 /\ s[l] \in 0 .. Len(log) - 1
    BY <1>3
  <2>2. HasPrev(s[l])
    BY <1>7, <2>1, Predecessor
  <2>3. l \in 2 .. n
    BY <1>1, <1>2, <2>2
  <2>4. l - 1 \in 1 .. n
    BY <1>1, <2>3
  <2>6. EntryAt(s[l]).prev = EntryAt(s[l - 1]).id
    BY <1>2, <2>3
  <2>7. EntryAt(s[k]).id = EntryAt(s[l - 1]).id
    BY <1>7, <2>6
  <2>5. s[k] = s[l - 1]
    <3>1. s[l - 1] \in 0 .. Len(log) - 1
      BY <1>3, <2>4
    <3> QED
      BY <2>1, <2>7, <3>1 DEF IInv, ChainsLinked
  <2> QED
    BY <1>6, <2>3, <2>4, <2>5
\* Versions grow along the walk: the last event above the end has a successor.
<1>8. ASSUME NEW i \in h, EntryAt(i).ver > EntryAt(s[n]).ver PROVE FALSE
  <2> DEFINE Above == {k \in 1 .. n : EntryAt(s[k]).ver > EntryAt(s[n]).ver}
  <2>1. Above \in SUBSET Nat /\ Above # {} /\ IsFiniteSet(Above)
    <3>1. Above # {}
      BY <1>3, <1>8
    <3>2. IsFiniteSet(1 .. n)
      BY <1>1, FS_Interval
    <3>3. Above \in SUBSET (1 .. n)
      OBVIOUS
    <3> HIDE DEF Above
    <3>4. IsFiniteSet(Above)
      BY <3>2, <3>3, FS_Subset
    <3>5. Above \in SUBSET Nat
      BY <1>1, <3>3
    <3> QED
      BY <3>1, <3>4, <3>5
  <2>2. PICK m \in Above : \A k \in Above : k <= m
    <3> HIDE DEF Above
    <3> QED
      BY <2>1, Greatest
  <2>3. m \in 1 .. n /\ EntryAt(s[m]).ver > EntryAt(s[n]).ver
    OBVIOUS
  <2>4. s[n] \in h /\ s[m] \in h
    BY <1>1, <1>3, <2>3
  <2>11. EntryAt(s[n]).ver \in Nat
    BY <1>1, <2>4
  <2>12. ~ (EntryAt(s[n]).ver > EntryAt(s[n]).ver)
    BY <2>11
  <2>5. m # n
    BY <2>3, <2>12
  <2>6. m + 1 \in 2 .. n /\ m + 1 \in 1 .. n /\ (m + 1) - 1 = m
    BY <1>1, <2>3, <2>5
  <2>7. s[m + 1] \in h /\ EntryAt(s[m + 1]).prev = EntryAt(s[m]).id
    BY <1>2, <1>3, <2>6
  <2>8. EntryAt(s[m + 1]).ver = EntryAt(s[m]).ver + 1
    BY <2>4, <2>7, Predecessor
  <2>9. EntryAt(s[m]).ver \in Nat /\ EntryAt(s[n]).ver \in Nat
    BY <1>1, <2>4
  <2>10. m + 1 \in Above
    BY <2>3, <2>6, <2>8, <2>9
  <2> QED
    BY <2>2, <2>3, <2>10
<1>9. ASSUME NEW i \in h PROVE EntryAt(i).ver <= EntryAt(s[n]).ver
  <2>1. n \in 1 .. n
    BY <1>1
  <2>2. s[n] \in h
    BY <1>3, <2>1
  <2>3. EntryAt(i).ver \in Nat /\ EntryAt(s[n]).ver \in Nat
    BY <1>1, <2>2
  <2> QED
    BY <1>8, <2>3
<1> QED
  BY <1>4, <1>5, <1>7, <1>9 DEF Ordered, Last, s

LEMMA SortIsOrdered ==
    ASSUME IInv, VersionsFollow, NEW h \in SUBSET (0 .. Len(log) - 1), h # {}
    PROVE  Ordered(h, SortHistory(h))
BY VersionsAreOrdered, LinksAreOrdered DEF SortHistory
-----------------------------------------------------------------------------
(* Beside the page the server goes on: the log grows, rows and receipts    *)
(* stay.                                                                   *)

LEMMA VersionsFollowPreserved ==
    ASSUME IInv, VersionsFollow, [Next]_vars
    PROVE  VersionsFollow'
<1> DEFINE Follows(i, j) == /\ EntryAt(i).prev = EntryAt(j).id
                            /\ EntryAt(i).doc = EntryAt(j).doc
                            /\ EntryAt(i).ver = EntryAt(j).ver + 1
<1>1. log \in Seq(Event) /\ Len(log) \in Nat
  BY DEF IInv, TypeOK
<1>2. CASE log' = log
  BY <1>2 DEF VersionsFollow, HasPrev, EntryAt
<1>3. CASE log' # log
  <2>1. PICK w \in Workers : AppendEntry(w)
    BY <1>3, OnlyAppendGrows DEF vars
  <2>2. PICK ev \in Event :
            /\ log' = Append(log, ev)
            /\ \/ ev.prev \in {None, Blank}
               \/ \E j \in 0 .. Len(log) - 1 :
                     /\ ev.prev = EntryAt(j).id
                     /\ ev.doc = EntryAt(j).doc
                     /\ ev.ver = EntryAt(j).ver + 1
    BY <2>1, AppendedFollows
  <2>3. /\ Len(log') = Len(log) + 1
        /\ \A i \in 0 .. Len(log) - 1 : EntryAt(i)' = EntryAt(i)
        /\ log'[Len(log) + 1] = ev
    BY <1>1, <2>2, AppendKeepsEntries
  <2>4. ASSUME NEW i \in 0 .. Len(log') - 1, HasPrev(i)'
        PROVE  \E j \in 0 .. i - 1 : Follows(i, j)'
    <3>1. CASE i \in 0 .. Len(log) - 1
      <4>1. EntryAt(i)' = EntryAt(i)
        BY <2>3, <3>1
      <4>2. HasPrev(i)
        BY <2>4, <4>1 DEF HasPrev
      <4>3. PICK j \in 0 .. i - 1 : Follows(i, j)
        BY <3>1, <4>2 DEF VersionsFollow
      <4>4. EntryAt(j)' = EntryAt(j)
        BY <1>1, <2>3, <3>1
      <4> QED
        BY <4>1, <4>3, <4>4
    <3>2. CASE i = Len(log)
      <4>1. EntryAt(i)' = ev
        BY <2>3, <3>2 DEF EntryAt
      <4>2. ev.prev \notin {None, Blank}
        BY <2>4, <4>1 DEF HasPrev
      <4>3. PICK j \in 0 .. Len(log) - 1 : /\ ev.prev = EntryAt(j).id
                                           /\ ev.doc = EntryAt(j).doc
                                           /\ ev.ver = EntryAt(j).ver + 1
        BY <2>2, <4>2
      <4>4. EntryAt(j)' = EntryAt(j)
        BY <2>3
      <4> QED
        BY <3>2, <4>1, <4>3, <4>4
    <3> QED
      BY <1>1, <2>3, <3>1, <3>2
  <2> QED
    BY <2>4 DEF VersionsFollow
<1> QED
  BY <1>2, <1>3

\* The insert leaves a row at the worker's own index: an id already in the
\* table is the id of that row.
LEMMA AddEntryLeavesRow ==
    ASSUME IInv, NEW i \in 0 .. Len(log) - 1
    PROVE  LET t == AddEntry(table, i, RowFor(EntryAt(i)))
           IN  /\ DOMAIN table \subseteq DOMAIN t
               /\ InsertsSucceed => i \in DOMAIN t
<1>1. DOMAIN WithRow(table, i, RowFor(EntryAt(i))) = DOMAIN table \cup {i}
  BY DEF WithRow
<1>2. ASSUME NEW j \in DOMAIN table, table[j].event_id = RowFor(EntryAt(i)).event_id
      PROVE  i = j
  <2>1. j \in 0 .. Len(log) - 1 /\ table[j] = RowFor(EntryAt(j))
    BY DEF IInv, TypeOK, RowsMirrorLog
  <2>2. Trim(EntryAt(j).id) = Trim(EntryAt(i).id)
    BY <1>2, <2>1 DEF RowFor
  <2>3. EntryAt(i).id \in EventIDs /\ EntryAt(j).id \in EventIDs
    BY <2>1, EntryType DEF IInv, Event
  <2>4. EntryAt(i).id = EntryAt(j).id
    BY <2>2, <2>3, TrimmedID
  <2> QED
    BY <2>1, <2>4 DEF IInv, ChainsLinked
<1>3. InsertsSucceed => HasReadableTime(RowFor(EntryAt(i)))
  <2>1. EntryAt(i).recorded_at \in RecordingTimes
    BY EntryType DEF IInv, TypeOK, Event
  <2> QED
    BY <2>1 DEF InsertsSucceed, HasReadableTime, RowFor
<1> QED
  BY <1>1, <1>2, <1>3 DEF AddEntry, ViolatesConstraint

LEMMA RowsKeptPreserved ==
    ASSUME IInv, RowsKept, [Next]_vars
    PROVE  /\ RowsKept'
           /\ receipts \subseteq receipts'
<1> DEFINE Kept(w) == work[w].code = 200 => work[w].idx \in DOMAIN table
           Idle(w) == work'[w].code \in {0, 400, 500}
           Same(w) == work'[w].code = work[w].code /\ work'[w].idx = work[w].idx
<1>1. work \in [Workers -> Work]
  BY DEF IInv, TypeOK
<1>2. ASSUME NEW w \in Workers, NEW locals, Goto(w, locals)
      PROVE  work'[w] = locals /\ \A v \in Workers \ {w} : work'[v] = work[v]
  BY <1>1, <1>2 DEF Goto
<1>3. ASSUME UNCHANGED <<table, receipts>>, \A v \in Workers : Idle(v) \/ Same(v)
      PROVE  RowsKept' /\ receipts \subseteq receipts'
  BY <1>3 DEF RowsKept
<1>4. ASSUME NEW w \in Workers, IndexEntry(w)
      PROVE  RowsKept' /\ receipts \subseteq receipts'
  <2>1. work[w].pc = "index" /\ receipts' = receipts
    BY <1>4 DEF IndexEntry
  <2>2. work[w].idx \in 0 .. Len(log) - 1 /\ work[w].ev = EntryAt(work[w].idx)
    BY <2>1 DEF IInv, WorkerOK
  <2>3. work[w].idx \in Nat /\ work[w].ev \in Event
    BY <2>2, EntryType DEF IInv, TypeOK
  <2>4. work'[w].idx = work[w].idx /\ \A v \in Workers \ {w} : work'[v] = work[v]
    BY <1>2, <1>4, <2>3, EventWork DEF IndexEntry
  <2>5. InsertsSucceed =>
            DOMAIN table \subseteq DOMAIN table' /\ work[w].idx \in DOMAIN table'
    <3>1. InsertsSucceed =>
              table' = AddEntry(table, work[w].idx, RowFor(EntryAt(work[w].idx)))
      BY <1>4, <2>2 DEF IndexEntry, IndexFromFuture, InsertsSucceed
    <3> QED
      BY <2>2, <3>1, AddEntryLeavesRow
  <2> QED
    BY <2>1, <2>4, <2>5 DEF RowsKept
<1>5. ASSUME NEW w \in Workers, Respond(w)
      PROVE  RowsKept' /\ receipts \subseteq receipts'
  <2>1. work'[w] = IdleWork /\ (\A v \in Workers \ {w} : work'[v] = work[v]) /\ table' = table
    BY <1>2, <1>5 DEF Respond, durable
  <2>2. receipts' = receipts \/
          /\ work[w].code = 200
          /\ receipts' = receipts \cup {[index |-> work[w].idx, event |-> work[w].ev]}
    BY <1>5 DEF Respond
  <2>3. InsertsSucceed => \A r \in receipts' : r.index \in DOMAIN table
    BY <2>2 DEF RowsKept
  <2>4. \A v \in Workers : InsertsSucceed /\ work'[v].code = 200 => work'[v].idx \in DOMAIN table
    BY <2>1 DEF RowsKept, IdleWork
  <2> QED
    BY <2>1, <2>2, <2>3, <2>4 DEF RowsKept
<1>6. ASSUME NEW w \in Workers, AddEventStep(w), ~IndexEntry(w), ~Respond(w)
      PROVE  RowsKept' /\ receipts \subseteq receipts'
  <2>1. UNCHANGED <<table, receipts>>
    BY <1>6 DEF AddEventStep, Lookup, LookupFails, ReadHead, ReadHeadFails,
                AppendEntry, PrepareRefuses, AppendFails, durable
  <2>2. \A code \in {400, 500} : Answer(code).code = code
    BY DEF Answer, IdleWork
  <2>3. (\A v \in Workers \ {w} : work'[v] = work[v]) /\ (Idle(w) \/ Same(w))
    <3>1. ASSUME NEW req \in Requests, Lookup(w, req)
          PROVE  (\A v \in Workers \ {w} : work'[v] = work[v]) /\ Idle(w)
      <4>1. \E locals : Goto(w, locals) /\ locals.code \in {0, 400}
        <5> DEFINE next == [IdleWork EXCEPT !.req = req, !.seen = DOMAIN table]
        <5>1. CASE Goto(w, Answer(400))
          BY <2>2, <5>1
        <5>4. /\ [next EXCEPT !.pc = "append", !.ver = 1].code = 0
              /\ \A i : [next EXCEPT !.pc = "read", !.latest = i].code = 0
          BY DEF IdleWork
        <5> HIDE DEF next
        <5>2. CASE Goto(w, [next EXCEPT !.pc = "append", !.ver = 1])
          BY ONLY <5>2, <5>4
        <5>3. ASSUME NEW i, Goto(w, [next EXCEPT !.pc = "read", !.latest = i])
              PROVE  \E locals : Goto(w, locals) /\ locals.code \in {0, 400}
          BY ONLY <5>3, <5>4
        <5> USE DEF next
        <5> QED
          BY <3>1, <5>1, <5>2, <5>3 DEF Lookup
      <4> QED
        BY <1>2, <4>1
    <3>2. CASE LookupFails(w) \/ ReadHeadFails(w) \/ PrepareRefuses(w) \/ AppendFails(w)
      BY <1>2, <2>2, <3>2 DEF LookupFails, ReadHeadFails, PrepareRefuses, AppendFails
    <3>3. CASE ReadHead(w)
      <4>1. CASE Goto(w, Answer(400))
        BY <1>2, <2>2, <4>1
      <4>2. CASE Goto(w, [work[w] EXCEPT !.pc = "append",
                                         !.ver = EntryAt(work[w].latest).ver + 1])
        <5> DEFINE locals == [work[w] EXCEPT !.pc = "append",
                                             !.ver = EntryAt(work[w].latest).ver + 1]
        <5>1. work[w] \in Work
          BY <1>1
        <5>2. locals.code = work[w].code /\ locals.idx = work[w].idx
          BY <5>1 DEF Work
        <5> HIDE DEF locals
        <5>3. Goto(w, locals)
          BY <4>2 DEF locals
        <5> QED
          BY <1>2, <5>2, <5>3
      <4> QED
        BY <3>3, <4>1, <4>2 DEF ReadHead
    <3>4. CASE AppendEntry(w)
      <4>1. PICK ev : Goto(w, Indexing(ev, Len(log)))
        BY <3>4 DEF AppendEntry
      <4>2. Indexing(ev, Len(log)).code = 0
        BY DEF Indexing, IdleWork
      <4> QED
        BY <1>2, <4>1, <4>2
    <3> QED
      BY <1>6, <3>1, <3>2, <3>3, <3>4 DEF AddEventStep
  <2> QED
    BY <1>3, <2>1, <2>3
<1>7. CASE PublishCheckpoint \/ Start \/ CheckAlignment \/ UNCHANGED vars
  <2>1. UNCHANGED <<table, receipts, work>>
    BY <1>7 DEF PublishCheckpoint, Start, CheckAlignment, durable, vars
  <2> QED
    BY <1>3, <2>1
<1>8. CASE Crash
  <2>1. UNCHANGED <<table, receipts>> /\ work' = InitWork
    BY <1>8 DEF Crash, durable
  <2>2. \A v \in Workers : work'[v].code = 0
    BY <2>1 DEF InitWork, IdleWork
  <2> QED
    BY <1>3, <2>1, <2>2
<1> QED
  BY <1>4, <1>5, <1>6, <1>7, <1>8 DEF Next
-----------------------------------------------------------------------------
(* What the page knows outlives the server's steps.                        *)

LEMMA InitEstablishesPageInv == PageInit => PageInv
<1> SUFFICES ASSUME PageInit PROVE PageInv
  OBVIOUS
<1>1. IInv /\ log = << >> /\ receipts = {} /\ page = NoPage /\ work = InitWork
  BY InitEstablishesIInv DEF PageInit, Init
<1>2. VersionsFollow
  BY <1>1 DEF VersionsFollow
<1>3. RowsKept
  BY <1>1 DEF RowsKept, InitWork, IdleWork
<1>4. PageOK
  BY <1>1 DEF PageOK, Page, NoPage, Fetched
<1> QED
  BY <1>1, <1>2, <1>3, <1>4 DEF PageInv

LEMMA ServerStepKeepsPage ==
    ASSUME PageInv, [Next]_vars, UNCHANGED page
    PROVE  PageOK'
<1> DEFINE I == 0 .. Len(log) - 1
<1>1. IInv /\ RowsKept /\ PageOK
  BY DEF PageInv
<1>2. /\ Len(log) \in Nat /\ Len(log') \in Nat /\ Len(log) <= Len(log')
      /\ \A i \in I : EntryAt(i)' = EntryAt(i)
  BY <1>1, LogGrows
<1>3. receipts \subseteq receipts'
  BY <1>1, RowsKeptPreserved
<1>4. I \subseteq 0 .. Len(log') - 1
  BY <1>2
<1>5. page \in Page(I)
  BY <1>1 DEF PageOK
<1> HIDE DEF I
<1>6. page' \in Page(0 .. Len(log) - 1)'
  <2>1. page.ordered \in Seq(0 .. Len(log') - 1)
    <3>1. page.ordered \in Seq(I)
      BY <1>5 DEF Page
    <3> QED
      BY <1>4, <3>1, SeqMonotonic
  <2> QED
    BY <1>3, <1>4, <1>5, <2>1 DEF Page
<1>7. page.stage = "indexes" \/ Fetched => page.current \in I
  BY <1>1 DEF PageOK, I
<1>8. ASSUME Fetched
      PROVE  /\ page.got \subseteq page.wanted
             /\ \A i \in page.wanted : SameDoc(i)'
             /\ InsertsSucceed =>
                   \A r \in page.known :
                      r.event.doc = EntryAt(page.current)'.doc => r.index \in page.wanted
  <2>1. page.current \in I /\ page.wanted \subseteq I
    BY <1>5, <1>7, <1>8 DEF Page
  <2>2. EntryAt(page.current)' = EntryAt(page.current)
    BY <1>2, <2>1 DEF EntryAt
  <2>3. \A i \in page.wanted : EntryAt(i)' = EntryAt(i) /\ SameDoc(i)
    BY <1>1, <1>2, <1>8, <2>1 DEF PageOK
  <2>4. \A i \in page.wanted : SameDoc(i)'
    BY <2>2, <2>3 DEF SameDoc, EntryAt
  <2> QED
    BY <1>1, <1>8, <2>2, <2>4 DEF PageOK
<1>9. ASSUME page.stage = "shown"
      PROVE  /\ HistoryIsWhole'
             /\ \A i \in page.wanted : EntryAt(i)'.ver <= EntryAt(Last(page.ordered))'.ver
  <2> DEFINE s == page.ordered
  <2>1. /\ ToSet(s) = page.wanted /\ Len(s) = Cardinality(page.wanted)
        /\ \A k, l \in DOMAIN s : EntryAt(s[l]).prev = EntryAt(s[k]).id => k < l
        /\ \A i \in page.wanted : EntryAt(i).ver <= EntryAt(Last(s)).ver
    BY <1>1, <1>9 DEF PageOK, HistoryIsWhole
  <2>2. s \in Seq(I) /\ page.wanted \subseteq I
    BY <1>5 DEF Page
  <2>3. \A k \in DOMAIN s : s[k] \in I /\ EntryAt(s[k])' = EntryAt(s[k])
    <3>1. \A k \in DOMAIN s : s[k] \in I
      BY <2>2
    <3> QED
      BY <1>2, <3>1 DEF EntryAt
  <2>4. HistoryIsWhole'
    <3>1. \A k, l \in DOMAIN s : EntryAt(s[l])'.prev = EntryAt(s[k])'.id => k < l
      BY <2>1, <2>3
    <3> QED
      BY <2>1, <3>1 DEF HistoryIsWhole, EntryAt
  <2>5. ASSUME NEW i \in page.wanted PROVE EntryAt(i)'.ver <= EntryAt(Last(s))'.ver
    <3>1. \E k \in DOMAIN s : s[k] = i
      BY <2>1 DEF ToSet
    <3>2. Len(s) \in DOMAIN s
      BY <2>2, <3>1
    <3>3. EntryAt(Last(s))' = EntryAt(Last(s))
      BY <2>3, <3>2 DEF Last, EntryAt
    <3>4. EntryAt(i)' = EntryAt(i)
      BY <1>2, <2>2
    <3> QED
      BY <2>1, <3>3, <3>4
  <2> QED
    BY <2>4, <2>5
<1>10. page.stage \in {"entry", "indexes"} => page.current \in Nat /\ page.got = {}
  BY <1>1 DEF PageOK
<1>11. page.current \in I => page'.current \in 0 .. Len(log') - 1
  BY <1>4
<1> QED
  BY <1>6, <1>7, <1>8, <1>9, <1>10, <1>11 DEF PageOK, Fetched, EntryAt

-----------------------------------------------------------------------------
(* The page's own steps.                                                   *)

\* The rows of an entry's document are those of the entries of its document.
LEMMA RowsOfDocument ==
    ASSUME IInv, NEW c \in 0 .. Len(log) - 1
    PROVE  GetIndexesByDocID(EntryAt(c).doc) =
               {i \in DOMAIN table : EntryAt(i).doc = EntryAt(c).doc}
<1>1. EntryAt(c) \in Event
  BY EntryType DEF IInv
<1>2. Trim(EntryAt(c).doc) = EntryAt(c).doc
  <2>1. EntryAt(c).doc \in {req.doc : req \in Admitted}
    BY <1>1 DEF Event
  <2> QED
    BY <2>1, RequestsAreDecoded DEF Admitted
<1> QED
  BY <1>2, RowDocument DEF GetIndexesByDocID, IndexesByDocID

LEMMA FailedPage ==
    ASSUME PageInv, PageFailed, UNCHANGED vars
    PROVE  PageOK'
<1>1. page \in Page(0 .. Len(log) - 1)
  BY DEF PageInv, PageOK
<1>2. page' = [page EXCEPT !.stage = "failed"]
  BY DEF PageFailed
<1>3. page'.stage = "failed" /\ page' \in Page(0 .. Len(log) - 1)
  BY <1>1, <1>2 DEF Page
<1>4. page' \in Page(0 .. Len(log) - 1)'
  BY <1>3 DEF vars, Page
<1> QED
  BY <1>3, <1>4 DEF PageOK, Fetched

LEMMA OpenKeepsPageOK ==
    ASSUME PageInv, NEW i \in 0 .. MaxLog - 1, Open(i)
    PROVE  PageOK'
<1>1. page' = [stage |-> "entry", current |-> i, known |-> receipts,
               wanted |-> {}, got |-> {}, ordered |-> << >>]
  BY DEF Open, NoPage
<1>2. UNCHANGED vars
  BY DEF Open
<1>3. i \in Nat
  BY MaxLogAssumption
<1>4. page' \in Page(0 .. Len(log) - 1)'
  BY <1>1, <1>2, <1>3 DEF Page, vars
<1> QED
  BY <1>1, <1>3, <1>4 DEF PageOK, Fetched

LEMMA FetchCurrentKeepsPageOK ==
    ASSUME PageInv, FetchCurrent
    PROVE  PageOK'
<1>1. page.stage = "entry" /\ UNCHANGED vars
  BY DEF FetchCurrent
<1>2. page \in Page(0 .. Len(log) - 1) /\ page.current \in Nat /\ page.got = {}
  BY <1>1 DEF PageInv, PageOK
<1>3. CASE EntryAnswered(page.current) /\ page' = [page EXCEPT !.stage = "indexes"]
  <2>1. page.current \in 0 .. Len(log) - 1
    BY <1>2, <1>3 DEF EntryAnswered, Readable, PageInv, IInv, TypeOK
  <2>2. /\ page'.stage = "indexes" /\ page'.current = page.current /\ page'.got = {}
        /\ page' \in Page(0 .. Len(log) - 1)
    BY <1>2, <1>3 DEF Page
  <2>3. page' \in Page(0 .. Len(log) - 1)'
    BY <1>1, <2>2 DEF vars, Page
  <2> QED
    BY <1>1, <1>2, <2>1, <2>2, <2>3 DEF PageOK, Fetched, vars
<1> QED
  BY <1>1, <1>3, FailedPage DEF FetchCurrent

LEMMA FetchIndexesKeepsPageOK ==
    ASSUME PageInv, FetchIndexes
    PROVE  PageOK'
<1> DEFINE c == page.current
           found == GetIndexesByDocID(EntryAt(c).doc)
<1>1. page.stage = "indexes" /\ UNCHANGED vars
  BY DEF FetchIndexes
<1>2. /\ page \in Page(0 .. Len(log) - 1) /\ c \in 0 .. Len(log) - 1 /\ page.got = {}
      /\ IInv /\ RowsKept
  BY <1>1 DEF PageInv, PageOK
<1>3. CASE page' = [page EXCEPT !.stage = "entries", !.wanted = found]
  <2>1. found = {i \in DOMAIN table : EntryAt(i).doc = EntryAt(c).doc}
    BY <1>2, RowsOfDocument
  <2>2. found \subseteq 0 .. Len(log) - 1
    BY <1>2, <2>1, RowDocument
  <2>3. /\ page'.stage = "entries" /\ page'.current = c /\ page'.got = {}
        /\ page'.wanted = found /\ page'.known = page.known
        /\ page' \in Page(0 .. Len(log) - 1)
    <3> HIDE DEF found
    <3> QED
      BY <1>2, <1>3, <2>2 DEF Page
  <2>4. ASSUME InsertsSucceed, NEW r \in page.known, r.event.doc = EntryAt(c).doc
        PROVE  r.index \in found
    <3>1. r \in receipts
      BY <1>2 DEF Page
    <3>2. r.index \in DOMAIN table /\ EntryAt(r.index) = r.event
      BY <1>2, <2>4, <3>1 DEF RowsKept, IInv, ReceiptsHold
    <3> QED
      BY <2>1, <2>4, <3>2
  <2>5. \A i \in found : EntryAt(i).doc = EntryAt(c).doc
    BY <2>1
  <2> HIDE DEF found, c
  <2>6. log' = log /\ receipts' = receipts
    BY <1>1 DEF vars
  <2>7. page' \in Page(0 .. Len(log) - 1)'
    BY <2>3, <2>6 DEF Page
  <2>8. \A i \in page'.wanted : SameDoc(i)'
    BY <2>3, <2>5, <2>6 DEF SameDoc, EntryAt
  <2>9. \A r \in page'.known :
           InsertsSucceed /\ r.event.doc = EntryAt(page.current)'.doc
              => r.index \in page'.wanted
    BY <2>3, <2>4, <2>6 DEF EntryAt
  <2> QED
    BY <1>2, <2>3, <2>6, <2>7, <2>8, <2>9 DEF PageOK, Fetched
<1> QED
  BY <1>1, <1>3, FailedPage DEF FetchIndexes

LEMMA FetchVersionKeepsPageOK ==
    ASSUME PageInv, NEW i \in page.wanted, FetchVersion(i)
    PROVE  PageOK'
<1>1. page.stage = "entries" /\ UNCHANGED vars
  BY DEF FetchVersion
<1>2. page \in Page(0 .. Len(log) - 1) /\ PageOK
  BY DEF PageInv, PageOK
<1>3. CASE page' = [page EXCEPT !.got = @ \cup {i}]
  <2>1. /\ page'.stage = "entries" /\ page'.current = page.current
        /\ page'.got = page.got \cup {i}
        /\ page'.wanted = page.wanted /\ page'.known = page.known
        /\ page' \in Page(0 .. Len(log) - 1)
    BY <1>1, <1>2, <1>3 DEF Page
  <2>2. log' = log /\ receipts' = receipts
    BY <1>1 DEF vars
  <2>3. page' \in Page(0 .. Len(log) - 1)'
    BY <2>1, <2>2 DEF Page
  <2>4. \A j : SameDoc(j)' = SameDoc(j)
    BY <2>1, <2>2 DEF SameDoc, EntryAt
  <2> QED
    BY <1>1, <1>2, <2>1, <2>2, <2>3, <2>4 DEF PageOK, Fetched, EntryAt
<1> QED
  BY <1>1, <1>3, FailedPage DEF FetchVersion, Reject

LEMMA ShowKeepsPageOK ==
    ASSUME PageInv, Show
    PROVE  PageOK'
<1> DEFINE history == {i \in page.got : SameDoc(i)}
           s == SortHistory(history)
<1>1. page.stage = "entries" /\ page.got = page.wanted /\ UNCHANGED vars
  BY DEF Show
<1>2. page \in Page(0 .. Len(log) - 1) /\ PageOK /\ IInv /\ VersionsFollow
  BY DEF PageInv, PageOK
<1>3. history = page.wanted /\ history \in SUBSET (0 .. Len(log) - 1)
  BY <1>1, <1>2 DEF PageOK, Fetched, Page
<1>4. CASE history # {} /\ page' = [page EXCEPT !.stage = "shown", !.ordered = s]
  <2> HIDE DEF history
  <2>1. Ordered(history, s)
    BY <1>2, <1>3, <1>4, SortIsOrdered
  <2> HIDE DEF s
  <2>2. s \in Seq(0 .. Len(log) - 1)
    BY <1>3, <2>1 DEF Ordered
  <2>3. /\ page'.stage = "shown" /\ page'.current = page.current
        /\ page'.got = page.got /\ page'.ordered = s
        /\ page'.wanted = page.wanted /\ page'.known = page.known
        /\ page' \in Page(0 .. Len(log) - 1)
    BY <1>2, <1>4, <2>2 DEF Page
  <2>4. log' = log /\ receipts' = receipts
    BY <1>1 DEF vars
  <2>5. page' \in Page(0 .. Len(log) - 1)'
    BY <2>3, <2>4 DEF Page
  <2>6. \A j : SameDoc(j)' = SameDoc(j) /\ EntryAt(j)' = EntryAt(j)
    BY <2>3, <2>4 DEF SameDoc, EntryAt
  <2>7. HistoryIsWhole'
    <3>1. /\ ToSet(s) = page.wanted /\ Len(s) = Cardinality(page.wanted)
          /\ \A k, l \in DOMAIN s : log[s[l] + 1].prev = log[s[k] + 1].id => k < l
      BY <1>3, <2>1 DEF Ordered, EntryAt
    <3> QED
      BY <2>3, <2>4, <3>1 DEF HistoryIsWhole, EntryAt
  <2>8. \A j \in page'.wanted : EntryAt(j)'.ver <= EntryAt(Last(page.ordered))'.ver
    <3>1. \A j \in page.wanted : log[j + 1].ver <= log[Last(s) + 1].ver
      BY <1>3, <2>1 DEF Ordered, EntryAt
    <3> QED
      BY <2>3, <2>4, <3>1 DEF EntryAt
  <2> QED
    BY <1>1, <1>2, <2>3, <2>4, <2>5, <2>6, <2>7, <2>8 DEF PageOK, Fetched, EntryAt
<1> QED
  BY <1>1, <1>4, FailedPage DEF Show

-----------------------------------------------------------------------------
(* Theorems.                                                               *)

LEMMA PageNextPreserves ==
    ASSUME PageInv, [PageNext]_pageVars
    PROVE  PageInv'
<1>1. CASE [Next]_vars /\ UNCHANGED page
  BY <1>1, NextPreserves, VersionsFollowPreserved, RowsKeptPreserved, ServerStepKeepsPage
     DEF PageInv
<1>2. CASE PageStep
  <2>1. [Next]_vars
    BY <1>2 DEF PageStep, Open, FetchCurrent, FetchIndexes, FetchVersion, Show
  <2>2. IInv' /\ VersionsFollow' /\ RowsKept'
    BY <2>1, NextPreserves, VersionsFollowPreserved, RowsKeptPreserved DEF PageInv
  <2>3. PageOK'
    BY <1>2, OpenKeepsPageOK, FetchCurrentKeepsPageOK, FetchIndexesKeepsPageOK,
       FetchVersionKeepsPageOK, ShowKeepsPageOK DEF PageStep
  <2> QED
    BY <2>2, <2>3 DEF PageInv
<1> QED
  BY <1>1, <1>2 DEF PageNext, pageVars

\* The inductive invariant of the page beside the running server.
THEOREM PageInvariance == PageSpec => []PageInv
<1>1. PageInit => PageInv
  BY InitEstablishesPageInv
<1>2. PageInv /\ [PageNext]_pageVars => PageInv'
  BY PageNextPreserves
<1> QED
  BY <1>1, <1>2, PTL DEF PageSpec

\* A history is shown whole and in the order of its links, however many
\* requests raced on the document while it was fetched.
THEOREM HistoryShownWhole == PageSpec => []HistoryIsWhole
<1>1. PageInv => HistoryIsWhole
  BY DEF PageInv, PageOK, HistoryIsWhole
<1> QED
  BY <1>1, PageInvariance, PTL

\* Unless an insert failed, the page calls no entry the latest of a document
\* that a receipt given before it opened had already taken further.
THEOREM LatestIsHonest ==
    ASSUME InsertsSucceed
    PROVE  PageSpec => []LatestCoversReceipts
<1>1. PageInv => LatestCoversReceipts
  <2> SUFFICES ASSUME PageInv, SaysLatest, NEW r \in page.known,
                      r.event.doc = EntryAt(page.current).doc
               PROVE  r.event.ver <= EntryAt(page.current).ver
    BY DEF LatestCoversReceipts
  <2>1. page.stage = "shown" /\ page.current = Last(page.ordered)
    BY DEF SaysLatest
  <2>2. r \in receipts /\ r.index \in page.wanted
    BY <2>1 DEF PageInv, PageOK, Page, Fetched
  <2>3. EntryAt(r.index) = r.event
    BY <2>2 DEF PageInv, IInv, ReceiptsHold
  <2> QED
    BY <2>1, <2>2, <2>3 DEF PageInv, PageOK
<1> QED
  BY <1>1, PageInvariance, PTL

-----------------------------------------------------------------------------
(* The plan.                                                               *)

\* The recursive definition of FlattenSeq has a solution, and its values are
\* sequences of the elements: a least place where not would have one before.
LEMMA FlattenSeqType ==
    ASSUME NEW S, NEW ss \in Seq(Seq(S))
    PROVE  FlattenSeq(ss) \in Seq(S)
<1> DEFINE N == Len(ss)
           Next1(f, i) == IF i = 1 THEN ss[i] ELSE f[i - 1] \o ss[i]
           Solves(f, m) == f = [i \in 1 .. m |-> Next1(f, i)]
           Bad == {m \in Nat : ~\E f : Solves(f, m)}
<1>1. Bad = {}
  <2> SUFFICES ASSUME Bad # {} PROVE FALSE
    OBVIOUS
  <2>1. PICK m \in Bad : \A j \in Bad : m <= j
    <3>1. Bad \in SUBSET Nat
      OBVIOUS
    <3> HIDE DEF Bad
    <3> QED
      BY <3>1, Least
  <2>2. m # 0
    <3>1. Solves([i \in 1 .. 0 |-> {}], 0)
      OBVIOUS
    <3> QED
      BY <2>1, <3>1
  <2>3. m \in Nat /\ m - 1 \in Nat /\ m - 1 \notin Bad
    <3>1. m \in Nat
      OBVIOUS
    <3> HIDE DEF Bad
    <3> QED
      BY <2>1, <2>2, <3>1
  <2>4. PICK f : Solves(f, m - 1)
    BY <2>3
  <2> DEFINE g == [i \in 1 .. m |-> Next1(f, i)]
  <2>5. \A i \in 1 .. m - 1 : g[i] = f[i]
    <3>1. \A i \in 1 .. m - 1 : i \in 1 .. m
      BY <2>3
    <3> HIDE DEF Next1
    <3> QED
      BY <2>4, <3>1
  <2>6. ASSUME NEW i \in 1 .. m PROVE Next1(g, i) = Next1(f, i)
    <3>1. CASE i = 1
      BY <3>1
    <3>2. CASE i # 1
      <4>1. i - 1 \in 1 .. m - 1
        BY <2>1, <3>2
      <4> HIDE DEF g
      <4> QED
        BY <2>5, <3>2, <4>1
    <3> QED
      BY <3>1, <3>2
  <2>7. Solves(g, m)
    <3> HIDE DEF Next1
    <3>1. g = [i \in 1 .. m |-> Next1(f, i)]
      OBVIOUS
    <3> HIDE DEF g
    <3> QED
      BY <2>6, <3>1
  <2> HIDE DEF g, Solves
  <2> QED
    BY <2>1, <2>7
<1>2. N \in Nat /\ \E f : Solves(f, N)
  <2>1. N \in Nat
    OBVIOUS
  <2> HIDE DEF Solves
  <2> QED
    BY <1>1, <2>1
<1> DEFINE F == CHOOSE f : Solves(f, N)
<1>3. Solves(F, N)
  <2> HIDE DEF Solves
  <2> QED
    BY <1>2
<1>4. FlattenSeq(ss) = IF N = 0 THEN ss ELSE F[N]
  BY DEF FlattenSeq
<1> HIDE DEF F
<1>5. \A i \in 1 .. N : F[i] = Next1(F, i)
  <2> HIDE DEF Next1
  <2> QED
    BY <1>3
<1> DEFINE Wrong == {i \in 1 .. N : F[i] \notin Seq(S)}
<1>6. Wrong = {}
  <2> SUFFICES ASSUME Wrong # {} PROVE FALSE
    OBVIOUS
  <2>1. PICK m \in Wrong : \A j \in Wrong : m <= j
    <3>1. Wrong \in SUBSET Nat
      BY <1>2
    <3> HIDE DEF Wrong
    <3> QED
      BY <3>1, Least
  <2>2. m \in 1 .. N /\ F[m] \notin Seq(S) /\ ss[m] \in Seq(S)
    BY <1>2
  <2>3. CASE m = 1
    BY <1>5, <2>2, <2>3
  <2>4. CASE m # 1
    <3>1. m - 1 \in 1 .. N /\ ~ (m <= m - 1)
      BY <1>2, <2>2, <2>4
    <3>2. F[m - 1] \in Seq(S)
      BY <2>1, <3>1
    <3>3. F[m] = F[m - 1] \o ss[m]
      BY <1>5, <2>2, <2>4
    <3> QED
      BY <2>2, <3>2, <3>3
  <2> QED
    BY <2>3, <2>4
<1>7. CASE N = 0
  BY <1>4, <1>7
<1>8. CASE N # 0
  <2>1. N \in 1 .. N
    BY <1>2, <1>8
  <2>2. F[N] \in Seq(S)
    BY <1>6, <2>1
  <2> QED
    BY <1>4, <1>8, <2>2
<1> QED
  BY <1>7, <1>8

\* The plan begins with one CREATE of each document; updates are of those.
LEMMA PlanType ==
    ASSUME NEW c \in Chosen
    PROVE  /\ Plan(c) \in Seq(DOMAIN DocIDs)
           /\ numCreateDocs \in Nat /\ DOMAIN DocIDs = 1 .. numCreateDocs
           /\ numCreateDocs <= Len(Plan(c))
           /\ \A i \in DOMAIN DocIDs : Plan(c)[i] = i
<1> DEFINE D == DOMAIN DocIDs
           creates == [i \in 1 .. numCreateDocs |-> i]
           updates == [j \in DOMAIN c |-> [u \in 1 .. updatesPerChosenDoc[j] |-> c[j]]]
<1>1. numCreateDocs \in Nat /\ D = 1 .. numCreateDocs
  BY SeedAssumption DEF numCreateDocs
<1>2. creates \in Seq(D) /\ Len(creates) = numCreateDocs
  BY <1>1
<1>3. updates \in Seq(Seq(D))
  <2>1. c \in [DOMAIN updatesPerChosenDoc -> D]
    BY DEF Chosen
  <2>2. DOMAIN updatesPerChosenDoc = 1 .. Len(updatesPerChosenDoc)
    BY SeedAssumption
  <2>3. ASSUME NEW j \in DOMAIN c
        PROVE  [u \in 1 .. updatesPerChosenDoc[j] |-> c[j]] \in Seq(D)
    <3>1. updatesPerChosenDoc[j] \in Nat /\ c[j] \in D
      BY <2>1, SeedAssumption
    <3> HIDE DEF D
    <3> QED
      BY <3>1
  <2>4. updates \in [1 .. Len(updatesPerChosenDoc) -> Seq(D)]
    BY <2>1, <2>2, <2>3
  <2> HIDE DEF updates, D
  <2> QED
    BY <2>4, SeedAssumption
<1>4. FlattenSeq(updates) \in Seq(D)
  BY <1>3, FlattenSeqType
<1>5. Plan(c) = creates \o FlattenSeq(updates)
  BY DEF Plan
<1> HIDE DEF creates, updates
<1>6. Plan(c) \in Seq(D) /\ Len(Plan(c)) >= numCreateDocs
  BY <1>1, <1>2, <1>4, <1>5
<1>7. \A i \in 1 .. numCreateDocs : creates[i] = i
  BY DEF creates
<1>8. \A i \in 1 .. numCreateDocs : Plan(c)[i] = creates[i]
  BY <1>1, <1>2, <1>4, <1>5
<1> QED
  BY <1>1, <1>6, <1>7, <1>8

-----------------------------------------------------------------------------
(* Steps of the server, as the tool's handler and the others take them.    *)

LEMMA StepOfOne ==
    ASSUME IInv, NEW w \in Workers, AddEventStep(w)
    PROVE  /\ \A v \in Workers \ {w} : work'[v] = work[v]
           /\ work' \in [Workers -> Work]
           /\ mode' = mode
<1>1. work \in [Workers -> Work]
  BY DEF IInv, TypeOK
<1>2. \E locals : Goto(w, locals)
  BY DEF AddEventStep, Lookup, LookupFails, ReadHead, ReadHeadFails,
         AppendEntry, PrepareRefuses, AppendFails, IndexEntry, Respond
<1>3. mode' = mode
  BY DEF AddEventStep, Lookup, LookupFails, ReadHead, ReadHeadFails,
         AppendEntry, PrepareRefuses, AppendFails, IndexEntry, Respond
<1>4. IInv'
  BY AddEventStepPreserves
<1> QED
  BY <1>1, <1>2, <1>3, <1>4 DEF Goto, IInv, TypeOK

LEMMA AnswerFields ==
    ASSUME NEW code \in {400, 500}
    PROVE  /\ Answer(code).pc = "respond" /\ Answer(code).code = code
           /\ Answer(code) # IdleWork
<1>1. Answer(code).pc = "respond" /\ Answer(code).code = code
  BY DEF Answer, IdleWork
<1>2. IdleWork.pc = "idle"
  BY DEF IdleWork
<1> QED
  BY <1>1, <1>2

\* A lookup begins a request or refuses it.
LEMMA LookupEffect ==
    ASSUME IInv, NEW w \in Workers, NEW req, Lookup(w, req) \/ LookupFails(w)
    PROVE  /\ work[w].pc = "idle" /\ log' = log
           /\ work'[w].code # 200 /\ work'[w] # IdleWork
           /\ \/ /\ work'[w].pc \in {"read", "append"}
                 /\ work'[w].req = req /\ RoomInLog
              \/ work'[w].pc = "respond"
<1>1. work[w].pc = "idle" /\ log' = log
  BY DEF Lookup, LookupFails, durable
<1>2. work \in [Workers -> Work] /\ IdleWork.pc = "idle"
  BY DEF IInv, TypeOK, IdleWork
<1>3. CASE Goto(w, Answer(400))
  <2>1. work'[w] = Answer(400)
    BY <1>2, <1>3 DEF Goto
  <2> QED
    BY <1>1, <2>1, AnswerFields
<1> DEFINE next == [IdleWork EXCEPT !.req = req, !.seen = DOMAIN table]
           reads(i) == [next EXCEPT !.pc = "read", !.latest = i]
           appends == [next EXCEPT !.pc = "append", !.ver = 1]
<1>4. /\ appends.pc = "append" /\ appends.req = req /\ appends.code = 0
      /\ \A i : reads(i).pc = "read" /\ reads(i).req = req /\ reads(i).code = 0
  BY DEF IdleWork
<1>5. Goto(w, Answer(400)) \/ (RoomInLog /\ (Goto(w, appends) \/ \E i : Goto(w, reads(i))))
  BY DEF Lookup, LookupFails
<1> HIDE DEF appends, reads
<1>6. Goto(w, appends) => work'[w] = appends
  BY <1>2 DEF Goto
<1>7. ASSUME NEW i, Goto(w, reads(i)) PROVE work'[w] = reads(i)
  BY <1>2, <1>7 DEF Goto
<1> QED
  BY <1>1, <1>2, <1>3, <1>4, <1>5, <1>6, <1>7

\* The steps between the lookup and the answer.
LEMMA HandlingEffect ==
    ASSUME IInv, NEW w \in Workers, Handling(w)
    PROVE  \/ /\ work[w].pc = "read" /\ log' = log
              /\ work'[w].pc = "append" /\ work'[w].req = work[w].req
              /\ work'[w].code = work[w].code /\ work'[w].idx = work[w].idx
           \/ /\ work[w].pc \in {"read", "append"} /\ log' = log
              /\ work'[w].pc = "respond" /\ work'[w].code # 200
           \/ AppendEntry(w)
           \/ /\ work[w].pc = "index" /\ log' = log
              /\ work'[w].pc = "respond" /\ work'[w].idx = work[w].idx
<1>1. work \in [Workers -> Work]
  BY DEF IInv, TypeOK
<1>2. ASSUME NEW code \in {400, 500}, Goto(w, Answer(code))
      PROVE  work'[w].pc = "respond" /\ work'[w].code # 200
  BY <1>1, <1>2, AnswerFields DEF Goto
<1>3. CASE ReadHead(w)
  <2> DEFINE locals == [work[w] EXCEPT !.pc = "append",
                                       !.ver = EntryAt(work[w].latest).ver + 1]
  <2>1. work[w].pc = "read" /\ log' = log /\ (Goto(w, locals) \/ Goto(w, Answer(400)))
    BY <1>3 DEF ReadHead, durable
  <2>2. /\ locals.pc = "append" /\ locals.req = work[w].req
        /\ locals.code = work[w].code /\ locals.idx = work[w].idx
    BY <1>1 DEF Work
  <2> HIDE DEF locals
  <2>3. Goto(w, locals) => work'[w] = locals
    BY <1>1 DEF Goto
  <2> QED
    BY <1>2, <2>1, <2>2, <2>3
<1>4. CASE ReadHeadFails(w) \/ PrepareRefuses(w) \/ AppendFails(w)
  <2>1. \E code \in {400, 500} : Goto(w, Answer(code))
    BY <1>4 DEF ReadHeadFails, PrepareRefuses, AppendFails
  <2>2. work[w].pc \in {"read", "append"} /\ log' = log
    BY <1>4 DEF ReadHeadFails, PrepareRefuses, AppendFails, durable
  <2> QED
    BY <1>2, <2>1, <2>2
<1>5. CASE IndexEntry(w)
  <2>1. work[w].pc = "index" /\ log' = log /\ Goto(w, AnswerOK(work[w].ev, work[w].idx))
    BY <1>5 DEF IndexEntry
  <2>2. work[w].idx \in Nat /\ work[w].ev \in Event
    BY <2>1, EntryType DEF IInv, WorkerOK, TypeOK
  <2>3. work'[w] = AnswerOK(work[w].ev, work[w].idx)
    BY <1>1, <2>1 DEF Goto
  <2> QED
    BY <2>1, <2>2, <2>3, EventWork
<1> QED
  BY <1>3, <1>4, <1>5 DEF Handling

LEMMA LastOfAppend ==
    ASSUME NEW S, log \in Seq(S), NEW e, NEW f, Append(log, e) = Append(log, f)
    PROVE  e = f
<1>1. Append(log, e)[Len(log) + 1] = e /\ Append(log, f)[Len(log) + 1] = f
  OBVIOUS
<1> QED
  BY <1>1

\* What the append puts into the log is the worker's own request.
LEMMA AppendEffect ==
    ASSUME IInv, NEW w \in Workers, AppendEntry(w)
    PROVE  \E ev \in Event :
              /\ log' = Append(log, ev)
              /\ ev.type = work[w].req.type /\ ev.doc = work[w].req.doc
              /\ ev.prev = work[w].req.prev /\ ev.ver = work[w].ver
              /\ work[w].pc = "append"
              /\ work'[w].pc = "index" /\ work'[w].idx = Len(log) /\ work'[w].ev = ev
              /\ work'[w].code = 0
<1>1. work \in [Workers -> Work] /\ Len(log) \in Nat
  BY DEF IInv, TypeOK
<1>2. PICK now \in Times, id \in EventIDs \ UsedIDs :
         LET ev == PreparedEvent(work[w].req, work[w].ver, id,
                                 ComputeRecordedAt(work[w].req, now, DevMode))
         IN  log' = Append(log, ev) /\ Goto(w, Indexing(ev, Len(log)))
  BY DEF AppendEntry
<1> DEFINE ev == PreparedEvent(work[w].req, work[w].ver, id,
                               ComputeRecordedAt(work[w].req, now, DevMode))
<1>3. /\ ev.type = work[w].req.type /\ ev.doc = work[w].req.doc
      /\ ev.prev = work[w].req.prev /\ ev.ver = work[w].ver
  BY DEF PreparedEvent
<1> HIDE DEF ev
<1>4. log' = Append(log, ev) /\ work'[w] = Indexing(ev, Len(log))
  BY <1>1, <1>2 DEF Goto, ev
<1>5. ev \in Event
  <2>1. PICK e \in Event : log' = Append(log, e)
    BY AppendedFollows
  <2>2. e = ev
    BY <1>1, <1>4, <2>1, LastOfAppend DEF IInv, TypeOK
  <2> QED
    BY <2>1, <2>2
<1>6. work[w].pc = "append"
  BY DEF AppendEntry
<1> QED
  BY <1>1, <1>3, <1>4, <1>5, <1>6, EventWork

-----------------------------------------------------------------------------
(* The tool beside the server.                                             *)

LEMMA RequestOfTool ==
    ASSUME SeedOK, Serial <= Len(seed.plan)
    PROVE  /\ Serial \in Nat /\ Serial = Len(seed.summary) + 1
           /\ Doc \in DOMAIN DocIDs
           /\ seed.states[Doc] \in DocState
           /\ CurrentRequest \in SeedRequests /\ CurrentRequest \in Requests
           /\ CurrentRequest.doc = DocIDs[Doc]
           /\ CurrentRequest.prev = seed.states[Doc].prev
           /\ CurrentRequest.type = IF Serial <= numCreateDocs THEN Create ELSE Update
           /\ DOMAIN DocIDs = 1 .. numCreateDocs /\ numCreateDocs \in Nat
           /\ Serial <= numCreateDocs => Doc = Serial
<1>1. DOMAIN DocIDs = 1 .. numCreateDocs /\ numCreateDocs \in Nat
  BY SeedAssumption DEF numCreateDocs
<1>2. seed.summary \in Seq(SummaryRow) /\ seed.plan \in Seq(DOMAIN DocIDs)
  BY DEF SeedOK
<1>3. Serial \in 1 .. Len(seed.plan) /\ Serial = Len(seed.summary) + 1
  BY <1>2 DEF Serial
<1>4. Doc \in DOMAIN DocIDs
  BY <1>2, <1>3 DEF Doc
<1>5. seed.states[Doc] \in DocState
  BY <1>4 DEF SeedOK
<1>6. Serial <= numCreateDocs => Doc = Serial
  BY <1>1, <1>3 DEF SeedOK, Doc
<1> DEFINE t == IF Serial <= numCreateDocs THEN Create ELSE Update
<1>7. CurrentRequest = [SeedRequest EXCEPT !.type = t, !.doc = DocIDs[Doc],
                            !.prev = seed.states[Doc].prev, !.leaf = seed.states[Doc].leaf]
  BY DEF CurrentRequest
<1>8. /\ t \in {Create, Update}
      /\ seed.states[Doc].prev \in EventIDs \cup {None}
      /\ seed.states[Doc].leaf \in 0 .. MaxLog - 1 \cup {None}
  BY <1>5 DEF DocState
<1> HIDE DEF t
<1> DEFINE prev == seed.states[Doc].prev
           leaf == seed.states[Doc].leaf
<1>9. CurrentRequest \in SeedRequests
  <2>1. prev \in EventIDs \cup {None} /\ leaf \in 0 .. MaxLog - 1 \cup {None}
    BY <1>8
  <2> DEFINE R(a, i, p, l) ==
                 [SeedRequest EXCEPT !.type = a, !.doc = DocIDs[i], !.prev = p, !.leaf = l]
  <2>2. CurrentRequest = R(t, Doc, prev, leaf)
    BY <1>7
  <2>3. SeedRequests = {R(a, i, p, l) : a \in {Create, Update}, i \in DOMAIN DocIDs,
                            p \in EventIDs \cup {None}, l \in 0 .. MaxLog - 1 \cup {None}}
    BY DEF SeedRequests
  <2>4. t \in {Create, Update}
    BY <1>8
  <2> HIDE DEF prev, leaf, R
  <2>5. \E a \in {Create, Update} : \E i \in DOMAIN DocIDs : \E p \in EventIDs \cup {None} :
            \E l \in 0 .. MaxLog - 1 \cup {None} : CurrentRequest = R(a, i, p, l)
    BY ONLY <1>4, <2>1, <2>2, <2>4, Zenon
  <2> QED
    BY ONLY <2>3, <2>5
<1>10. /\ CurrentRequest.doc = DocIDs[Doc]
       /\ CurrentRequest.prev = seed.states[Doc].prev
       /\ CurrentRequest.type = t
  BY <1>7, SeedAssumption
<1> QED
  BY <1>1, <1>3, <1>4, <1>5, <1>6, <1>9, <1>10, SeedRequestsAssumption DEF t

\* Every step is a step of the server, or leaves it alone.
LEMMA SeedStepsAreServerSteps ==
    ASSUME SeedInv, SeedNext
    PROVE  [Next]_vars
<1>1. CASE Post
  <2>1. CurrentRequest \in Requests
    BY <1>1, RequestOfTool DEF Post, SeedInv
  <2> QED
    BY <1>1, <2>1, SeedAssumption DEF Post, Next, AddEventStep
<1>2. CASE ReceiveAnswer \/ AnswerNobody
  BY <1>2, SeedAssumption DEF ReceiveAnswer, AnswerNobody, Next, AddEventStep
<1>3. CASE PostRefused \/ GiveUp \/ WriteSummary
  BY <1>3 DEF PostRefused, GiveUp, WriteSummary
<1>4. ASSUME NEW w \in Workers, OtherHandler(w) PROVE Next
  BY <1>4 DEF OtherHandler, OtherRequests, Next, AddEventStep
<1>5. ASSUME NEW w \in Workers, Handling(w) PROVE Next
  BY <1>5 DEF Handling, Next, AddEventStep
<1>6. CASE PublishCheckpoint \/ Start \/ CheckAlignment \/ Crash
  BY <1>6 DEF Next
<1> QED
  BY <1>1, <1>2, <1>3, <1>4, <1>5, <1>6 DEF SeedNext, SeedStep, ServerStep

LEMMA LogFitsPreserved ==
    ASSUME IInv, LogFits, [Next]_vars
    PROVE  LogFits'
<1>1. /\ Len(log) \in Nat
      /\ IsFiniteSet(Pending) /\ Cardinality(Pending) \in Nat
  BY WorkersAreFinite, FS_Subset, FS_CardinalityType DEF Pending, IInv, TypeOK
<1>2. ASSUME Pending' \in SUBSET Pending, log' = log PROVE LogFits'
  <2>1. Cardinality(Pending') <= Cardinality(Pending) /\ Cardinality(Pending') \in Nat
    BY <1>1, <1>2, FS_Subset, FS_CardinalityType
  <2> QED
    BY <1>1, <1>2, <2>1, MaxLogAssumption DEF LogFits
<1>3. ASSUME NEW w \in Workers, \A v \in Workers \ {w} : work'[v] = work[v]
      PROVE  /\ Pending' \in SUBSET (Pending \cup {w})
             /\ work'[w].pc \notin {"read", "append"} => Pending' \in SUBSET (Pending \ {w})
  BY <1>3 DEF Pending
<1>4. ASSUME NEW w \in Workers, AddEventStep(w) PROVE LogFits'
  <2>1. \A v \in Workers \ {w} : work'[v] = work[v]
    BY <1>4, StepOfOne
  <2>2. ASSUME work[w].pc = "idle", log' = log,
               RoomInLog \/ work'[w].pc = "respond"
        PROVE  LogFits'
    <3>1. CASE work'[w].pc = "respond"
      BY <1>2, <1>3, <2>1, <2>2, <3>1
    <3>2. CASE RoomInLog
      <4>1. w \notin Pending
        BY <2>2 DEF Pending
      <4>2. /\ IsFiniteSet(Pending \cup {w})
            /\ Cardinality(Pending \cup {w}) = Cardinality(Pending) + 1
        BY <1>1, <4>1, FS_AddElement
      <4>3. Pending' \in SUBSET (Pending \cup {w})
        BY <1>3, <2>1
      <4>4. Cardinality(Pending') <= Cardinality(Pending) + 1 /\ Cardinality(Pending') \in Nat
        BY <4>2, <4>3, FS_Subset, FS_CardinalityType
      <4> QED
        BY <1>1, <2>2, <3>2, <4>4, MaxLogAssumption DEF LogFits, RoomInLog
    <3> QED
      BY <2>2, <3>1, <3>2
  <2>3. ASSUME work[w].pc \in {"read", "append"}, log' = log PROVE LogFits'
    <3>1. w \in Pending
      BY <2>3 DEF Pending
    <3> QED
      BY <1>2, <1>3, <2>1, <2>3, <3>1
  <2>4. ASSUME work'[w].pc \notin {"read", "append"}, log' = log PROVE LogFits'
    BY <1>2, <1>3, <2>1, <2>4
  <2>5. CASE AppendEntry(w)
    <3>1. PICK ev \in Event : /\ log' = Append(log, ev) /\ work[w].pc = "append"
                              /\ work'[w].pc = "index"
      BY <2>5, AppendEffect
    <3>2. Len(log') = Len(log) + 1 /\ w \in Pending
      BY <3>1 DEF IInv, TypeOK, Pending
    <3>3. Pending' \in SUBSET (Pending \ {w})
      BY <1>3, <2>1, <3>1
    <3>4. /\ Cardinality(Pending \ {w}) = Cardinality(Pending) - 1
          /\ IsFiniteSet(Pending \ {w}) /\ Cardinality(Pending \ {w}) \in Nat
      BY <1>1, <3>2, FS_RemoveElement, FS_CardinalityType
    <3>5. Cardinality(Pending') <= Cardinality(Pending) - 1 /\ Cardinality(Pending') \in Nat
      BY <3>3, <3>4, FS_Subset, FS_CardinalityType
    <3> QED
      BY <1>1, <3>2, <3>5, MaxLogAssumption DEF LogFits
  <2>6. CASE Handling(w)
    BY <2>3, <2>4, <2>5, <2>6, HandlingEffect
  <2>7. ASSUME NEW req, Lookup(w, req) \/ LookupFails(w) PROVE LogFits'
    BY <2>2, <2>7, LookupEffect
  <2>8. CASE Respond(w)
    <3>1. log' = log /\ work'[w] = IdleWork
      BY <2>8 DEF Respond, durable, Goto, IInv, TypeOK
    <3> QED
      BY <2>4, <3>1 DEF IdleWork
  <2> QED
    BY <1>4, <2>6, <2>7, <2>8 DEF AddEventStep, Handling
<1>5. CASE PublishCheckpoint \/ Start \/ CheckAlignment \/ UNCHANGED vars
  <2>1. work' = work /\ log' = log
    BY <1>5 DEF PublishCheckpoint, Start, CheckAlignment, durable, vars
  <2> QED
    BY <1>2, <2>1 DEF Pending
<1>6. CASE Crash
  <2>1. log' = log /\ work' = InitWork
    BY <1>6 DEF Crash, durable
  <2>2. \A v \in Workers : work'[v].pc = "idle"
    BY <2>1 DEF InitWork, IdleWork
  <2>3. Pending' \in SUBSET Pending
    BY <2>2 DEF Pending
  <2> QED
    BY <1>2, <2>1, <2>3
<1> QED
  BY <1>4, <1>5, <1>6 DEF Next

\* Only the tool's handler works on a request about the run's documents.
LEMMA OthersKeepOffPreserved ==
    ASSUME SeedInv, SeedNext
    PROVE  OthersKeepOff'
<1>1. IInv /\ OthersKeepOff
  BY DEF SeedInv
<1>2. ASSUME AddEventStep(SeedWorker) PROVE OthersKeepOff'
  <2>1. \A v \in Workers \ {SeedWorker} : work'[v] = work[v]
    BY <1>1, <1>2, StepOfOne, SeedAssumption
  <2> QED
    BY <1>1, <2>1 DEF OthersKeepOff
<1>3. ASSUME NEW w \in Workers \ {SeedWorker}, AddEventStep(w),
             work'[w].pc \in {"read", "append"} => work'[w].req.doc \notin Range(DocIDs)
      PROVE  OthersKeepOff'
  <2>1. \A v \in Workers \ {w} : work'[v] = work[v]
    BY <1>1, <1>3, StepOfOne
  <2> QED
    BY <1>1, <1>3, <2>1 DEF OthersKeepOff
<1>4. ASSUME work' = work PROVE OthersKeepOff'
  BY <1>1, <1>4 DEF OthersKeepOff
<1>5. CASE Post
  <2>1. CurrentRequest \in Requests
    BY <1>5, RequestOfTool DEF Post, SeedInv
  <2> QED
    BY <1>2, <1>5, <2>1 DEF Post, AddEventStep
<1>6. CASE ReceiveAnswer \/ AnswerNobody
  BY <1>2, <1>6 DEF ReceiveAnswer, AnswerNobody, AddEventStep
<1>7. CASE PostRefused \/ GiveUp \/ WriteSummary \/ PublishCheckpoint \/ Start \/ CheckAlignment
  BY <1>4, <1>7 DEF PostRefused, GiveUp, WriteSummary, PublishCheckpoint, Start,
                    CheckAlignment, vars
<1>8. CASE Crash
  <2>1. \A v \in Workers : work'[v].pc = "idle"
    BY <1>8 DEF Crash, InitWork, IdleWork
  <2> QED
    BY <2>1 DEF OthersKeepOff
<1>9. ASSUME NEW w \in Workers, Handling(w) PROVE OthersKeepOff'
  <2>1. AddEventStep(w)
    BY <1>9 DEF Handling, AddEventStep
  <2>2. CASE w = SeedWorker
    BY <1>2, <2>1, <2>2
  <2>3. CASE w # SeedWorker
    <3>1. \/ work[w].pc = "read" /\ work'[w].req = work[w].req
          \/ work'[w].pc \notin {"read", "append"}
      BY <1>1, <1>9, HandlingEffect, AppendEffect
    <3> QED
      BY <1>1, <1>3, <2>1, <2>3, <3>1 DEF OthersKeepOff
  <2> QED
    BY <2>2, <2>3
<1>10. ASSUME NEW w \in Workers, OtherHandler(w) PROVE OthersKeepOff'
  <2>1. AddEventStep(w) /\ w # SeedWorker
    BY <1>10 DEF OtherHandler, OtherRequests, AddEventStep
  <2>2. CASE Respond(w)
    <3>1. work'[w] = IdleWork
      BY <1>1, <2>2 DEF Respond, Goto, IInv, TypeOK
    <3> QED
      BY <1>3, <2>1, <3>1 DEF IdleWork
  <2>3. ASSUME NEW req \in OtherRequests, Lookup(w, req) PROVE OthersKeepOff'
    <3>1. work'[w].pc \in {"read", "append"} => work'[w].req = req
      BY <1>1, <2>3, LookupEffect
    <3> QED
      BY <1>3, <2>1, <3>1 DEF OtherRequests
  <2>4. CASE LookupFails(w)
    <3>1. work'[w] = Answer(400)
      BY <1>1, <2>4 DEF LookupFails, Goto, IInv, TypeOK
    <3> QED
      BY <1>3, <2>1, <3>1, AnswerFields
  <2> QED
    BY <1>10, <2>2, <2>3, <2>4 DEF OtherHandler
<1> QED
  BY <1>5, <1>6, <1>7, <1>8, <1>9, <1>10 DEF SeedNext, SeedStep, ServerStep

-----------------------------------------------------------------------------
(* The summary while no answer is taken.                                   *)

Stages == {"ready", "waiting", "panicked", "done"}

\* What the tool, its handler and the log know of each other.
Tracked ==
    SeedOK /\ (\A i \in DOMAIN DocIDs : LastRow(i)) /\ RowsHold /\ HandlerOK /\ Accounted

LEMMA SummaryKept ==
    ASSUME SeedInv, [Next]_vars, NEW st \in Stages, seed' = [seed EXCEPT !.stage = st]
    PROVE  /\ seed'.stage = st
           /\ seed'.plan = seed.plan /\ seed'.summary = seed.summary
           /\ seed'.states = seed.states
           /\ SeedOK' /\ (\A i \in DOMAIN DocIDs : LastRow(i)') /\ RowsHold'
           /\ Serial' = Serial /\ Doc' = Doc /\ CurrentRequest' = CurrentRequest
           /\ \A i \in 0 .. Len(log) - 1 : Expected(i) => Expected(i)'
<1>1. IInv /\ SeedOK /\ RowsHold /\ \A i \in DOMAIN DocIDs : LastRow(i)
  BY DEF SeedInv
<1>2. /\ Len(log) \in Nat /\ Len(log') \in Nat /\ Len(log) <= Len(log')
      /\ \A i \in 0 .. Len(log) - 1 : EntryAt(i)' = EntryAt(i)
  BY <1>1, LogGrows
<1>3. /\ seed'.stage = st
      /\ seed'.plan = seed.plan /\ seed'.summary = seed.summary
      /\ seed'.states = seed.states
  BY <1>1 DEF SeedOK
<1>4. SeedOK'
  BY <1>1, <1>3 DEF SeedOK, Stages
<1>5. \A i \in DOMAIN DocIDs : LastRow(i)'
  BY <1>1, <1>3 DEF LastRow
<1>6. ASSUME NEW k \in DOMAIN seed.summary PROVE RowHolds(k)'
  <2>1. RowHolds(k) /\ seed.summary[k] \in SummaryRow
    BY <1>1 DEF RowsHold, SeedOK
  <2>2. seed.summary[k].index \in 0 .. Len(log) - 1
    BY <1>2, <2>1 DEF RowHolds, SummaryRow
  <2>3. log[seed.summary[k].index + 1] = log'[seed.summary[k].index + 1]
    BY <1>2, <2>2 DEF EntryAt
  <2>4. seed.summary[k].index < Len(log')
    BY <1>2, <2>2
  <2> QED
    BY <1>3, <2>1, <2>3, <2>4 DEF RowHolds, EntryAt
<1>7. Serial' = Serial /\ Doc' = Doc
  BY <1>3 DEF Serial, Doc
<1>8. CurrentRequest' = CurrentRequest
  BY <1>3, <1>7 DEF CurrentRequest
<1>9. \A i \in 0 .. Len(log) - 1 : Expected(i) => Expected(i)'
  BY <1>2, <1>3, <1>7 DEF Expected, EntryAt
<1>10. RowsHold'
  BY <1>3, <1>6 DEF RowsHold
<1> QED
  BY <1>3, <1>4, <1>5, <1>7, <1>8, <1>9, <1>10

Foreign == \E ev \in Event : log' = Append(log, ev) /\ ev.doc \notin Range(DocIDs)

LEMMA UnsummarisedKept ==
    ASSUME IInv, seed'.summary = seed.summary, log' = log \/ Foreign
    PROVE  Unsummarised' = Unsummarised
<1>1. log \in Seq(Event) /\ Len(log) \in Nat /\ DOMAIN log = 1 .. Len(log)
  BY DEF IInv, TypeOK
<1>2. CASE log' = log
  BY <1>2 DEF Unsummarised
<1>3. CASE Foreign
  <2>1. PICK ev \in Event : log' = Append(log, ev) /\ ev.doc \notin Range(DocIDs)
    BY <1>3 DEF Foreign
  <2>2. /\ DOMAIN log' = DOMAIN log \cup {Len(log) + 1}
        /\ \A k \in DOMAIN log : log'[k] = log[k]
        /\ log'[Len(log) + 1] = ev
    <3>1. /\ log' \in Seq(Event) /\ Len(log') = Len(log) + 1
          /\ \A k \in 1 .. Len(log) : log'[k] = log[k]
          /\ log'[Len(log) + 1] = ev
      <4>1. /\ log' \in Seq(Event) /\ Len(log') = Len(log) + 1
            /\ \A i \in 0 .. Len(log) - 1 : log'[i + 1] = log[i + 1]
            /\ log'[Len(log) + 1] = ev
        BY <1>1, <2>1, AppendKeepsEntries DEF EntryAt
      <4>2. ASSUME NEW k \in 1 .. Len(log) PROVE log'[k] = log[k]
        <5>1. k - 1 \in 0 .. Len(log) - 1 /\ (k - 1) + 1 = k
          BY <1>1
        <5> QED
          BY <4>1, <5>1
      <4> QED
        BY <4>1, <4>2
    <3>2. DOMAIN log' = 1 .. Len(log) + 1
      BY <3>1
    <3> QED
      BY <1>1, <3>1, <3>2
  <2> QED
    BY <1>1, <2>1, <2>2 DEF Unsummarised
<1> QED
  BY <1>2, <1>3

\* Steps in which the tool's handler appends nothing.
LEMMA QuietStep ==
    ASSUME SeedInv, [Next]_vars, NEW st \in Stages, seed' = [seed EXCEPT !.stage = st],
           log' = log \/ Foreign,
           st \in {"ready", "done"} => work'[SeedWorker] = IdleWork /\ Unsummarised = {},
           work'[SeedWorker] # IdleWork => Serial <= Len(seed.plan),
           work'[SeedWorker].pc \in {"read", "append"} =>
               work'[SeedWorker].req = CurrentRequest /\ Unsummarised = {},
           Appended' => Appended /\ work'[SeedWorker].idx = Handler.idx
    PROVE  Tracked'
<1>1. IInv /\ HandlerOK /\ Accounted
  BY DEF SeedInv
<1>2. /\ seed'.stage = st
      /\ seed'.plan = seed.plan /\ seed'.summary = seed.summary
      /\ SeedOK' /\ (\A i \in DOMAIN DocIDs : LastRow(i)') /\ RowsHold'
      /\ Serial' = Serial /\ CurrentRequest' = CurrentRequest
      /\ \A i \in 0 .. Len(log) - 1 : Expected(i) => Expected(i)'
  BY SummaryKept
<1>3. Unsummarised' = Unsummarised
  BY <1>1, <1>2, UnsummarisedKept
<1>4. Appended => Handler.idx \in 0 .. Len(log) - 1
  BY <1>1, SeedAssumption DEF Appended, Handler, IInv, WorkerOK
<1>5. Appended' => Expected(Handler.idx)'
  <2> SUFFICES ASSUME Appended' PROVE Expected(Handler.idx)'
    OBVIOUS
  <2>1. PICK i \in 0 .. Len(log) - 1 : i = work'[SeedWorker].idx /\ Expected(i)
    BY <1>1, <1>4 DEF HandlerOK
  <2>2. Expected(i)'
    BY <1>2, <2>1
  <2> QED
    BY <2>1, <2>2 DEF Expected, EntryAt, Handler
<1>6. HandlerOK'
  BY <1>2, <1>5 DEF HandlerOK, Handler
<1>7. Accounted'
  BY <1>1, <1>2, <1>3 DEF Accounted, Handler
<1> QED
  BY <1>2, <1>6, <1>7 DEF Tracked

\* The handler appends what the tool asked for, next to nothing unaccounted.
LEMMA AppendStep ==
    ASSUME SeedInv, [Next]_vars, AppendEntry(SeedWorker), UNCHANGED seed
    PROVE  Tracked'
<1> DEFINE w == SeedWorker
           n == Len(log)
<1>1. /\ IInv /\ SeedOK /\ HandlerOK /\ Accounted /\ w \in Workers
      /\ \A i \in DOMAIN DocIDs : LastRow(i)
  BY SeedAssumption DEF SeedInv
<1>2. log \in Seq(Event) /\ n \in Nat /\ DOMAIN log = 1 .. n
  BY <1>1 DEF IInv, TypeOK
<1>3. PICK ev \in Event :
         /\ log' = Append(log, ev)
         /\ ev.type = work[w].req.type /\ ev.doc = work[w].req.doc
         /\ ev.prev = work[w].req.prev /\ ev.ver = work[w].ver
         /\ work[w].pc = "append"
         /\ work'[w].pc = "index" /\ work'[w].idx = n /\ work'[w].code = 0
  BY <1>1, AppendEffect
<1>4. work[w].req = CurrentRequest /\ Handler # IdleWork /\ Unsummarised = {}
  BY <1>1, <1>3 DEF HandlerOK, Accounted, Handler, IdleWork
<1>5. Serial <= Len(seed.plan) /\ seed.stage \notin {"ready", "done"}
  BY <1>1, <1>4 DEF HandlerOK
<1>6. /\ Doc \in DOMAIN DocIDs /\ seed.states[Doc] \in DocState /\ Serial \in Nat
      /\ Serial = Len(seed.summary) + 1
      /\ CurrentRequest.doc = DocIDs[Doc]
      /\ CurrentRequest.prev = seed.states[Doc].prev
      /\ CurrentRequest.type = IF Serial <= numCreateDocs THEN Create ELSE Update
      /\ DOMAIN DocIDs = 1 .. numCreateDocs /\ numCreateDocs \in Nat
      /\ Serial <= numCreateDocs => Doc = Serial
  BY <1>1, <1>5, RequestOfTool
<1>7. WorkerOK(w)
  BY <1>1 DEF IInv
\* The server's version is the tool's own count.
<1>8. work[w].ver = seed.states[Doc].ver + 1
  <2>1. CASE Serial <= numCreateDocs
    <3>1. work[w].ver = 1
      BY <1>3, <1>4, <1>6, <1>7, <2>1, TypesDiffer DEF WorkerOK, Extending
    <3>2. seed.states[Doc].ver = 0
      <4>1. ~(Doc <= Len(seed.summary))
        BY <1>1, <1>6, <2>1 DEF SeedOK
      <4>2. LastRow(Doc)
        BY <1>1, <1>6
      <4> QED
        BY <4>1, <4>2 DEF LastRow
    <3> QED
      BY <3>1, <3>2
  <2>2. CASE ~(Serial <= numCreateDocs)
    <3> DEFINE l == work[w].latest
    <3>1. /\ l \in 0 .. n - 1
          /\ EntryAt(l).id = seed.states[Doc].prev
          /\ work[w].ver = EntryAt(l).ver + 1
      <4>1. Update # Create
        BY TypesDiffer DEF Extensions
      <4> QED
        BY <1>3, <1>4, <1>6, <1>7, <2>2, <4>1 DEF WorkerOK, Extending
    <3>2. Doc <= Len(seed.summary) /\ Len(seed.summary) \in Nat
      BY <1>1, <1>6, <2>2 DEF SeedOK
    <3>3. PICK k \in DOMAIN seed.summary :
              /\ seed.summary[k].ver = seed.states[Doc].ver
              /\ seed.summary[k].id = seed.states[Doc].prev
      BY <1>1, <1>6, <3>2 DEF LastRow
    <3>4. RowHolds(k) /\ seed.summary[k] \in SummaryRow
      BY <1>1 DEF SeedInv, RowsHold, SeedOK
    <3> DEFINE i == seed.summary[k].index
    <3>5. i \in 0 .. n - 1 /\ EntryAt(i).id = EntryAt(l).id /\ EntryAt(i).ver = seed.states[Doc].ver
      BY <1>2, <3>1, <3>3, <3>4 DEF RowHolds, SummaryRow
    <3>6. i = l
      BY <1>1, <3>1, <3>5 DEF IInv, ChainsLinked
    <3> QED
      BY <3>1, <3>5, <3>6
  <2> QED
    BY <2>1, <2>2
<1>9. /\ seed' = [seed EXCEPT !.stage = seed.stage] /\ seed.stage \in Stages
  BY <1>1 DEF SeedOK, Stages
<1>10. SeedOK' /\ (\A i \in DOMAIN DocIDs : LastRow(i)') /\ RowsHold'
  BY <1>9, SummaryKept
<1>11. /\ Len(log') = n + 1 /\ log'[n + 1] = ev /\ DOMAIN log' = DOMAIN log \cup {n + 1}
       /\ \A k \in DOMAIN log : log'[k] = log[k]
  BY <1>2, <1>3
<1>12. HandlerOK'
  <2>1. Serial' = Serial /\ Doc' = Doc
    BY DEF Serial, Doc
  <2>2. /\ log'[n + 1].doc = DocIDs[Doc]
        /\ log'[n + 1].prev = seed.states[Doc].prev
        /\ log'[n + 1].ver = seed.states[Doc].ver + 1
    BY <1>3, <1>4, <1>6, <1>8, <1>11
  <2>3. Expected(Handler.idx)'
    BY <1>3, <2>1, <2>2 DEF Expected, Handler, EntryAt
  <2> QED
    BY <1>3, <1>5, <2>1, <2>3 DEF HandlerOK, Handler
<1>13. Unsummarised' \subseteq {n + 1}
  BY <1>4, <1>11 DEF Unsummarised
<1>14. Accounted'
  BY <1>3, <1>5, <1>13 DEF Accounted, Handler
<1> QED
  BY <1>10, <1>12, <1>14 DEF Tracked

-----------------------------------------------------------------------------
(* An answer is taken.                                                     *)

LEMMA TakeAnswerStep ==
    ASSUME SeedInv, ReceiveAnswer, Handler.code = 200,
           TakeAnswer(Handler.ev, Handler.idx)
    PROVE  Tracked'
<1> DEFINE i == Handler.idx
           d == Doc
           n == Len(seed.summary)
           ver == seed.states[d].ver + 1
           state == [ver |-> ver, prev |-> Handler.ev.id, leaf |-> i]
           row == [doc |-> DocIDs[d], ver |-> ver, id |-> Handler.ev.id,
                   type |-> Handler.ev.type, index |-> i]
<1>1. /\ IInv /\ LogFits /\ SeedOK /\ RowsHold /\ HandlerOK /\ Accounted
      /\ (\A j \in DOMAIN DocIDs : LastRow(j)) /\ SeedWorker \in Workers
  BY SeedAssumption DEF SeedInv
<1>2. /\ work[SeedWorker].pc = "respond" /\ work[SeedWorker].code = 200
      /\ log' = log /\ work'[SeedWorker] = IdleWork
  BY <1>1 DEF ReceiveAnswer, Respond, durable, Goto, Handler, IInv, TypeOK
<1>3. Handler # IdleWork /\ Appended
  BY <1>2 DEF Handler, Appended, IdleWork
<1>4. Serial <= Len(seed.plan) /\ Expected(i)
  BY <1>1, <1>3 DEF HandlerOK
<1>5. /\ d \in DOMAIN DocIDs /\ seed.states[d] \in DocState
      /\ Serial \in Nat /\ Serial = n + 1
      /\ DOMAIN DocIDs = 1 .. numCreateDocs /\ numCreateDocs \in Nat
      /\ Serial <= numCreateDocs => d = Serial
  BY <1>1, <1>4, RequestOfTool
<1>6. i \in 0 .. Len(log) - 1 /\ Handler.ev = EntryAt(i) /\ Handler.ev \in Event
  BY <1>1, <1>2, EntryType DEF IInv, WorkerOK, Handler
<1>7. i \in Nat /\ i \in 0 .. MaxLog - 1
  <2>1. Cardinality(Pending) \in Nat /\ Len(log) \in Nat
    BY <1>1, WorkersAreFinite, FS_Subset, FS_CardinalityType DEF Pending, IInv, TypeOK
  <2> QED
    BY <1>1, <1>6, <2>1, MaxLogAssumption DEF LogFits
<1>8. /\ EntryAt(i).doc = DocIDs[d] /\ EntryAt(i).prev = seed.states[d].prev
      /\ EntryAt(i).ver = ver /\ EntryAt(i).id = Handler.ev.id
  BY <1>4, <1>6 DEF Expected
<1>9. seed.states[d].ver \in Nat /\ ver \in Nat \ {0}
  BY <1>5 DEF DocState
<1>10. state \in DocState
  BY <1>6, <1>7, <1>9 DEF DocState, Event
<1>11. row \in SummaryRow
  <2>1. DocIDs[d] \in Range(DocIDs)
    BY <1>5 DEF Range
  <2>2. Handler.ev.id \in EventIDs /\ Handler.ev.type \in {req.type : req \in Admitted}
    BY <1>6 DEF Event
  <2> QED
    BY <1>7, <1>9, <2>1, <2>2 DEF SummaryRow
<1>12. seed' = [seed EXCEPT !.stage = "ready", !.states[d] = state,
                            !.summary = Append(@, row)]
  BY DEF TakeAnswer, NewVersion
<1>13. /\ state.ver = ver /\ state.prev = EntryAt(i).id /\ state.leaf = i
       /\ row.doc = EntryAt(i).doc /\ row.ver = ver /\ row.id = EntryAt(i).id
       /\ row.index = i /\ row.doc = DocIDs[d]
  BY <1>8
<1> HIDE DEF state, row, ver
<1>14. /\ seed'.stage = "ready" /\ seed'.plan = seed.plan
       /\ seed'.states = [seed.states EXCEPT ![d] = state]
       /\ seed'.summary = Append(seed.summary, row)
       /\ seed' \in [stage : {"ready", "waiting", "panicked", "done"},
                     plan : Seq(DOMAIN DocIDs), summary : Seq(SummaryRow),
                     states : [DOMAIN DocIDs -> DocState]]
  <2>1. seed \in [stage : {"ready", "waiting", "panicked", "done"},
                  plan : Seq(DOMAIN DocIDs), summary : Seq(SummaryRow),
                  states : [DOMAIN DocIDs -> DocState]]
    BY <1>1 DEF SeedOK
  <2>2. Append(seed.summary, row) \in Seq(SummaryRow)
    BY <1>11, <2>1
  <2>3. [seed.states EXCEPT ![d] = state] \in [DOMAIN DocIDs -> DocState]
    BY <1>10, <2>1
  <2> QED
    BY <1>12, <2>1, <2>2, <2>3
<1>15. /\ n \in Nat /\ Len(seed'.summary) = n + 1 /\ DOMAIN seed.summary = 1 .. n
       /\ DOMAIN seed'.summary = 1 .. n + 1
       /\ seed'.summary[n + 1] = row
       /\ \A k \in 1 .. n : seed'.summary[k] = seed.summary[k]
  <2>1. seed.summary \in Seq(SummaryRow)
    BY <1>1 DEF SeedOK
  <2> QED
    BY <1>11, <1>14, <2>1
<1>16. /\ seed'.states[d] = state
       /\ \A j \in DOMAIN DocIDs \ {d} : seed'.states[j] = seed.states[j]
  BY <1>1, <1>5, <1>14 DEF SeedOK
<1>17. SeedOK'
  BY <1>1, <1>4, <1>5, <1>14, <1>15 DEF SeedOK
<1>18. ASSUME NEW j \in DOMAIN DocIDs PROVE LastRow(j)'
  <2>1. CASE j = d
    <3>1. j <= n + 1
      BY <1>5, <2>1
    <3> QED
      BY <1>13, <1>15, <1>16, <2>1, <3>1 DEF LastRow
  <2>2. CASE j # d
    <3>1. seed'.states[j] = seed.states[j]
      BY <1>16, <2>2
    <3>2. CASE j > n
      <4>1. j > n + 1
        BY <1>5, <1>15, <2>2, <3>2
      <4>2. seed.states[j] = [ver |-> 0, prev |-> None, leaf |-> None]
        BY <1>1, <1>5, <1>15, <3>2 DEF LastRow
      <4> QED
        BY <1>15, <3>1, <4>1, <4>2 DEF LastRow
    <3>3. CASE j <= n
      <4>1. PICK k \in 1 .. n : /\ seed.summary[k].doc = DocIDs[j]
                                /\ seed.summary[k].ver = seed.states[j].ver
                                /\ seed.summary[k].id = seed.states[j].prev
                                /\ seed.summary[k].index = seed.states[j].leaf
        <5>1. ~(j > n) /\ LastRow(j)
          BY <1>1, <1>5, <1>15, <3>3
        <5> QED
          BY <1>15, <5>1 DEF LastRow
      <4>2. k \in DOMAIN seed'.summary /\ j <= Len(seed'.summary)
        BY <1>5, <1>15, <3>3
      <4>3. /\ seed'.summary[k].doc = DocIDs[j]
            /\ seed'.summary[k].ver = seed'.states[j].ver
            /\ seed'.summary[k].id = seed'.states[j].prev
            /\ seed'.summary[k].index = seed'.states[j].leaf
        BY <1>15, <3>1, <4>1
      <4> QED
        BY <4>2, <4>3 DEF LastRow
    <3> QED
      BY <1>5, <1>15, <3>2, <3>3
  <2> QED
    BY <2>1, <2>2
<1>19. RowsHold'
  <2>1. ASSUME NEW k \in 1 .. n PROVE RowHolds(k)'
    <3>1. RowHolds(k)
      BY <1>1, <1>15, <2>1 DEF RowsHold
    <3>2. seed'.summary[k] = seed.summary[k]
          /\ \A l \in 1 .. k - 1 : seed'.summary[l] = seed.summary[l]
      BY <1>15
    <3> QED
      BY <1>2, <3>1, <3>2 DEF RowHolds, EntryAt
  <2>2. ASSUME NEW k, k = n + 1 PROVE RowHolds(k)'
    <3>1. seed'.summary[k] = row
      BY <1>15, <2>2
    <3>2. ASSUME row.ver > 1
          PROVE  \E l \in 1 .. k - 1 :
                    /\ seed'.summary[l].doc = row.doc
                    /\ seed'.summary[l].ver = row.ver - 1
                    /\ EntryAt(i).prev = seed'.summary[l].id
      <4>1. seed.states[d].ver # 0 /\ ver - 1 = seed.states[d].ver
        BY <1>9, <1>13, <3>2 DEF ver
      <4>2. ~(d > n) /\ LastRow(d)
        BY <1>1, <1>5, <1>15, <4>1 DEF LastRow
      <4>3. PICK l \in 1 .. n : /\ seed.summary[l].doc = DocIDs[d]
                                /\ seed.summary[l].ver = seed.states[d].ver
                                /\ seed.summary[l].id = seed.states[d].prev
        BY <4>2 DEF LastRow
      <4>4. l \in 1 .. k - 1 /\ seed'.summary[l] = seed.summary[l]
        BY <1>15, <2>2
      <4> QED
        BY <1>8, <1>13, <4>1, <4>3, <4>4
    <3>3. row.index < Len(log)
      BY <1>6, <1>7, <1>13
    <3>4. /\ EntryAt(row.index).doc = row.doc /\ EntryAt(row.index).id = row.id
          /\ EntryAt(row.index).ver = row.ver
      BY <1>8, <1>13
    <3>5. /\ log[row.index + 1].doc = row.doc /\ log[row.index + 1].id = row.id
          /\ log[row.index + 1].ver = row.ver /\ log[row.index + 1] = log[i + 1]
      BY <1>13, <3>4 DEF EntryAt
    <3>6. EntryAt(i).prev = log[row.index + 1].prev
      BY <3>5 DEF EntryAt
    <3> HIDE DEF i, d, n
    <3> QED
      BY <1>2, <3>1, <3>2, <3>3, <3>5, <3>6 DEF RowHolds, EntryAt
  <2> QED
    BY <1>15, <2>1, <2>2 DEF RowsHold
<1>20. HandlerOK'
  BY <1>2 DEF HandlerOK, Handler, Appended, IdleWork
<1>21. Unsummarised' = {}
  <2>1. Unsummarised' \subseteq Unsummarised
    BY <1>2, <1>15 DEF Unsummarised
  <2>2. Unsummarised \subseteq {i + 1}
    BY <1>1, <1>3 DEF Accounted
  <2>3. i + 1 \notin Unsummarised'
    <3>1. (i + 1) - 1 = i /\ n + 1 \in DOMAIN seed'.summary
      BY <1>7, <1>15
    <3>2. seed'.summary[n + 1].index = i
      BY <1>13, <1>15
    <3> HIDE DEF i
    <3> QED
      BY <3>1, <3>2 DEF Unsummarised
  <2> QED
    BY <2>1, <2>2, <2>3
<1>22. Accounted'
  BY <1>2, <1>21 DEF Accounted, Appended, Handler, IdleWork
<1> QED
  BY <1>17, <1>18, <1>19, <1>20, <1>22 DEF Tracked

-----------------------------------------------------------------------------
(* The invariant.                                                          *)

LEMMA InitEstablishesSeedInv == SeedInit => SeedInv
<1> SUFFICES ASSUME SeedInit PROVE SeedInv
  OBVIOUS
<1>1. IInv /\ log = << >> /\ work = InitWork
  BY InitEstablishesIInv DEF SeedInit, Init
<1>2. PICK c \in Chosen :
         seed = [stage |-> "ready", plan |-> Plan(c), summary |-> << >>,
                 states |-> [i \in DOMAIN DocIDs |-> [ver |-> 0, prev |-> None, leaf |-> None]]]
  BY DEF SeedInit
<1>3. /\ Plan(c) \in Seq(DOMAIN DocIDs)
      /\ numCreateDocs \in Nat /\ DOMAIN DocIDs = 1 .. numCreateDocs
      /\ numCreateDocs <= Len(Plan(c))
      /\ \A i \in DOMAIN DocIDs : Plan(c)[i] = i
  BY PlanType
<1>4. /\ seed.stage = "ready" /\ seed.plan = Plan(c) /\ seed.summary = << >>
      /\ \A i \in DOMAIN DocIDs : seed.states[i] = [ver |-> 0, prev |-> None, leaf |-> None]
  BY <1>2
<1>5. SeedOK
  <2>1. [ver |-> 0, prev |-> None, leaf |-> None] \in DocState
    BY DEF DocState
  <2>2. [i \in DOMAIN DocIDs |-> [ver |-> 0, prev |-> None, leaf |-> None]]
            \in [DOMAIN DocIDs -> DocState]
    BY <2>1
  <2>3. << >> \in Seq(SummaryRow)
    OBVIOUS
  <2>4. Len(<< >>) <= Len(Plan(c))
    BY <1>3
  <2> QED
    BY <1>2, <1>3, <1>4, <2>2, <2>3, <2>4 DEF SeedOK
<1>6. \A i \in DOMAIN DocIDs : LastRow(i)
  BY <1>3, <1>4 DEF LastRow
<1>7. RowsHold
  BY <1>4 DEF RowsHold
<1>8. Handler = IdleWork
  BY <1>1, SeedAssumption DEF Handler, InitWork
<1>9. HandlerOK
  BY <1>8 DEF HandlerOK, Appended, IdleWork
<1>10. Accounted
  BY <1>1, <1>8 DEF Accounted, Unsummarised, Appended, IdleWork
<1>11. OthersKeepOff
  BY <1>1 DEF OthersKeepOff, InitWork, IdleWork
<1>12. LogFits
  <2>1. Pending = {}
    BY <1>1 DEF Pending, InitWork, IdleWork
  <2> QED
    BY <1>1, <2>1, FS_EmptySet, MaxLogAssumption DEF LogFits
<1> QED
  BY <1>1, <1>5, <1>6, <1>7, <1>9, <1>10, <1>11, <1>12 DEF SeedInv

\* The tool's stage, rewritten as an update of the stage alone.
LEMMA StageUpdate ==
    ASSUME SeedInv
    PROVE  /\ seed = [seed EXCEPT !.stage = seed.stage]
           /\ seed.stage \in Stages
BY DEF SeedInv, SeedOK, Stages

LEMMA ToolStepKeepsTrack ==
    ASSUME SeedInv, [Next]_vars, SeedStep
    PROVE  Tracked'
<1> DEFINE w == SeedWorker
<1>1. IInv /\ HandlerOK /\ Accounted /\ SeedOK /\ w \in Workers
  BY SeedAssumption DEF SeedInv
<1>2. CASE Post
  <2>1. /\ seed.stage = "ready" /\ Serial <= Len(seed.plan)
        /\ seed' = [seed EXCEPT !.stage = "waiting"]
    BY <1>2 DEF Post
  <2>2. /\ log' = log /\ work'[w].code # 200
        /\ \/ work'[w].pc \in {"read", "append"} /\ work'[w].req = CurrentRequest
           \/ work'[w].pc = "respond"
    BY <1>1, <1>2, LookupEffect DEF Post
  <2>3. Unsummarised = {}
    BY <1>1, <2>1 DEF Accounted
  <2>4. ~Appended'
    BY <2>2 DEF Appended, Handler
  <2>5. "waiting" \in Stages
    BY DEF Stages
  <2> QED
    BY <2>1, <2>2, <2>3, <2>4, <2>5, QuietStep
<1>3. ASSUME vars' = vars, NEW st \in {"panicked", "done"},
             seed' = [seed EXCEPT !.stage = st],
             st = "done" => seed.stage = "ready"
      PROVE  Tracked'
  <2>1. log' = log /\ work'[w] = Handler /\ work' = work
    BY <1>3 DEF vars, Handler
  <2>2. Appended' => Appended /\ work'[w].idx = Handler.idx
    BY <2>1 DEF Appended, Handler
  <2>3. st \in Stages
    BY DEF Stages
  <2>4. st \in {"ready", "done"} => work'[w] = IdleWork /\ Unsummarised = {}
    BY <1>1, <1>3, <2>1 DEF HandlerOK, Accounted
  <2>5. work'[w] # IdleWork => Serial <= Len(seed.plan)
    BY <1>1, <2>1 DEF HandlerOK
  <2>6. work'[w].pc \in {"read", "append"} => work'[w].req = CurrentRequest /\ Unsummarised = {}
    BY <1>1, <2>1 DEF HandlerOK, Accounted
  <2> QED
    BY <1>3, <2>1, <2>2, <2>3, <2>4, <2>5, <2>6, QuietStep
<1>4. CASE PostRefused \/ GiveUp \/ WriteSummary
  BY <1>3, <1>4 DEF PostRefused, GiveUp, WriteSummary, Panic
<1>5. CASE ReceiveAnswer
  <2>1. log' = log /\ work'[w] = IdleWork
    BY <1>1, <1>5 DEF ReceiveAnswer, Respond, durable, Goto, IInv, TypeOK
  <2>2. CASE Handler.code = 200 /\ TakeAnswer(Handler.ev, Handler.idx)
    BY <1>5, <2>2, TakeAnswerStep
  <2>3. CASE Panic
    <3>1. ~Appended'
      BY <2>1 DEF Appended, Handler, IdleWork
    <3>2. "panicked" \in Stages /\ seed' = [seed EXCEPT !.stage = "panicked"]
      BY <2>3 DEF Stages, Panic
    <3>3. work'[w].pc \notin {"read", "append"}
      BY <2>1 DEF IdleWork
    <3> QED
      BY <2>1, <3>1, <3>2, <3>3, QuietStep
  <2> QED
    BY <1>5, <2>2, <2>3 DEF ReceiveAnswer, Handler
<1> QED
  BY <1>2, <1>4, <1>5 DEF SeedStep

LEMMA ServerStepKeepsTrack ==
    ASSUME SeedInv, [Next]_vars, ServerStep
    PROVE  Tracked'
<1> DEFINE w == SeedWorker
<1>1. IInv /\ HandlerOK /\ Accounted /\ SeedOK /\ OthersKeepOff /\ w \in Workers
  BY SeedAssumption DEF SeedInv
<1>2. /\ seed' = [seed EXCEPT !.stage = seed.stage] /\ seed' = seed
      /\ seed.stage \in Stages
  BY StageUpdate DEF ServerStep
<1>3. ASSUME work'[w] = work[w], log' = log \/ Foreign PROVE Tracked'
  <2>1. Appended' => Appended /\ work'[w].idx = Handler.idx
    BY <1>3 DEF Appended, Handler
  <2>2. seed.stage \in {"ready", "done"} => work'[w] = IdleWork /\ Unsummarised = {}
    BY <1>1, <1>3 DEF HandlerOK, Accounted, Handler
  <2>3. work'[w] # IdleWork => Serial <= Len(seed.plan)
    BY <1>1, <1>3 DEF HandlerOK, Handler
  <2>4. work'[w].pc \in {"read", "append"} => work'[w].req = CurrentRequest /\ Unsummarised = {}
    BY <1>1, <1>3 DEF HandlerOK, Accounted, Handler
  <2> QED
    BY <1>2, <1>3, <2>1, <2>2, <2>3, <2>4, QuietStep
<1>4. ASSUME work'[w] = IdleWork, log' = log PROVE Tracked'
  <2>1. ~Appended' /\ work'[w].pc = "idle"
    BY <1>4 DEF Appended, Handler, IdleWork
  <2>2. seed.stage \in {"ready", "done"} => Unsummarised = {}
    BY <1>1 DEF Accounted
  <2> QED
    BY <1>2, <1>4, <2>1, <2>2, QuietStep
<1>5. ASSUME NEW v \in Workers, OtherHandler(v) PROVE Tracked'
  <2>1. v # w /\ AddEventStep(v) /\ log' = log
    BY <1>5 DEF OtherHandler, OtherRequests, AddEventStep, Lookup, LookupFails, Respond, durable
  <2>2. work'[w] = work[w]
    BY <1>1, <2>1, StepOfOne
  <2> QED
    BY <1>3, <2>1, <2>2
<1>6. ASSUME NEW v \in Workers, Handling(v), v # w PROVE Tracked'
  <2>1. AddEventStep(v)
    BY <1>6 DEF Handling, AddEventStep
  <2>2. work'[w] = work[w]
    BY <1>1, <1>6, <2>1, StepOfOne
  <2>3. log' = log \/ Foreign
    <3>1. CASE AppendEntry(v)
      <4>1. PICK ev \in Event : /\ log' = Append(log, ev) /\ ev.doc = work[v].req.doc
                                /\ work[v].pc = "append"
        BY <1>1, <3>1, AppendEffect
      <4> QED
        BY <1>1, <1>6, <4>1 DEF OthersKeepOff, Foreign
    <3> QED
      BY <1>1, <1>6, <3>1, HandlingEffect
  <2> QED
    BY <1>3, <2>2, <2>3
<1>7. CASE Handling(w)
  <2>1. CASE AppendEntry(w)
    BY <1>2, <2>1, AppendStep
  <2>2. ASSUME work[w].pc \in {"read", "append", "index"}, log' = log,
               work'[w].pc \in {"read", "append"} =>
                   work[w].pc \in {"read", "append"} /\ work'[w].req = work[w].req,
               Appended' => Appended /\ work'[w].idx = Handler.idx
        PROVE  Tracked'
    <3>1. Handler # IdleWork
      BY <2>2 DEF Handler, IdleWork
    <3>2. Serial <= Len(seed.plan) /\ seed.stage \notin {"ready", "done"}
      BY <1>1, <3>1 DEF HandlerOK
    <3>3. work'[w].pc \in {"read", "append"} => work'[w].req = CurrentRequest /\ Unsummarised = {}
      BY <1>1, <2>2 DEF HandlerOK, Accounted, Handler
    <3> QED
      BY <1>2, <2>2, <3>2, <3>3, QuietStep
  <2>3. CASE /\ work[w].pc = "read" /\ log' = log
             /\ work'[w].pc = "append" /\ work'[w].req = work[w].req
             /\ work'[w].code = work[w].code /\ work'[w].idx = work[w].idx
    <3>1. Appended' => Appended /\ work'[w].idx = Handler.idx
      BY <2>3 DEF Appended, Handler
    <3> QED
      BY <2>2, <2>3, <3>1
  <2>4. CASE /\ work[w].pc \in {"read", "append"} /\ log' = log
             /\ work'[w].pc = "respond" /\ work'[w].code # 200
    <3>1. ~Appended'
      BY <2>4 DEF Appended, Handler
    <3> QED
      BY <2>2, <2>4, <3>1
  <2>5. CASE /\ work[w].pc = "index" /\ log' = log
             /\ work'[w].pc = "respond" /\ work'[w].idx = work[w].idx
    <3>1. Appended' => Appended /\ work'[w].idx = Handler.idx
      BY <2>5 DEF Appended, Handler
    <3> QED
      BY <2>2, <2>5, <3>1
  <2> QED
    BY <1>1, <1>7, <2>1, <2>3, <2>4, <2>5, HandlingEffect
<1>8. CASE AnswerNobody
  <2>1. log' = log /\ work'[w] = IdleWork
    BY <1>1, <1>8 DEF AnswerNobody, Respond, durable, Goto, IInv, TypeOK
  <2> QED
    BY <1>4, <2>1
<1>9. CASE PublishCheckpoint \/ Start \/ CheckAlignment
  <2>1. log' = log /\ work' = work
    BY <1>9 DEF PublishCheckpoint, Start, CheckAlignment, durable
  <2> QED
    BY <1>3, <2>1
<1>10. CASE Crash
  <2>1. log' = log /\ work'[w] = IdleWork
    BY <1>1, <1>10 DEF Crash, durable, InitWork
  <2> QED
    BY <1>4, <2>1
<1> QED
  BY <1>5, <1>6, <1>7, <1>8, <1>9, <1>10 DEF ServerStep

LEMMA SeedNextPreserves ==
    ASSUME SeedInv, [SeedNext]_seedVars
    PROVE  SeedInv'
<1>1. CASE SeedNext
  <2>1. [Next]_vars
    BY <1>1, SeedStepsAreServerSteps
  <2>2. IInv' /\ LogFits'
    BY <2>1, NextPreserves, LogFitsPreserved DEF SeedInv
  <2>3. OthersKeepOff'
    BY <1>1, OthersKeepOffPreserved
  <2>4. Tracked'
    BY <1>1, <2>1, ToolStepKeepsTrack, ServerStepKeepsTrack DEF SeedNext
  <2> QED
    BY <2>2, <2>3, <2>4 DEF SeedInv, Tracked
<1>2. CASE UNCHANGED seedVars
  <2>1. /\ UNCHANGED vars /\ seed' = seed /\ work' = work /\ log' = log
    BY <1>2 DEF seedVars, vars
  <2>2. IInv' /\ LogFits'
    BY <2>1, NextPreserves, LogFitsPreserved DEF SeedInv
  <2>3. OthersKeepOff'
    BY <2>1 DEF SeedInv, OthersKeepOff
  <2>4. SeedOK' /\ (\A i \in DOMAIN DocIDs : LastRow(i)')
    BY <2>1 DEF SeedInv, SeedOK, LastRow, Serial
  <2>5. RowsHold'
    BY <2>1 DEF SeedInv, RowsHold, RowHolds, EntryAt
  <2>6. HandlerOK'
    BY <2>1 DEF SeedInv, HandlerOK, Handler, Appended, Expected, EntryAt, Serial, Doc,
                CurrentRequest
  <2>7. Accounted'
    BY <2>1 DEF SeedInv, Accounted, Unsummarised, Handler, Appended
  <2> QED
    BY <2>2, <2>3, <2>4, <2>5, <2>6, <2>7 DEF SeedInv
<1> QED
  BY <1>1, <1>2

\* The inductive invariant of the sample data generator beside the server.
THEOREM SeedInvariance == SeedSpec => []SeedInv
<1>1. SeedInit => SeedInv
  BY InitEstablishesSeedInv
<1>2. SeedInv /\ [SeedNext]_seedVars => SeedInv'
  BY SeedNextPreserves
<1> QED
  BY <1>1, <1>2, PTL DEF SeedSpec

\* The summary agrees with the log in its indexes, versions and predecessors,
\* although the tool counts versions on its own, and the log holds at most
\* one event of the run that the summary does not know of.
THEOREM SummaryIsTrue == SeedSpec => []SummaryMatchesLog
<1>1. SeedInv => SummaryMatchesLog
  <2> SUFFICES ASSUME SeedInv PROVE SummaryMatchesLog
    OBVIOUS
  <2>1. Accounted /\ RowsHold
    BY DEF SeedInv
  <2>2. Cardinality(Unsummarised) <= 1
    <3>1. CASE Unsummarised = {}
      BY <3>1, FS_EmptySet
    <3>2. CASE Unsummarised # {}
      <4>1. PICK x \in Unsummarised : Unsummarised = {x}
        BY <2>1, <3>2 DEF Accounted
      <4> QED
        BY <4>1, FS_Singleton
    <3> QED
      BY <3>1, <3>2
  <2> QED
    BY <2>1, <2>2 DEF SummaryMatchesLog, Accounted, RowsHold
<1> QED
  BY <1>1, SeedInvariance, PTL
====
