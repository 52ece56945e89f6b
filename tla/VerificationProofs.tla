------------------------- MODULE VerificationProofs -------------------------
(***************************************************************************)
(* The two verification pages are exact, for logs of any length and trees  *)
(* of any shape.                                                           *)
(***************************************************************************)
EXTENDS InclusionPage, ConsistencyPage, SequenceTheorems, WellFoundedInduction, TLAPS

-----------------------------------------------------------------------------
(* Natural numbers. *)

LEMMA LeastNatural ==
    ASSUME NEW S \in SUBSET Nat, S # {}
    PROVE  \E m \in S : \A j \in S : m <= j
<1> DEFINE R == {ss \in Nat \X Nat : ss[1] < ss[2]}
<1>1. IsWellFoundedOn(R, Nat)
  BY NatLessThanWellFounded DEF OpToRel
<1>2. PICK m \in S : \A j \in S : ~ (<<j, m>> \in R)
  <2> HIDE DEF R
  <2> QED
    BY <1>1, WFMin
<1>3. ASSUME NEW j \in S PROVE m <= j
  <2>1. ~(j < m)
    BY <1>2
  <2> QED
    BY <2>1
<1> QED
  BY <1>3

\* Induction over the natural numbers, in the form that the provers can use:
\* a set that holds 0 and the successor of each of its members is all of them.
LEMMA AllNaturals ==
    ASSUME NEW S, 0 \in S, \A k \in Nat : k \in S => k + 1 \in S
    PROVE  Nat \subseteq S
<1> DEFINE Bad == {k \in Nat : k \notin S}
<1> SUFFICES ASSUME Bad # {} PROVE FALSE
  OBVIOUS
<1>1. PICK k \in Bad : \A j \in Bad : k <= j
  <2>1. Bad \in SUBSET Nat
    OBVIOUS
  <2> HIDE DEF Bad
  <2> QED
    BY <2>1, LeastNatural
<1>2. k \in Nat /\ k # 0
  OBVIOUS
<1>3. k - 1 \in Nat /\ ~(k <= k - 1)
  BY <1>2
<1>4. k - 1 \in S
  BY <1>1, <1>3
<1>5. k - 1 + 1 = k
  BY <1>2
<1> QED
  BY <1>3, <1>4, <1>5

-----------------------------------------------------------------------------
(* The recursive definitions. *)

\* A definition by recursion on k, from the value at k - 1, has a solution: up
\* to every m there is one, it agrees with those that go further, and their
\* last values make one for all of Nat.
LEMMA Pow2Equation ==
    Pow2 = [k \in Nat |-> IF k = 0 THEN 1 ELSE 2 * Pow2[k - 1]]
<1> DEFINE Def(f, k) == IF k = 0 THEN 1 ELSE 2 * f[k - 1]
           Solves(f, m) == f = [k \in 0 .. m |-> Def(f, k)]
           Agrees(f, m) == \A g : \A l \in Nat :
                             l >= m /\ Solves(g, l) => \A k \in 0 .. m : g[k] = f[k]
           S == {m \in Nat : \E f : Solves(f, m) /\ Agrees(f, m)}
<1>1. ASSUME NEW k \in Nat, NEW f, NEW g, k = 0 \/ f[k - 1] = g[k - 1]
      PROVE  Def(f, k) = Def(g, k)
  BY <1>1
<1> HIDE DEF Def
<1>2. 0 \in S
  <2> DEFINE f == [k \in 0 .. 0 |-> Def({}, k)]
  <2>1. ASSUME NEW g PROVE Def(g, 0) = Def({}, 0)
    BY <1>1
  <2>2. Solves(f, 0)
    <3>1. Def(f, 0) = Def({}, 0)
      BY <2>1
    <3> HIDE DEF f
    <3>2. f = [k \in 0 .. 0 |-> Def(f, k)]
      <4>1. \A k \in 0 .. 0 : Def({}, k) = Def(f, k)
        BY <3>1
      <4> QED
        BY <4>1 DEF f
    <3> QED
      BY <3>2
  <2>3. Agrees(f, 0)
    <3>1. ASSUME NEW g, NEW l \in Nat, Solves(g, l) PROVE g[0] = f[0]
      <4>1. g[0] = Def(g, 0)
        BY <3>1
      <4>2. f[0] = Def({}, 0)
        OBVIOUS
      <4> QED
        BY <4>1, <4>2, <2>1
    <3> HIDE DEF f, Solves
    <3> QED
      BY <3>1
  <2> HIDE DEF f, Solves, Agrees
  <2> QED
    BY <2>2, <2>3
<1>3. ASSUME NEW m \in Nat, m \in S PROVE m + 1 \in S
  <2>1. PICK f : Solves(f, m) /\ Agrees(f, m)
    BY <1>3
  <2> DEFINE g == [k \in 0 .. m + 1 |-> Def(f, k)]
  <2>2. \A k \in 0 .. m : g[k] = f[k]
    BY <2>1
  <2>3. \A k \in 0 .. m + 1 : Def(f, k) = Def(g, k)
    <3> HIDE DEF g
    <3>1. ASSUME NEW k \in 0 .. m + 1 PROVE k \in Nat /\ (k = 0 \/ f[k - 1] = g[k - 1])
      <4>1. CASE k # 0
        <5>1. k - 1 \in 0 .. m
          BY <4>1
        <5> QED
          BY <2>2, <5>1
      <4> QED
        BY <4>1
    <3> QED
      BY <1>1, <3>1
  <2>4. Solves(g, m + 1)
    <3>1. g = [k \in 0 .. m + 1 |-> Def(f, k)]
      OBVIOUS
    <3> HIDE DEF g
    <3> QED
      BY <2>3, <3>1
  <2>5. Agrees(g, m + 1)
    <3> SUFFICES ASSUME NEW h, NEW l \in Nat, l >= m + 1, Solves(h, l),
                        NEW k \in 0 .. m + 1
                 PROVE  h[k] = g[k]
      BY Zenon
    <3>1. \A j \in 0 .. m : h[j] = f[j]
      BY <2>1
    <3>2. k \in Nat /\ (k = 0 \/ h[k - 1] = f[k - 1])
      <4>1. CASE k # 0
        <5>1. k \in Nat /\ k - 1 \in 0 .. m
          BY <4>1
        <5>2. h[k - 1] = f[k - 1]
          BY <3>1, <5>1
        <5> QED
          BY <5>1, <5>2
      <4> QED
        BY <4>1
    <3>3. h[k] = Def(h, k)
      BY k \in 0 .. l
    <3>4. Def(h, k) = Def(f, k)
      BY <1>1, <3>2
    <3> QED
      BY <3>3, <3>4
  <2> HIDE DEF g, Solves, Agrees
  <2> QED
    BY <2>4, <2>5
<1>4. \A m \in Nat : \E f : Solves(f, m) /\ Agrees(f, m)
  <2>1. Nat \subseteq S
    <3> HIDE DEF S
    <3> QED
      BY <1>2, <1>3, AllNaturals
  <2> QED
    BY <2>1
<1> DEFINE A(m) == CHOOSE f : Solves(f, m) /\ Agrees(f, m)
           F == [k \in Nat |-> A(k)[k]]
<1>5. ASSUME NEW m \in Nat PROVE Solves(A(m), m) /\ Agrees(A(m), m)
  <2> HIDE DEF Solves, Agrees
  <2> QED
    BY <1>4
<1> HIDE DEF A
<1>6. ASSUME NEW k \in Nat PROVE F[k] = Def(F, k)
  <2>1. F[k] = A(k)[k]
    OBVIOUS
  <2>2. A(k)[k] = Def(A(k), k)
    BY <1>5
  <2>3. k = 0 \/ A(k)[k - 1] = F[k - 1]
    <3>1. CASE k # 0
      <4>1. k - 1 \in Nat /\ k >= k - 1 /\ k - 1 \in 0 .. k - 1
        BY <3>1
      <4>2. A(k)[k - 1] = A(k - 1)[k - 1]
        BY <1>5, <4>1
      <4> QED
        BY <4>1, <4>2
    <3> QED
      BY <3>1
  <2> HIDE DEF F
  <2>4. Def(A(k), k) = Def(F, k)
    BY <1>1, <2>3
  <2> QED
    BY <2>1, <2>2, <2>4
<1>7. F = [k \in Nat |-> Def(F, k)]
  <2>1. F = [k \in Nat |-> F[k]]
    OBVIOUS
  <2> HIDE DEF F
  <2> QED
    BY <1>6, <2>1
<1> HIDE DEF F
<1>8. \E f : f = [k \in Nat |-> Def(f, k)]
  BY <1>7
<1> QED
  BY <1>8 DEF Pow2, Def

\* The same argument twice more.
LEMMA HashesEquation ==
    ASSUME NEW log
    PROVE  Hashes(log) = [k \in Nat |->
             [a \in Nat |-> [s \in Nat |->
                IF k = 0 THEN IF s = 0 THEN EmptyRoot ELSE HashLeaf(log[a + 1])
                ELSE IF s <= Pow2[k - 1] THEN Hashes(log)[k - 1][a][s]
                ELSE HashNode(Hashes(log)[k - 1][a][Pow2[k - 1]],
                              Hashes(log)[k - 1][a + Pow2[k - 1]][s - Pow2[k - 1]])]]]
<1> DEFINE Def(f, k) ==
             [a \in Nat |-> [s \in Nat |->
                IF k = 0 THEN IF s = 0 THEN EmptyRoot ELSE HashLeaf(log[a + 1])
                ELSE IF s <= Pow2[k - 1] THEN f[k - 1][a][s]
                ELSE HashNode(f[k - 1][a][Pow2[k - 1]],
                              f[k - 1][a + Pow2[k - 1]][s - Pow2[k - 1]])]]
           Solves(f, m) == f = [k \in 0 .. m |-> Def(f, k)]
           Agrees(f, m) == \A g : \A l \in Nat :
                             l >= m /\ Solves(g, l) => \A k \in 0 .. m : g[k] = f[k]
           S == {m \in Nat : \E f : Solves(f, m) /\ Agrees(f, m)}
<1>1. ASSUME NEW k \in Nat, NEW f, NEW g, k = 0 \/ f[k - 1] = g[k - 1]
      PROVE  Def(f, k) = Def(g, k)
  <2>1. CASE k = 0
    BY <2>1
  <2>2. CASE f[k - 1] = g[k - 1]
    BY <2>2, Zenon
  <2> QED
    BY <1>1, <2>1, <2>2
<1> HIDE DEF Def
<1>2. 0 \in S
  <2> DEFINE f == [k \in 0 .. 0 |-> Def({}, k)]
  <2>1. ASSUME NEW g PROVE Def(g, 0) = Def({}, 0)
    BY <1>1
  <2>2. Solves(f, 0)
    <3>1. Def(f, 0) = Def({}, 0)
      BY <2>1
    <3> HIDE DEF f
    <3>2. f = [k \in 0 .. 0 |-> Def(f, k)]
      <4>1. \A k \in 0 .. 0 : Def({}, k) = Def(f, k)
        BY <3>1
      <4> QED
        BY <4>1 DEF f
    <3> QED
      BY <3>2
  <2>3. Agrees(f, 0)
    <3>1. ASSUME NEW g, NEW l \in Nat, Solves(g, l) PROVE g[0] = f[0]
      <4>1. g[0] = Def(g, 0)
        BY <3>1
      <4>2. f[0] = Def({}, 0)
        OBVIOUS
      <4> QED
        BY <4>1, <4>2, <2>1
    <3> HIDE DEF f, Solves
    <3> QED
      BY <3>1
  <2> HIDE DEF f, Solves, Agrees
  <2> QED
    BY <2>2, <2>3
<1>3. ASSUME NEW m \in Nat, m \in S PROVE m + 1 \in S
  <2>1. PICK f : Solves(f, m) /\ Agrees(f, m)
    BY <1>3
  <2> DEFINE g == [k \in 0 .. m + 1 |-> Def(f, k)]
  <2>2. \A k \in 0 .. m : g[k] = f[k]
    BY <2>1
  <2>3. \A k \in 0 .. m + 1 : Def(f, k) = Def(g, k)
    <3> HIDE DEF g
    <3>1. ASSUME NEW k \in 0 .. m + 1 PROVE k \in Nat /\ (k = 0 \/ f[k - 1] = g[k - 1])
      <4>1. CASE k # 0
        <5>1. k - 1 \in 0 .. m
          BY <4>1
        <5> QED
          BY <2>2, <5>1
      <4> QED
        BY <4>1
    <3> QED
      BY <1>1, <3>1
  <2>4. Solves(g, m + 1)
    <3>1. g = [k \in 0 .. m + 1 |-> Def(f, k)]
      OBVIOUS
    <3> HIDE DEF g
    <3> QED
      BY <2>3, <3>1
  <2>5. Agrees(g, m + 1)
    <3> SUFFICES ASSUME NEW h, NEW l \in Nat, l >= m + 1, Solves(h, l),
                        NEW k \in 0 .. m + 1
                 PROVE  h[k] = g[k]
      BY Zenon
    <3>1. \A j \in 0 .. m : h[j] = f[j]
      BY <2>1
    <3>2. k \in Nat /\ (k = 0 \/ h[k - 1] = f[k - 1])
      <4>1. CASE k # 0
        <5>1. k \in Nat /\ k - 1 \in 0 .. m
          BY <4>1
        <5>2. h[k - 1] = f[k - 1]
          BY <3>1, <5>1
        <5> QED
          BY <5>1, <5>2
      <4> QED
        BY <4>1
    <3>3. h[k] = Def(h, k)
      BY k \in 0 .. l
    <3>4. Def(h, k) = Def(f, k)
      BY <1>1, <3>2
    <3> QED
      BY <3>3, <3>4
  <2> HIDE DEF g, Solves, Agrees
  <2> QED
    BY <2>4, <2>5
<1>4. \A m \in Nat : \E f : Solves(f, m) /\ Agrees(f, m)
  <2>1. Nat \subseteq S
    <3> HIDE DEF S
    <3> QED
      BY <1>2, <1>3, AllNaturals
  <2> QED
    BY <2>1
<1> DEFINE A(m) == CHOOSE f : Solves(f, m) /\ Agrees(f, m)
           F == [k \in Nat |-> A(k)[k]]
<1>5. ASSUME NEW m \in Nat PROVE Solves(A(m), m) /\ Agrees(A(m), m)
  <2> HIDE DEF Solves, Agrees
  <2> QED
    BY <1>4
<1> HIDE DEF A
<1>6. ASSUME NEW k \in Nat PROVE F[k] = Def(F, k)
  <2>1. F[k] = A(k)[k]
    OBVIOUS
  <2>2. A(k)[k] = Def(A(k), k)
    BY <1>5
  <2>3. k = 0 \/ A(k)[k - 1] = F[k - 1]
    <3>1. CASE k # 0
      <4>1. k - 1 \in Nat /\ k >= k - 1 /\ k - 1 \in 0 .. k - 1
        BY <3>1
      <4>2. A(k)[k - 1] = A(k - 1)[k - 1]
        BY <1>5, <4>1
      <4> QED
        BY <4>1, <4>2
    <3> QED
      BY <3>1
  <2> HIDE DEF F
  <2>4. Def(A(k), k) = Def(F, k)
    BY <1>1, <2>3
  <2> QED
    BY <2>1, <2>2, <2>4
<1>7. F = [k \in Nat |-> Def(F, k)]
  <2>1. F = [k \in Nat |-> F[k]]
    OBVIOUS
  <2> HIDE DEF F
  <2> QED
    BY <1>6, <2>1
<1> HIDE DEF F
<1>8. \E f : f = [k \in Nat |-> Def(f, k)]
  BY <1>7
<1> QED
  BY <1>8 DEF Hashes, Def

\* Names for what the provers need not see most of the time.
Add(nodes, hash) == Append(nodes, hash)
OneUnlessTop(a, hash) == IF a = 0 THEN << >> ELSE <<hash>>

\* The siblings for height k from those for height j below.
SiblingsFrom(low, i, first, k, j, a, s) ==
    IF a + s = first THEN OneUnlessTop(a, SubtreeHash(Log, k, a, s))
    ELSE IF k = 0 THEN << >>
    ELSE IF s <= Pow2[j] THEN low[a][s]
    ELSE IF i < a + Pow2[j]
    THEN Add(low[a][Pow2[j]], SubtreeHash(Log, j, a + Pow2[j], s - Pow2[j]))
    ELSE Add(low[a + Pow2[j]][s - Pow2[j]], SubtreeHash(Log, j, a, Pow2[j]))

LEMMA SiblingsEquation ==
    ASSUME NEW i \in Nat, NEW first \in Nat
    PROVE  \A k, a, s \in Nat :
             Siblings(i, first)[k][a][s] =
                SiblingsFrom(Siblings(i, first)[k - 1], i, first, k, k - 1, a, s)
<1> DEFINE Def(f, k) ==
             [a \in Nat |-> [s \in Nat |->
                SiblingsFrom(f[k - 1], i, first, k, k - 1, a, s)]]
           Solves(f, m) == f = [k \in 0 .. m |-> Def(f, k)]
           Agrees(f, m) == \A g : \A l \in Nat :
                             l >= m /\ Solves(g, l) => \A k \in 0 .. m : g[k] = f[k]
           S == {m \in Nat : \E f : Solves(f, m) /\ Agrees(f, m)}
<1>1. ASSUME NEW k \in Nat, NEW f, NEW g, k = 0 \/ f[k - 1] = g[k - 1]
      PROVE  Def(f, k) = Def(g, k)
  <2>1. CASE k = 0
    BY <2>1 DEF SiblingsFrom
  <2>2. CASE f[k - 1] = g[k - 1]
    BY <2>2, Zenon
  <2> QED
    BY <1>1, <2>1, <2>2
<1> HIDE DEF Def
<1>2. 0 \in S
  <2> DEFINE f == [k \in 0 .. 0 |-> Def({}, k)]
  <2>1. ASSUME NEW g PROVE Def(g, 0) = Def({}, 0)
    BY <1>1
  <2>2. Solves(f, 0)
    <3>1. Def(f, 0) = Def({}, 0)
      BY <2>1
    <3> HIDE DEF f
    <3>2. f = [k \in 0 .. 0 |-> Def(f, k)]
      <4>1. \A k \in 0 .. 0 : Def({}, k) = Def(f, k)
        BY <3>1
      <4> QED
        BY <4>1 DEF f
    <3> QED
      BY <3>2
  <2>3. Agrees(f, 0)
    <3>1. ASSUME NEW g, NEW l \in Nat, Solves(g, l) PROVE g[0] = f[0]
      <4>1. g[0] = Def(g, 0)
        BY <3>1
      <4>2. f[0] = Def({}, 0)
        OBVIOUS
      <4> QED
        BY <4>1, <4>2, <2>1
    <3> HIDE DEF f, Solves
    <3> QED
      BY <3>1
  <2> HIDE DEF f, Solves, Agrees
  <2> QED
    BY <2>2, <2>3
<1>3. ASSUME NEW m \in Nat, m \in S PROVE m + 1 \in S
  <2>1. PICK f : Solves(f, m) /\ Agrees(f, m)
    BY <1>3
  <2> DEFINE g == [k \in 0 .. m + 1 |-> Def(f, k)]
  <2>2. \A k \in 0 .. m : g[k] = f[k]
    BY <2>1
  <2>3. \A k \in 0 .. m + 1 : Def(f, k) = Def(g, k)
    <3> HIDE DEF g
    <3>1. ASSUME NEW k \in 0 .. m + 1 PROVE k \in Nat /\ (k = 0 \/ f[k - 1] = g[k - 1])
      <4>1. CASE k # 0
        <5>1. k - 1 \in 0 .. m
          BY <4>1
        <5> QED
          BY <2>2, <5>1
      <4> QED
        BY <4>1
    <3> QED
      BY <1>1, <3>1
  <2>4. Solves(g, m + 1)
    <3>1. g = [k \in 0 .. m + 1 |-> Def(f, k)]
      OBVIOUS
    <3> HIDE DEF g
    <3> QED
      BY <2>3, <3>1
  <2>5. Agrees(g, m + 1)
    <3> SUFFICES ASSUME NEW h, NEW l \in Nat, l >= m + 1, Solves(h, l),
                        NEW k \in 0 .. m + 1
                 PROVE  h[k] = g[k]
      BY Zenon
    <3>1. \A j \in 0 .. m : h[j] = f[j]
      BY <2>1
    <3>2. k \in Nat /\ (k = 0 \/ h[k - 1] = f[k - 1])
      <4>1. CASE k # 0
        <5>1. k \in Nat /\ k - 1 \in 0 .. m
          BY <4>1
        <5>2. h[k - 1] = f[k - 1]
          BY <3>1, <5>1
        <5> QED
          BY <5>1, <5>2
      <4> QED
        BY <4>1
    <3>3. h[k] = Def(h, k)
      BY k \in 0 .. l
    <3>4. Def(h, k) = Def(f, k)
      BY <1>1, <3>2
    <3> QED
      BY <3>3, <3>4
  <2> HIDE DEF g, Solves, Agrees
  <2> QED
    BY <2>4, <2>5
<1>4. \A m \in Nat : \E f : Solves(f, m) /\ Agrees(f, m)
  <2>1. Nat \subseteq S
    <3> HIDE DEF S
    <3> QED
      BY <1>2, <1>3, AllNaturals
  <2> QED
    BY <2>1
<1> DEFINE A(m) == CHOOSE f : Solves(f, m) /\ Agrees(f, m)
           F == [k \in Nat |-> A(k)[k]]
<1>5. ASSUME NEW m \in Nat PROVE Solves(A(m), m) /\ Agrees(A(m), m)
  <2> HIDE DEF Solves, Agrees
  <2> QED
    BY <1>4
<1> HIDE DEF A
<1>6. ASSUME NEW k \in Nat PROVE F[k] = Def(F, k)
  <2>1. F[k] = A(k)[k]
    OBVIOUS
  <2>2. A(k)[k] = Def(A(k), k)
    BY <1>5
  <2>3. k = 0 \/ A(k)[k - 1] = F[k - 1]
    <3>1. CASE k # 0
      <4>1. k - 1 \in Nat /\ k >= k - 1 /\ k - 1 \in 0 .. k - 1
        BY <3>1
      <4>2. A(k)[k - 1] = A(k - 1)[k - 1]
        BY <1>5, <4>1
      <4> QED
        BY <4>1, <4>2
    <3> QED
      BY <3>1
  <2> HIDE DEF F
  <2>4. Def(A(k), k) = Def(F, k)
    BY <1>1, <2>3
  <2> QED
    BY <2>1, <2>2, <2>4
<1>7. F = [k \in Nat |-> Def(F, k)]
  <2>1. F = [k \in Nat |-> F[k]]
    OBVIOUS
  <2> HIDE DEF F
  <2> QED
    BY <1>6, <2>1
<1> HIDE DEF F
<1>8. \E f : f = [k \in Nat |-> Def(f, k)]
  BY <1>7
<1>9. Siblings(i, first) = [k \in Nat |-> Def(Siblings(i, first), k)]
  BY <1>8 DEF Siblings, Def, SiblingsFrom, Add, OneUnlessTop
<1> DEFINE G == Siblings(i, first)
<1> HIDE DEF G
<1>10. ASSUME NEW k \in Nat, NEW a \in Nat, NEW s \in Nat
       PROVE  G[k][a][s] = Def(G, k)[a][s]
  <2>1. G[k] = Def(G, k)
    BY <1>9 DEF G
  <2> QED
    BY <2>1, Zenon
<1> QED
  BY <1>10 DEF Def, G

-----------------------------------------------------------------------------
(* Powers of two. *)

LEMMA Pow2Steps ==
    /\ Pow2[0] = 1
    /\ \A k \in Nat : Pow2[k + 1] = 2 * Pow2[k]
<1> DEFINE f == Pow2
<1>1. f = [k \in Nat |-> IF k = 0 THEN 1 ELSE 2 * f[k - 1]]
  BY Pow2Equation
<1> HIDE DEF f
<1>2. \A k \in Nat : f[k] = IF k = 0 THEN 1 ELSE 2 * f[k - 1]
  BY <1>1
<1>3. ASSUME NEW k \in Nat PROVE f[k + 1] = 2 * f[k]
  <2>1. k + 1 \in Nat /\ k + 1 # 0 /\ (k + 1) - 1 = k
    OBVIOUS
  <2> QED
    BY <1>2, <2>1
<1> QED
  BY <1>2, <1>3 DEF f

LEMMA Pow2Bounds ==
    \A k \in Nat : Pow2[k] \in Nat /\ k < Pow2[k]
<1> DEFINE S == {k \in Nat : Pow2[k] \in Nat /\ k < Pow2[k]}
<1>1. 0 \in S
  BY Pow2Steps
<1>2. ASSUME NEW k \in Nat, k \in S PROVE k + 1 \in S
  <2>1. Pow2[k + 1] = 2 * Pow2[k] /\ Pow2[k] \in Nat /\ k < Pow2[k]
    BY <1>2, Pow2Steps
  <2> QED
    BY <2>1
<1> HIDE DEF S
<1>3. Nat \subseteq S
  BY <1>1, <1>2, AllNaturals
<1> QED
  BY <1>3 DEF S

\* Of an odd number, only 1 is a power of two; doubling changes nothing.
LEMMA PowersOfTwo ==
    ASSUME NEW q \in Nat
    PROVE  /\ IsPowerOfTwo(2 * q + 1) <=> q = 0
           /\ q > 0 => (IsPowerOfTwo(2 * q) <=> IsPowerOfTwo(q))
<1>1. ASSUME NEW k \in Nat, 2 * q + 1 = Pow2[k] PROVE q = 0
  <2>1. CASE k = 0
    BY <1>1, <2>1, Pow2Steps
  <2>2. CASE k # 0
    <3>1. k - 1 \in Nat /\ (k - 1) + 1 = k
      BY <2>2
    <3>2. Pow2[k] = 2 * Pow2[k - 1] /\ Pow2[k - 1] \in Nat
      BY <3>1, Pow2Steps, Pow2Bounds
    <3> QED
      BY <1>1, <3>2
  <2> QED
    BY <2>1, <2>2
<1>2. q = 0 => IsPowerOfTwo(2 * q + 1)
  BY Pow2Steps DEF IsPowerOfTwo
<1>3. ASSUME q > 0, NEW k \in 0 .. q, q = Pow2[k] PROVE IsPowerOfTwo(2 * q)
  <2>1. k + 1 \in 0 .. 2 * q /\ Pow2[k + 1] = 2 * q
    BY <1>3, Pow2Steps
  <2> QED
    BY <2>1 DEF IsPowerOfTwo
<1>4. ASSUME q > 0, NEW k \in Nat, 2 * q = Pow2[k] PROVE IsPowerOfTwo(q)
  <2>1. k # 0
    BY <1>4, Pow2Steps
  <2>2. k - 1 \in Nat /\ (k - 1) + 1 = k
    BY <2>1
  <2>3. Pow2[k] = 2 * Pow2[k - 1] /\ Pow2[k - 1] \in Nat /\ k - 1 < Pow2[k - 1]
    BY <2>2, Pow2Steps, Pow2Bounds
  <2>4. q = Pow2[k - 1] /\ k - 1 \in 0 .. q
    BY <1>4, <2>2, <2>3
  <2> QED
    BY <2>4 DEF IsPowerOfTwo
<1> QED
  BY <1>1, <1>2, <1>3, <1>4 DEF IsPowerOfTwo

-----------------------------------------------------------------------------
(* The tree. *)

LEMMA LeafHash ==
    ASSUME NEW log, NEW a \in Nat, NEW s \in Nat
    PROVE  SubtreeHash(log, 0, a, s) = IF s = 0 THEN EmptyRoot ELSE HashLeaf(log[a + 1])
<1> DEFINE f == Hashes(log)
           val(k, b, t) == IF k = 0 THEN IF t = 0 THEN EmptyRoot ELSE HashLeaf(log[b + 1])
                           ELSE IF t <= Pow2[k - 1] THEN f[k - 1][b][t]
                           ELSE HashNode(f[k - 1][b][Pow2[k - 1]],
                                         f[k - 1][b + Pow2[k - 1]][t - Pow2[k - 1]])
<1>1. f = [k \in Nat |-> [b \in Nat |-> [t \in Nat |-> val(k, b, t)]]]
  BY HashesEquation
<1> HIDE DEF f, val
<1>2. f[0][a][s] = val(0, a, s)
  BY <1>1
<1> QED
  BY <1>2 DEF f, val, SubtreeHash

LEMMA NodeHash ==
    ASSUME NEW log, NEW h \in Nat, NEW a \in Nat, NEW s \in Nat
    PROVE  /\ s <= Pow2[h] => SubtreeHash(log, h + 1, a, s) = SubtreeHash(log, h, a, s)
           /\ s > Pow2[h] =>
                SubtreeHash(log, h + 1, a, s) =
                  HashNode(SubtreeHash(log, h, a, Pow2[h]),
                           SubtreeHash(log, h, a + Pow2[h], s - Pow2[h]))
<1> DEFINE f == Hashes(log)
           val(k, b, t) == IF k = 0 THEN IF t = 0 THEN EmptyRoot ELSE HashLeaf(log[b + 1])
                           ELSE IF t <= Pow2[k - 1] THEN f[k - 1][b][t]
                           ELSE HashNode(f[k - 1][b][Pow2[k - 1]],
                                         f[k - 1][b + Pow2[k - 1]][t - Pow2[k - 1]])
<1>1. f = [k \in Nat |-> [b \in Nat |-> [t \in Nat |-> val(k, b, t)]]]
  BY HashesEquation
<1> HIDE DEF f, val
<1>2. f[h + 1][a][s] = val(h + 1, a, s)
  BY <1>1
<1>3. (h + 1) - 1 = h /\ h + 1 # 0 /\ Pow2[h] \in Nat
  BY Pow2Bounds
<1> QED
  BY <1>2, <1>3 DEF f, val, SubtreeHash

LEMMA SiblingsFirst ==
    ASSUME NEW i \in Nat, NEW first \in Nat, NEW h \in Nat, NEW a \in Nat, NEW s \in Nat,
           a + s <= first, first <= a + s
    PROVE  Siblings(i, first)[h][a][s] = OneUnlessTop(a, SubtreeHash(Log, h, a, s))
<1>0. a + s = first
  OBVIOUS
<1>1. Siblings(i, first)[h][a][s] =
        SiblingsFrom(Siblings(i, first)[h - 1], i, first, h, h - 1, a, s)
  BY ONLY i \in Nat, first \in Nat, h \in Nat, a \in Nat, s \in Nat, SiblingsEquation
<1> QED
  BY <1>0, <1>1 DEF SiblingsFrom

LEMMA SiblingsOfLeaf ==
    ASSUME NEW i \in Nat, NEW first \in Nat, NEW h \in Nat, NEW a \in Nat, NEW s \in Nat,
           a + s # first, h = 0
    PROVE  Siblings(i, first)[h][a][s] = << >>
<1>1. Siblings(i, first)[h][a][s] =
        SiblingsFrom(Siblings(i, first)[h - 1], i, first, h, h - 1, a, s)
  BY SiblingsEquation
<1> QED
  BY <1>1 DEF SiblingsFrom

LEMMA SiblingsAsBelow ==
    ASSUME NEW i \in Nat, NEW first \in Nat, NEW h \in Nat, NEW a \in Nat, NEW s \in Nat,
           a + s # first, s <= Pow2[h]
    PROVE  Siblings(i, first)[h + 1][a][s] = Siblings(i, first)[h][a][s]
<1>1. Siblings(i, first)[h + 1][a][s] =
        SiblingsFrom(Siblings(i, first)[h], i, first, h + 1, h, a, s)
  <2>1. (h + 1) - 1 = h /\ h + 1 \in Nat
    OBVIOUS
  <2>2. Siblings(i, first)[h + 1][a][s] =
          SiblingsFrom(Siblings(i, first)[(h + 1) - 1], i, first, h + 1, (h + 1) - 1, a, s)
    BY <2>1, SiblingsEquation
  <2> QED
    BY <2>1, <2>2
<1>2. Pow2[h] \in Nat /\ h + 1 # 0
  BY Pow2Bounds
<1> QED
  BY <1>1, <1>2 DEF SiblingsFrom

LEMMA SiblingOnRight ==
    ASSUME NEW i \in Nat, NEW first \in Nat, NEW h \in Nat, NEW a \in Nat, NEW s \in Nat,
           a + s # first, s > Pow2[h], i < a + Pow2[h]
    PROVE  Siblings(i, first)[h + 1][a][s] =
             Add(Siblings(i, first)[h][a][Pow2[h]],
                    SubtreeHash(Log, h, a + Pow2[h], s - Pow2[h]))
<1>1. Siblings(i, first)[h + 1][a][s] =
        SiblingsFrom(Siblings(i, first)[h], i, first, h + 1, h, a, s)
  <2>1. (h + 1) - 1 = h /\ h + 1 \in Nat
    OBVIOUS
  <2>2. Siblings(i, first)[h + 1][a][s] =
          SiblingsFrom(Siblings(i, first)[(h + 1) - 1], i, first, h + 1, (h + 1) - 1, a, s)
    BY <2>1, SiblingsEquation
  <2> QED
    BY <2>1, <2>2
<1>2. Pow2[h] \in Nat /\ h + 1 # 0
  BY Pow2Bounds
<1> QED
  BY <1>1, <1>2 DEF SiblingsFrom

LEMMA SiblingOnLeft ==
    ASSUME NEW i \in Nat, NEW first \in Nat, NEW h \in Nat, NEW a \in Nat, NEW s \in Nat,
           a + s # first, s > Pow2[h], a + Pow2[h] <= i
    PROVE  Siblings(i, first)[h + 1][a][s] =
             Add(Siblings(i, first)[h][a + Pow2[h]][s - Pow2[h]],
                    SubtreeHash(Log, h, a, Pow2[h]))
<1>1. Siblings(i, first)[h + 1][a][s] =
        SiblingsFrom(Siblings(i, first)[h], i, first, h + 1, h, a, s)
  <2>1. (h + 1) - 1 = h /\ h + 1 \in Nat
    OBVIOUS
  <2>2. Siblings(i, first)[h + 1][a][s] =
          SiblingsFrom(Siblings(i, first)[(h + 1) - 1], i, first, h + 1, (h + 1) - 1, a, s)
    BY <2>1, SiblingsEquation
  <2> QED
    BY <2>1, <2>2
<1>2. Pow2[h] \in Nat /\ h + 1 # 0
  BY Pow2Bounds
<1> QED
  BY <1>1, <1>2 DEF SiblingsFrom

\* A higher top changes nothing.
LEMMA HeightsGrow ==
    ASSUME NEW h \in Nat, NEW d \in Nat
    PROVE  Pow2[h] <= Pow2[h + d]
<1> DEFINE S == {e \in Nat : Pow2[h] <= Pow2[h + e]}
<1>1. 0 \in S
  BY Pow2Bounds
<1>2. ASSUME NEW e \in Nat, e \in S PROVE e + 1 \in S
  <2>1. h + e \in Nat /\ h + (e + 1) = (h + e) + 1
    OBVIOUS
  <2>2. Pow2[h + (e + 1)] = 2 * Pow2[h + e] /\ Pow2[h + e] \in Nat
    BY <2>1, Pow2Steps, Pow2Bounds
  <2>3. Pow2[h] <= Pow2[h + e] /\ Pow2[h] \in Nat
    BY <1>2, Pow2Bounds
  <2> QED
    BY <2>2, <2>3
<1> HIDE DEF S
<1>3. Nat \subseteq S
  BY <1>1, <1>2, AllNaturals
<1> QED
  BY <1>3 DEF S

LEMMA HashIsStable ==
    ASSUME NEW log, NEW h \in Nat, NEW a \in Nat, NEW s \in Nat, s <= Pow2[h], NEW d \in Nat
    PROVE  SubtreeHash(log, h + d, a, s) = SubtreeHash(log, h, a, s)
<1> DEFINE S == {e \in Nat : SubtreeHash(log, h + e, a, s) = SubtreeHash(log, h, a, s)}
<1>1. 0 \in S
  OBVIOUS
<1>2. ASSUME NEW e \in Nat, e \in S PROVE e + 1 \in S
  <2>1. h + e \in Nat /\ h + (e + 1) = (h + e) + 1
    OBVIOUS
  <2>2. s <= Pow2[h + e]
    BY HeightsGrow, Pow2Bounds, <2>1
  <2>3. SubtreeHash(log, (h + e) + 1, a, s) = SubtreeHash(log, h + e, a, s)
    BY <2>1, <2>2, NodeHash
  <2> QED
    BY <1>2, <2>1, <2>3
<1> HIDE DEF S
<1>3. Nat \subseteq S
  BY <1>1, <1>2, AllNaturals
<1> QED
  BY <1>3 DEF S

LEMMA SiblingsAreStable ==
    ASSUME NEW i \in Nat, NEW first \in Nat, NEW h \in Nat, NEW a \in Nat, NEW s \in Nat,
           s <= Pow2[h], NEW top \in Nat, h <= top
    PROVE  Siblings(i, first)[top][a][s] = Siblings(i, first)[h][a][s]
<1> DEFINE S == {e \in Nat : Siblings(i, first)[h + e][a][s] = Siblings(i, first)[h][a][s]}
<1>1. 0 \in S
  OBVIOUS
\* One level further up, for a subtree that has no more leaves than before.
<1>2. ASSUME NEW k \in Nat, s <= Pow2[k], NEW up \in Nat, up = k + 1
      PROVE  Siblings(i, first)[up][a][s] = Siblings(i, first)[k][a][s]
  <2>1. CASE a + s # first
    <3>1. Siblings(i, first)[k + 1][a][s] = Siblings(i, first)[k][a][s]
      BY ONLY <1>2, <2>1, SiblingsAsBelow, Z3, i \in Nat, first \in Nat, a \in Nat, s \in Nat
    <3> QED
      BY ONLY <1>2, <3>1
  <2>2. CASE a + s = first
    <3>1. a + s <= first /\ first <= a + s
      BY <2>2
    <3>2. ASSUME NEW l \in Nat
          PROVE  Siblings(i, first)[l][a][s] = OneUnlessTop(a, SubtreeHash(Log, l, a, s))
      BY ONLY <3>1, SiblingsFirst, i \in Nat, first \in Nat, l \in Nat, a \in Nat, s \in Nat
    <3>3. SubtreeHash(Log, up, a, s) = SubtreeHash(Log, k, a, s)
      BY <1>2, NodeHash
    <3> QED
      BY ONLY <3>2, <3>3, k \in Nat, up \in Nat
  <2> QED
    BY ONLY <2>1, <2>2
<1>3. ASSUME NEW e \in Nat, e \in S PROVE e + 1 \in S
  <2>1. PICK k \in Nat, up \in Nat : k = h + e /\ up = h + (e + 1) /\ up = k + 1
    OBVIOUS
  <2>2. s <= Pow2[k] /\ up = k + 1
    <3>1. Pow2[h] <= Pow2[k] /\ Pow2[h] \in Nat /\ Pow2[k] \in Nat
      BY ONLY <2>1, HeightsGrow, Pow2Bounds, h \in Nat, e \in Nat
    <3> QED
      BY ONLY <2>1, <3>1, s \in Nat, s <= Pow2[h]
  <2>3. Siblings(i, first)[up][a][s] = Siblings(i, first)[k][a][s]
    BY ONLY <1>2, <2>2, k \in Nat, up \in Nat
  <2> QED
    BY <1>3, <2>1, <2>3
<1> HIDE DEF S
<1>4. Nat \subseteq S
  BY <1>1, <1>3, AllNaturals
<1>5. PICK e \in Nat : top = h + e
  <2>1. top - h \in Nat /\ top = h + (top - h)
    OBVIOUS
  <2> QED
    BY <2>1
<1>6. e \in S
  BY <1>4
<1> QED
  BY <1>5, <1>6 DEF S

LEMMA NodesAreInjective ==
    \A l1, r1, l2, r2 : HashNode(l1, r1) = HashNode(l2, r2) <=> l1 = l2 /\ r1 = r2
BY DEF HashNode

\* Equal hashes are those of equal entries.
LEMMA HashIsInjective ==
    ASSUME NEW log1, NEW log2, NEW h \in Nat
    PROVE  \A a \in Nat : \A s \in 1 .. Pow2[h] :
             SubtreeHash(log1, h, a, s) = SubtreeHash(log2, h, a, s)
               <=> \A j \in a + 1 .. a + s : log1[j] = log2[j]
<1> DEFINE Equal(k, a, s) == SubtreeHash(log1, k, a, s) = SubtreeHash(log2, k, a, s)
           Agree(a, s) == \A j \in a + 1 .. a + s : log1[j] = log2[j]
           S == {k \in Nat : \A a \in Nat : \A s \in 1 .. Pow2[k] : Equal(k, a, s) <=> Agree(a, s)}
<1>1. 0 \in S
  <2>1. ASSUME NEW a \in Nat, NEW s \in 1 .. Pow2[0] PROVE Equal(0, a, s) <=> Agree(a, s)
    <3>1. s = 1
      BY Pow2Steps
    <3>2. Equal(0, a, s) <=> HashLeaf(log1[a + 1]) = HashLeaf(log2[a + 1])
      BY <3>1, LeafHash
    <3>3. HashLeaf(log1[a + 1]) = HashLeaf(log2[a + 1]) <=> log1[a + 1] = log2[a + 1]
      BY DEF HashLeaf
    <3>4. Agree(a, s) <=> log1[a + 1] = log2[a + 1]
      BY <3>1
    <3> QED
      BY <3>2, <3>3, <3>4
  <2> HIDE DEF Equal, Agree
  <2> QED
    BY <2>1
<1>2. ASSUME NEW k \in Nat, k \in S PROVE k + 1 \in S
  <2> DEFINE w == Pow2[k]
  <2>1. w \in Nat /\ 0 < w /\ Pow2[k + 1] = 2 * w
    BY Pow2Bounds, Pow2Steps
  <2> HIDE DEF w
  <2>2. ASSUME NEW a \in Nat, NEW s \in 1 .. Pow2[k + 1]
        PROVE  Equal(k + 1, a, s) <=> Agree(a, s)
    <3>1. CASE s <= w
      <4>1. Equal(k + 1, a, s) <=> Equal(k, a, s)
        BY <3>1, NodeHash DEF w
      <4>2. s \in 1 .. Pow2[k]
        BY <2>1, <3>1 DEF w
      <4> HIDE DEF Equal, Agree
      <4> QED
        BY <1>2, <4>1, <4>2
    <3>2. CASE s > w
      <4>1. s \in Nat /\ a + w \in Nat /\ s - w \in 1 .. w
        BY <2>1, <3>2
      <4>2. \A log : SubtreeHash(log, k + 1, a, s) =
                       HashNode(SubtreeHash(log, k, a, w), SubtreeHash(log, k, a + w, s - w))
        BY <3>2, <4>1, NodeHash DEF w
      <4>3. Equal(k + 1, a, s) <=> Equal(k, a, w) /\ Equal(k, a + w, s - w)
        <5>1. \A l1, r1, l2, r2 : HashNode(l1, r1) = HashNode(l2, r2) <=> l1 = l2 /\ r1 = r2
          BY NodesAreInjective
        <5>2. SubtreeHash(log1, k + 1, a, s) =
                HashNode(SubtreeHash(log1, k, a, w), SubtreeHash(log1, k, a + w, s - w))
          BY <4>2
        <5>3. SubtreeHash(log2, k + 1, a, s) =
                HashNode(SubtreeHash(log2, k, a, w), SubtreeHash(log2, k, a + w, s - w))
          BY <4>2
        <5> QED
          BY <5>1, <5>2, <5>3
      <4>4. w \in 1 .. Pow2[k] /\ s - w \in 1 .. Pow2[k]
        BY <2>1, <4>1 DEF w
      <4>5. /\ Equal(k, a, w) <=> Agree(a, w)
            /\ Equal(k, a + w, s - w) <=> Agree(a + w, s - w)
        <5> HIDE DEF Equal, Agree
        <5> QED
          BY <1>2, <4>1, <4>4
      <4>6. Agree(a, s) <=> Agree(a, w) /\ Agree(a + w, s - w)
        BY <2>1, <3>2, <4>1
      <4> QED
        BY <4>3, <4>5, <4>6
    <3> QED
      BY <2>1, <3>1, <3>2
  <2> HIDE DEF Equal, Agree
  <2> QED
    BY <2>2
<1> HIDE DEF S
<1>3. Nat \subseteq S
  BY <1>1, <1>2, AllNaturals
<1> QED
  BY <1>3 DEF S

Hash == UNION {UNION {{SubtreeHash(Log, h, a, s) : s \in Nat} : a \in Nat} : h \in Nat}

LEMMA HashType ==
    ASSUME NEW h \in Nat, NEW a \in Nat, NEW s \in Nat
    PROVE  SubtreeHash(Log, h, a, s) \in Hash
<1> DEFINE A(k) == UNION {{SubtreeHash(Log, k, b, t) : t \in Nat} : b \in Nat}
<1>1. SubtreeHash(Log, h, a, s) \in {SubtreeHash(Log, h, a, t) : t \in Nat}
  OBVIOUS
<1>2. SubtreeHash(Log, h, a, s) \in A(h)
  BY <1>1
<1> HIDE DEF A
<1>3. SubtreeHash(Log, h, a, s) \in UNION {A(k) : k \in Nat}
  BY <1>2
<1> QED
  BY <1>3 DEF A, Hash

LEMMA SiblingsType ==
    ASSUME NEW i \in Nat, NEW first \in Nat, NEW h \in Nat
    PROVE  \A a, s \in Nat : Siblings(i, first)[h][a][s] \in Seq(Hash)
<1> DEFINE f == Siblings(i, first)
           S == {k \in Nat : \A a, s \in Nat : f[k][a][s] \in Seq(Hash)}
<1>1. ASSUME NEW k \in Nat, NEW a \in Nat, NEW s \in Nat, a + s = first
      PROVE  f[k][a][s] \in Seq(Hash)
  <2>1. f[k][a][s] = OneUnlessTop(a, SubtreeHash(Log, k, a, s))
    BY <1>1, SiblingsFirst
  <2>2. SubtreeHash(Log, k, a, s) \in Hash
    BY HashType
  <2> QED
    BY <2>1, <2>2 DEF OneUnlessTop
<1>2. 0 \in S
  <2>1. ASSUME NEW a \in Nat, NEW s \in Nat PROVE f[0][a][s] \in Seq(Hash)
    <3>1. CASE a + s # first
      <4>1. f[0][a][s] = << >>
        BY <3>1, SiblingsOfLeaf
      <4> QED
        BY <4>1
    <3> QED
      BY <1>1, <3>1
  <2> QED
    BY <2>1
<1>3. ASSUME NEW k \in Nat, k \in S PROVE k + 1 \in S
  <2> DEFINE w == Pow2[k]
  <2>1. w \in Nat
    BY Pow2Bounds
  <2> HIDE DEF w
  <2>2. \A a, s \in Nat : f[k][a][s] \in Seq(Hash)
    BY <1>3
  <2>3. ASSUME NEW a \in Nat, NEW s \in Nat, a + s # first PROVE f[k + 1][a][s] \in Seq(Hash)
    <3>1. CASE s <= w
      <4>1. f[k + 1][a][s] = f[k][a][s]
        BY <2>3, <3>1, SiblingsAsBelow DEF w
      <4> QED
        BY <2>2, <4>1
    <3>2. CASE s > w /\ i < a + w
      <4>1. a + w \in Nat /\ s - w \in Nat
        BY <2>1, <3>2
      <4>2. f[k + 1][a][s] = Add(f[k][a][w], SubtreeHash(Log, k, a + w, s - w))
        BY <2>3, <3>2, SiblingOnRight DEF w
      <4>3. f[k][a][w] \in Seq(Hash) /\ SubtreeHash(Log, k, a + w, s - w) \in Hash
        BY <2>1, <2>2, <4>1, HashType
      <4> HIDE DEF f
      <4> QED
        BY <4>2, <4>3 DEF Add
    <3>3. CASE s > w /\ a + w <= i
      <4>1. a + w \in Nat /\ s - w \in Nat
        BY <2>1, <3>3
      <4>2. f[k + 1][a][s] = Add(f[k][a + w][s - w], SubtreeHash(Log, k, a, w))
        BY <2>3, <3>3, SiblingOnLeft DEF w
      <4>3. f[k][a + w][s - w] \in Seq(Hash) /\ SubtreeHash(Log, k, a, w) \in Hash
        BY <2>1, <2>2, <4>1, HashType
      <4> HIDE DEF f
      <4> QED
        BY <4>2, <4>3 DEF Add
    <3> QED
      BY <2>1, <3>1, <3>2, <3>3
  <2>4. \A a, s \in Nat : f[k + 1][a][s] \in Seq(Hash)
    <3> HIDE DEF f
    <3> QED
      BY <1>1, <2>3
  <2> HIDE DEF f
  <2> QED
    BY <2>4
<1> HIDE DEF S
<1>4. Nat \subseteq S
  BY <1>2, <1>3, AllNaturals
<1> QED
  BY <1>4 DEF S

-----------------------------------------------------------------------------
(* Lists of hashes. *)

LEMMA AddProperties ==
    ASSUME NEW nodes \in Seq(Hash), NEW hash \in Hash
    PROVE  /\ Add(nodes, hash) \in Seq(Hash)
           /\ Len(nodes) \in Nat
           /\ Len(Add(nodes, hash)) = Len(nodes) + 1
           /\ \A j \in 1 .. Len(nodes) : Add(nodes, hash)[j] = nodes[j]
           /\ Add(nodes, hash)[Len(nodes) + 1] = hash
BY DEF Add

AgreesUpTo(l1, l2, c) == \A j \in 1 .. c : l1[j] = l2[j]

\* A list agrees with one hash more when it agrees with the rest and that one.
LEMMA AddAgrees ==
    ASSUME NEW nodes \in Seq(Hash), NEW hash \in Hash, NEW l1
    PROVE  AgreesUpTo(l1, Add(nodes, hash), Len(nodes) + 1)
             <=> AgreesUpTo(l1, nodes, Len(nodes)) /\ l1[Len(nodes) + 1] = hash
<1> DEFINE c == Len(nodes)
           more == Add(nodes, hash)
<1>1. c \in Nat /\ (\A j \in 1 .. c : more[j] = nodes[j]) /\ more[c + 1] = hash
  BY AddProperties
<1> HIDE DEF c, more
<1>2. \A j \in 1 .. c + 1 : j \in 1 .. c \/ j = c + 1
  BY <1>1
<1>3. (\A j \in 1 .. c : j \in 1 .. c + 1) /\ c + 1 \in 1 .. c + 1
  BY <1>1
<1>4. (\A j \in 1 .. c + 1 : l1[j] = more[j])
        <=> (\A j \in 1 .. c : l1[j] = nodes[j]) /\ l1[c + 1] = hash
  BY <1>1, <1>2, <1>3
<1> QED
  BY <1>4 DEF c, more, AgreesUpTo

LEMMA SameSequence ==
    ASSUME NEW S, NEW T, NEW s \in Seq(S), NEW t \in Seq(T)
    PROVE  s = t <=> Len(s) = Len(t) /\ \A j \in 1 .. Len(s) : s[j] = t[j]
<1>1. s \in Seq(S \cup T) /\ t \in Seq(S \cup T)
  BY SeqMonotonic
<1> QED
  BY <1>1, SeqEqual

-----------------------------------------------------------------------------
(* A subtree and the one around it. *)

At(h, q) == q * Pow2[h]
Left(q) == 2 * q
Right(q) == 2 * q + 1

LEMMA Positions ==
    ASSUME NEW h \in Nat, NEW q \in Nat
    PROVE  /\ Pow2[h] \in Nat /\ 0 < Pow2[h]
           /\ At(h, q) \in Nat /\ (q = 0 => At(h, q) = 0) /\ (q # 0 => Pow2[h] <= At(h, q))
<1> DEFINE w == Pow2[h]
<1>1. w \in Nat /\ 0 < w
  BY Pow2Bounds
<1> HIDE DEF w
<1>2. q * w \in Nat
  BY <1>1
<1>3. q # 0 => w <= q * w
  <2>1. \A x \in Nat : (1 + x) * w = w + x * w /\ x * w \in Nat
    BY <1>1
  <2>2. q # 0 => \E x \in Nat : q = 1 + x
    <3>1. q # 0 => q - 1 \in Nat /\ q = 1 + (q - 1)
      OBVIOUS
    <3> QED
      BY <3>1
  <2> QED
    BY <1>1, <2>1, <2>2
<1>4. q = 0 => q * w = 0
  BY <1>1
<1> QED
  BY <1>1, <1>2, <1>3, <1>4 DEF w, At

LEMMA FirstPosition == \A h \in Nat : At(h, 0) = 0
BY Pow2Bounds DEF At

LEMMA LaterPosition ==
    ASSUME NEW h \in Nat, NEW q \in Nat, q # 0
    PROVE  Pow2[h] <= At(h, q)
BY Positions

LEMMA ChildrenType == \A q \in Nat : Left(q) \in Nat /\ Right(q) \in Nat
BY DEF Left, Right

LEMMA LeftChild ==
    ASSUME NEW h \in Nat, NEW q \in Nat
    PROVE  At(h, Left(q)) = At(h + 1, q)
<1> DEFINE w == Pow2[h]
<1>1. w \in Nat /\ Pow2[h + 1] = 2 * w
  BY Pow2Bounds, Pow2Steps
<1> HIDE DEF w
<1>2. (2 * q) * w = q * (2 * w)
  BY <1>1
<1> QED
  BY <1>1, <1>2 DEF w, At, Left

LEMMA RightChild ==
    ASSUME NEW h \in Nat, NEW q \in Nat
    PROVE  At(h, Right(q)) = At(h, Left(q)) + Pow2[h]
<1> DEFINE w == Pow2[h]
<1>1. w \in Nat
  BY Pow2Bounds
<1> HIDE DEF w
<1>2. (2 * q + 1) * w = (2 * q) * w + w
  BY <1>1
<1> QED
  BY <1>1, <1>2 DEF w, At, Left, Right

Around(i, h, q) == At(h, q) <= i /\ i < At(h, q) + Pow2[h]

LEMMA SubtreesInOrder ==
    ASSUME NEW h \in Nat, NEW p \in Nat, NEW q \in Nat, p < q
    PROVE  At(h, p) + Pow2[h] <= At(h, q)
<1> DEFINE w == Pow2[h]
<1>1. w \in Nat
  BY Pow2Bounds
<1> HIDE DEF w
<1>2. PICK d \in Nat : q = p + 1 + d
  <2>1. q - p - 1 \in Nat /\ q = p + 1 + (q - p - 1)
    OBVIOUS
  <2> QED
    BY <2>1
<1>3. (p + 1 + d) * w = p * w + w + d * w /\ d * w \in Nat /\ p * w \in Nat
  BY <1>1
<1>4. p * w + w <= q * w
  BY <1>1, <1>2, <1>3
<1> QED
  BY <1>4 DEF At, w

\* The subtrees around two leaves are in the leaves' order.
LEMMA LeavesInOrder ==
    ASSUME NEW h \in Nat, NEW p \in Nat, NEW q \in Nat, NEW i \in Nat, NEW j \in Nat,
           Around(i, h, p), Around(j, h, q), i <= j
    PROVE  p <= q
<1>1. At(h, p) \in Nat /\ At(h, q) \in Nat /\ Pow2[h] \in Nat
  BY Positions
<1>2. q < p => At(h, q) + Pow2[h] <= At(h, p)
  BY SubtreesInOrder
<1> QED
  BY <1>1, <1>2 DEF Around

\* Two subtrees of the same height around one leaf are the same.
LEMMA SamePosition ==
    ASSUME NEW h \in Nat, NEW p \in Nat, NEW q \in Nat, NEW i \in Nat,
           Around(i, h, p), Around(i, h, q)
    PROVE  p = q
<1>1. p <= q /\ q <= p
  BY LeavesInOrder
<1> QED
  BY <1>1

LEMMA SubtreeSizes ==
    ASSUME NEW h \in Nat, NEW a \in Nat, NEW size \in Nat, a < size
    PROVE  /\ SubtreeSize(h, a, size) \in Nat
           /\ 0 < SubtreeSize(h, a, size) /\ SubtreeSize(h, a, size) <= Pow2[h]
           /\ size <= a + Pow2[h] => SubtreeSize(h, a, size) = size - a
           /\ a + Pow2[h] <= size => SubtreeSize(h, a, size) = Pow2[h]
           /\ a + SubtreeSize(h, a, size) = size
                \/ a + SubtreeSize(h, a, size) = a + Pow2[h]
BY Pow2Bounds DEF SubtreeSize

\* A left child without a sibling makes the subtree around it.
LEMMA AloneSubtree ==
    ASSUME NEW h \in Nat, NEW a \in Nat, NEW size \in Nat, a < size, size <= a + Pow2[h],
           NEW s, s = SubtreeSize(h, a, size)
    PROVE  /\ SubtreeSize(h + 1, a, size) = s
           /\ s \in Nat /\ a + s = size
           /\ \A log : SubtreeHash(log, h + 1, a, s) = SubtreeHash(log, h, a, s)
           /\ \A i, first \in Nat : first # size =>
                Siblings(i, first)[h + 1][a][s] = Siblings(i, first)[h][a][s]
<1>1. Pow2[h] \in Nat /\ Pow2[h + 1] = 2 * Pow2[h]
  BY Pow2Bounds, Pow2Steps
<1>2. s \in Nat /\ a + s = size /\ s <= Pow2[h] /\ s <= Pow2[h + 1]
  BY <1>1 DEF SubtreeSize
<1>3. SubtreeSize(h + 1, a, size) = s
  BY <1>1, <1>2 DEF SubtreeSize
<1>4. \A log : SubtreeHash(log, h + 1, a, s) = SubtreeHash(log, h, a, s)
  BY ONLY <1>2, NodeHash, h \in Nat, a \in Nat
<1>5. ASSUME NEW i \in Nat, NEW first \in Nat, first # size
      PROVE  Siblings(i, first)[h + 1][a][s] = Siblings(i, first)[h][a][s]
  <2>1. a + s # first
    BY <1>2, <1>5
  <2> QED
    BY ONLY <1>2, <2>1, SiblingsAsBelow, h \in Nat, a \in Nat, i \in Nat, first \in Nat
<1> QED
  BY <1>2, <1>3, <1>4, <1>5

\* Two siblings make the subtree around them.
LEMMA PairedSubtree ==
    ASSUME NEW h \in Nat, NEW a \in Nat, NEW size \in Nat, a + Pow2[h] < size,
           NEW s, s = SubtreeSize(h + 1, a, size),
           NEW t, t = SubtreeSize(h, a + Pow2[h], size)
    PROVE  /\ SubtreeSize(h, a, size) = Pow2[h]
           /\ s = Pow2[h] + t /\ s \in Nat /\ t \in Nat /\ 0 < t /\ a + Pow2[h] \in Nat
           /\ \A log : SubtreeHash(log, h + 1, a, s) =
                HashNode(SubtreeHash(log, h, a, Pow2[h]), SubtreeHash(log, h, a + Pow2[h], t))
           /\ \A i, first \in Nat : a + s # first =>
                /\ i < a + Pow2[h] =>
                     Siblings(i, first)[h + 1][a][s] =
                       Add(Siblings(i, first)[h][a][Pow2[h]],
                           SubtreeHash(Log, h, a + Pow2[h], t))
                /\ a + Pow2[h] <= i =>
                     Siblings(i, first)[h + 1][a][s] =
                       Add(Siblings(i, first)[h][a + Pow2[h]][t],
                           SubtreeHash(Log, h, a, Pow2[h]))
<1>1. Pow2[h] \in Nat /\ 0 < Pow2[h] /\ Pow2[h + 1] = 2 * Pow2[h]
  BY Pow2Bounds, Pow2Steps
<1>2. SubtreeSize(h, a, size) = Pow2[h]
  BY <1>1 DEF SubtreeSize
<1>3. s = Pow2[h] + t /\ s \in Nat /\ s > Pow2[h] /\ t \in Nat /\ 0 < t /\ a + Pow2[h] \in Nat
  <2> DEFINE w == Pow2[h]
             w2 == Pow2[h + 1]
  <2>1. s = IF size - a <= w2 THEN size - a ELSE w2
    BY DEF SubtreeSize
  <2>2. t = IF size - (a + w) <= w THEN size - (a + w) ELSE w
    BY DEF SubtreeSize
  <2>3. w \in Nat /\ 0 < w /\ w2 = 2 * w /\ a + w < size
    BY <1>1
  <2> HIDE DEF w, w2
  <2>4. s = w + t /\ s \in Nat /\ s > w /\ t \in Nat /\ 0 < t /\ a + w \in Nat
    BY ONLY <2>1, <2>2, <2>3, a \in Nat, size \in Nat
  <2> QED
    BY <2>4 DEF w
<1>4. s - Pow2[h] = t
  BY <1>1, <1>3
<1>8. s \in Nat /\ s > Pow2[h]
  BY <1>3
<1>5. \A log : SubtreeHash(log, h + 1, a, s) =
        HashNode(SubtreeHash(log, h, a, Pow2[h]), SubtreeHash(log, h, a + Pow2[h], t))
  <2>1. \A log : SubtreeHash(log, h + 1, a, s) =
          HashNode(SubtreeHash(log, h, a, Pow2[h]),
                   SubtreeHash(log, h, a + Pow2[h], s - Pow2[h]))
    BY ONLY <1>8, NodeHash, h \in Nat, a \in Nat
  <2> QED
    BY ONLY <2>1, <1>4
<1>6. ASSUME NEW i \in Nat, NEW first \in Nat, a + s # first, i < a + Pow2[h]
      PROVE  Siblings(i, first)[h + 1][a][s] =
               Add(Siblings(i, first)[h][a][Pow2[h]], SubtreeHash(Log, h, a + Pow2[h], t))
  <2>1. Siblings(i, first)[h + 1][a][s] =
          Add(Siblings(i, first)[h][a][Pow2[h]],
              SubtreeHash(Log, h, a + Pow2[h], s - Pow2[h]))
    BY ONLY <1>8, <1>6, SiblingOnRight, h \in Nat, a \in Nat, i \in Nat, first \in Nat
  <2> QED
    BY ONLY <2>1, <1>4
<1>7. ASSUME NEW i \in Nat, NEW first \in Nat, a + s # first, a + Pow2[h] <= i
      PROVE  Siblings(i, first)[h + 1][a][s] =
               Add(Siblings(i, first)[h][a + Pow2[h]][t], SubtreeHash(Log, h, a, Pow2[h]))
  <2>1. Siblings(i, first)[h + 1][a][s] =
          Add(Siblings(i, first)[h][a + Pow2[h]][s - Pow2[h]],
              SubtreeHash(Log, h, a, Pow2[h]))
    BY ONLY <1>8, <1>7, SiblingOnLeft, h \in Nat, a \in Nat, i \in Nat, first \in Nat
  <2> QED
    BY ONLY <2>1, <1>4
<1> QED
  BY ONLY <1>2, <1>3, <1>5, <1>6, <1>7

-----------------------------------------------------------------------------
(* The nodes of a tree by height and position. *)

HashAt(log, size, h, q) == SubtreeHash(log, h, At(h, q), SubtreeSize(h, At(h, q), size))
ListAt(i, first, size, h, q) ==
    Siblings(i, first)[h][At(h, q)][SubtreeSize(h, At(h, q), size)]
EndAt(size, h, q) == At(h, q) + SubtreeSize(h, At(h, q), size)

LEMMA NodeTypes ==
    ASSUME NEW h \in Nat, NEW q \in Nat, NEW size \in Nat, At(h, q) < size
    PROVE  /\ HashAt(Log, size, h, q) \in Hash
           /\ \A i, first \in Nat : ListAt(i, first, size, h, q) \in Seq(Hash)
<1>1. At(h, q) \in Nat
  BY Positions
<1>2. SubtreeSize(h, At(h, q), size) \in Nat
  BY ONLY <1>1, SubtreeSizes, h \in Nat, size \in Nat, At(h, q) < size
<1>3. HashAt(Log, size, h, q) \in Hash
  BY ONLY <1>1, <1>2, HashType, h \in Nat DEF HashAt
<1>4. \A i, first \in Nat : ListAt(i, first, size, h, q) \in Seq(Hash)
  BY ONLY <1>1, <1>2, SiblingsType, h \in Nat DEF ListAt
<1> QED
  BY <1>3, <1>4

\* A left child that ends the tree is its parent.
LEMMA AloneNode ==
    ASSUME NEW h \in Nat, NEW p \in Nat, NEW size \in Nat,
           At(h, Left(p)) < size, size <= At(h, Left(p)) + Pow2[h]
    PROVE  /\ EndAt(size, h + 1, p) = size /\ EndAt(size, h, Left(p)) = size
           /\ \A log : HashAt(log, size, h + 1, p) = HashAt(log, size, h, Left(p))
           /\ \A i, first \in Nat : first # size =>
                ListAt(i, first, size, h + 1, p) = ListAt(i, first, size, h, Left(p))
<1>1. PICK a \in Nat : a = At(h + 1, p) /\ a = At(h, Left(p))
  BY Positions, LeftChild, RightChild, ChildrenType
<1>2. a < size /\ size <= a + Pow2[h]
  BY <1>1
<1>3. PICK s : s = SubtreeSize(h, a, size)
  OBVIOUS
<1>4. /\ SubtreeSize(h + 1, a, size) = s
      /\ s \in Nat /\ a + s = size
      /\ \A log : SubtreeHash(log, h + 1, a, s) = SubtreeHash(log, h, a, s)
      /\ \A i, first \in Nat : first # size =>
           Siblings(i, first)[h + 1][a][s] = Siblings(i, first)[h][a][s]
  BY ONLY <1>2, <1>3, AloneSubtree, h \in Nat, a \in Nat, size \in Nat
<1> QED
  BY <1>1, <1>3, <1>4 DEF HashAt, ListAt, EndAt

\* A parent of two.
LEMMA PairedNode ==
    ASSUME NEW h \in Nat, NEW p \in Nat, NEW size \in Nat,
           At(h, Left(p)) + Pow2[h] < size
    PROVE  /\ \A log : HashAt(log, size, h + 1, p) =
                HashNode(HashAt(log, size, h, Left(p)), HashAt(log, size, h, Right(p)))
           /\ \A i, first \in Nat : EndAt(size, h + 1, p) # first =>
                /\ i < At(h, Left(p)) + Pow2[h] =>
                     ListAt(i, first, size, h + 1, p) =
                       Add(ListAt(i, first, size, h, Left(p)),
                           HashAt(Log, size, h, Right(p)))
                /\ At(h, Left(p)) + Pow2[h] <= i =>
                     ListAt(i, first, size, h + 1, p) =
                       Add(ListAt(i, first, size, h, Right(p)),
                           HashAt(Log, size, h, Left(p)))
<1>1. PICK a \in Nat : a = At(h + 1, p) /\ a = At(h, Left(p))
  BY Positions, LeftChild, RightChild, ChildrenType
<1>2. a + Pow2[h] < size /\ a + Pow2[h] = At(h, Right(p))
  BY <1>1, LeftChild, RightChild, ChildrenType
<1>3. PICK s : s = SubtreeSize(h + 1, a, size)
  OBVIOUS
<1>4. PICK t : t = SubtreeSize(h, a + Pow2[h], size)
  OBVIOUS
<1>5. /\ SubtreeSize(h, a, size) = Pow2[h]
      /\ \A log : SubtreeHash(log, h + 1, a, s) =
           HashNode(SubtreeHash(log, h, a, Pow2[h]), SubtreeHash(log, h, a + Pow2[h], t))
      /\ \A i, first \in Nat : a + s # first =>
           /\ i < a + Pow2[h] =>
                Siblings(i, first)[h + 1][a][s] =
                  Add(Siblings(i, first)[h][a][Pow2[h]], SubtreeHash(Log, h, a + Pow2[h], t))
           /\ a + Pow2[h] <= i =>
                Siblings(i, first)[h + 1][a][s] =
                  Add(Siblings(i, first)[h][a + Pow2[h]][t], SubtreeHash(Log, h, a, Pow2[h]))
  BY ONLY <1>2, <1>3, <1>4, PairedSubtree, h \in Nat, a \in Nat, size \in Nat
<1>6. /\ EndAt(size, h + 1, p) = a + s
      /\ \A log : HashAt(log, size, h + 1, p) = SubtreeHash(log, h + 1, a, s)
      /\ \A log : HashAt(log, size, h, Left(p)) = SubtreeHash(log, h, a, Pow2[h])
      /\ \A log : HashAt(log, size, h, Right(p)) = SubtreeHash(log, h, a + Pow2[h], t)
  BY ONLY <1>1, <1>2, <1>3, <1>4, <1>5 DEF HashAt, EndAt
<1>7. \A i, first :
        /\ ListAt(i, first, size, h + 1, p) = Siblings(i, first)[h + 1][a][s]
        /\ ListAt(i, first, size, h, Left(p)) = Siblings(i, first)[h][a][Pow2[h]]
        /\ ListAt(i, first, size, h, Right(p)) = Siblings(i, first)[h][a + Pow2[h]][t]
  BY ONLY <1>1, <1>2, <1>3, <1>4, <1>5 DEF ListAt
<1>8. \A log : HashAt(log, size, h + 1, p) =
        HashNode(HashAt(log, size, h, Left(p)), HashAt(log, size, h, Right(p)))
  BY ONLY <1>5, <1>6
<1>9. ASSUME NEW i \in Nat, NEW first \in Nat, EndAt(size, h + 1, p) # first
      PROVE  /\ i < At(h, Left(p)) + Pow2[h] =>
                  ListAt(i, first, size, h + 1, p) =
                    Add(ListAt(i, first, size, h, Left(p)), HashAt(Log, size, h, Right(p)))
             /\ At(h, Left(p)) + Pow2[h] <= i =>
                  ListAt(i, first, size, h + 1, p) =
                    Add(ListAt(i, first, size, h, Right(p)), HashAt(Log, size, h, Left(p)))
  <2>1. a + s # first
    BY ONLY <1>6, <1>9
  <2>2. /\ HashAt(Log, size, h, Right(p)) = SubtreeHash(Log, h, a + Pow2[h], t)
        /\ HashAt(Log, size, h, Left(p)) = SubtreeHash(Log, h, a, Pow2[h])
        /\ ListAt(i, first, size, h + 1, p) = Siblings(i, first)[h + 1][a][s]
        /\ ListAt(i, first, size, h, Left(p)) = Siblings(i, first)[h][a][Pow2[h]]
        /\ ListAt(i, first, size, h, Right(p)) = Siblings(i, first)[h][a + Pow2[h]][t]
        /\ At(h, Left(p)) + Pow2[h] = a + Pow2[h]
    BY ONLY <1>1, <1>6, <1>7
  <2>3. /\ i < a + Pow2[h] =>
             Siblings(i, first)[h + 1][a][s] =
               Add(Siblings(i, first)[h][a][Pow2[h]], SubtreeHash(Log, h, a + Pow2[h], t))
        /\ a + Pow2[h] <= i =>
             Siblings(i, first)[h + 1][a][s] =
               Add(Siblings(i, first)[h][a + Pow2[h]][t], SubtreeHash(Log, h, a, Pow2[h]))
    BY ONLY <1>5, <2>1, i \in Nat, first \in Nat
  <2> QED
    BY ONLY <2>2, <2>3
<1> QED
  BY ONLY <1>8, <1>9

\* A high enough node is the whole tree.
LEMMA TopHash ==
    ASSUME NEW log, NEW h \in Nat, NEW size \in Nat, size <= Pow2[h]
    PROVE  HashAt(log, size, h, 0) = TreeHash(log, size)
<1>1. At(h, 0) = 0 /\ SubtreeSize(h, 0, size) = size
  BY Pow2Bounds, FirstPosition DEF SubtreeSize
<1>2. size <= Pow2[size]
  BY Pow2Bounds
<1>3. CASE h <= size
  <2>1. PICK d \in Nat : h + d = size
    <3>1. size - h \in Nat /\ h + (size - h) = size
      BY <1>3
    <3> QED
      BY <3>1
  <2>2. SubtreeHash(log, h + d, 0, size) = SubtreeHash(log, h, 0, size)
    BY HashIsStable
  <2> QED
    BY <1>1, <2>1, <2>2 DEF HashAt, At, TreeHash
<1>4. CASE size <= h
  <2>1. PICK d \in Nat : size + d = h
    <3>1. h - size \in Nat /\ size + (h - size) = h
      BY <1>4
    <3> QED
      BY <3>1
  <2>2. SubtreeHash(log, size + d, 0, size) = SubtreeHash(log, size, 0, size)
    BY <1>2, HashIsStable
  <2> QED
    BY <1>1, <2>1, <2>2 DEF HashAt, At, TreeHash
<1> QED
  BY <1>3, <1>4

LEMMA TopList ==
    ASSUME NEW i \in Nat, NEW first \in Nat, NEW h \in Nat, NEW size \in Nat,
           h <= size, size <= Pow2[h]
    PROVE  ListAt(i, first, size, h, 0) = Siblings(i, first)[size][0][size]
<1>1. At(h, 0) = 0 /\ SubtreeSize(h, 0, size) = size
  BY Pow2Bounds, FirstPosition DEF SubtreeSize
<1>2. Siblings(i, first)[size][0][size] = Siblings(i, first)[h][0][size]
  <2>1. 0 \in Nat
    OBVIOUS
  <2> QED
    BY ONLY <2>1, SiblingsAreStable, i \in Nat, first \in Nat, h \in Nat, size \in Nat,
            h <= size, size <= Pow2[h]
<1> QED
  BY <1>1, <1>2 DEF ListAt, At

\* The parent of a node around a leaf, and the node below it.
LEMMA AroundParent ==
    ASSUME NEW i \in Nat, NEW h \in Nat, NEW p \in Nat
    PROVE  Around(i, h + 1, p) <=> Around(i, h, Left(p)) \/ Around(i, h, Right(p))
<1> DEFINE a == At(h, Left(p))
           b == At(h, Right(p))
           c == At(h + 1, p)
           w == Pow2[h]
           w2 == Pow2[h + 1]
<1>1. w \in Nat /\ w2 = 2 * w
  BY Pow2Bounds, Pow2Steps
<1>5. b = a + w
  BY RightChild
<1>6. c = a
  BY LeftChild
<1>7. a \in Nat
  BY ChildrenType, Positions
<1>2. Around(i, h + 1, p) <=> c <= i /\ i < c + w2
  BY DEF Around
<1>3. Around(i, h, Left(p)) <=> a <= i /\ i < a + w
  BY DEF Around
<1>4. Around(i, h, Right(p)) <=> b <= i /\ i < b + w
  BY DEF Around
<1> HIDE DEF a, b, c, w, w2
<1> QED
  BY ONLY <1>1, <1>2, <1>3, <1>4, <1>5, <1>6, <1>7, i \in Nat

\* On the way up from a node of a tree that has more leaves, there is at least
\* one more sibling to come.
LEMMA MoreToCome ==
    ASSUME NEW i \in Nat, NEW first \in Nat, NEW size \in Nat, NEW k \in Nat, NEW p \in Nat,
           i < size, Around(i, k, p), Pow2[k] < size,
           \A d, q \in Nat : Around(i, k + d + 1, q) => EndAt(size, k + d + 1, q) # first
    PROVE  Len(ListAt(i, first, size, k, p)) < Len(Siblings(i, first)[size][0][size])
<1> DEFINE L == Len(ListAt(i, first, size, k, p))
           M(h, q) == Len(ListAt(i, first, size, h, q))
           More(d) == \A q \in Nat : Around(i, k + d, q) =>
                        /\ M(k + d, q) \in Nat
                        /\ L < M(k + d, q) \/ (L = M(k + d, q) /\ Pow2[k + d] < size)
           S == {d \in Nat : More(d)}
<1>1. ASSUME NEW h \in Nat, NEW q \in Nat, Around(i, h, q)
      PROVE  At(h, q) < size /\ ListAt(i, first, size, h, q) \in Seq(Hash) /\ M(h, q) \in Nat
  <2>1. At(h, q) < size
    BY <1>1, Positions DEF Around
  <2>2. ListAt(i, first, size, h, q) \in Seq(Hash)
    BY <2>1, NodeTypes
  <2> QED
    BY <2>1, <2>2
<1>2. L \in Nat
  BY <1>1
<1> HIDE DEF L
<1>3. 0 \in S
  <2>1. ASSUME NEW q \in Nat, Around(i, k + 0, q)
        PROVE  M(k + 0, q) \in Nat /\ L = M(k + 0, q) /\ Pow2[k + 0] < size
    <3>1. k + 0 = k
      OBVIOUS
    <3>2. Around(i, k, q)
      BY <2>1, <3>1
    <3>3. p = q
      <4>1. Pow2[k] \in Nat
        BY Pow2Bounds
      <4> HIDE DEF M
      <4> QED
        BY ONLY <3>2, <4>1, SamePosition, i \in Nat, p \in Nat, q \in Nat, Around(i, k, p)
           DEF Around
    <3> QED
      BY <1>1, <3>1, <3>2, <3>3 DEF L
  <2> QED
    BY <2>1
<1>4. ASSUME NEW d \in Nat, d \in S PROVE d + 1 \in S
  <2> DEFINE h == k + d
             w == Pow2[h]
  <2>1. h \in Nat /\ k + (d + 1) = h + 1 /\ k + d + 1 = h + 1
    OBVIOUS
  <2>2. w \in Nat /\ 0 < w /\ Pow2[h + 1] = 2 * w
    BY <2>1, Pow2Bounds, Pow2Steps
  <2>3. \A q \in Nat : Around(i, h, q) =>
          M(h, q) \in Nat /\ (L < M(h, q) \/ (L = M(h, q) /\ w < size))
    BY <1>4
  <2>4. \A q \in Nat : Around(i, h + 1, q) => EndAt(size, h + 1, q) # first
    BY <2>1
  <2> HIDE DEF h
  <2>5. ASSUME NEW q \in Nat, Around(i, h + 1, q)
        PROVE  /\ M(h + 1, q) \in Nat
               /\ L < M(h + 1, q) \/ (L = M(h + 1, q) /\ Pow2[h + 1] < size)
    <3> DEFINE a == At(h, Left(q))
    <3>1. M(h + 1, q) \in Nat /\ EndAt(size, h + 1, q) # first
      BY ONLY <1>1, <2>1, <2>4, <2>5, q \in Nat
    <3>2. Left(q) \in Nat /\ Right(q) \in Nat
      BY ChildrenType
    <3>3. a = At(h + 1, q)
      BY <2>1, LeftChild
    <3>4. a \in Nat
      BY <2>1, <3>2, Positions
    <3>5. At(h, Right(q)) = a + w
      BY <2>1, RightChild
    <3>6. CASE Around(i, h, Right(q))
      <4>1. a + w < size /\ a + w <= i
        BY <1>1, <2>1, <3>2, <3>5, <3>3, <3>4, <3>6 DEF Around
      <4>2. ListAt(i, first, size, h + 1, q) =
              Add(ListAt(i, first, size, h, Right(q)), HashAt(Log, size, h, Left(q)))
        BY <2>1, <3>1, <4>1, PairedNode
      <4>3. a < size
        BY <2>2, <3>5, <3>4, <4>1
      <4>4. HashAt(Log, size, h, Left(q)) \in Hash
        BY <2>1, <4>3, NodeTypes, <3>2
      <4>5. ListAt(i, first, size, h, Right(q)) \in Seq(Hash)
        BY <1>1, <2>1, <3>2, <3>5, <3>3, <3>4, <3>6
      <4>6. M(h + 1, q) = M(h, Right(q)) + 1
        BY <4>2, <4>4, <4>5, AddProperties
      <4>7. M(h, Right(q)) \in Nat /\ L <= M(h, Right(q))
        BY <1>2, <2>3, <3>6, <3>2
      <4> HIDE DEF M
      <4> QED
        BY <1>2, <3>1, <4>6, <4>7
    <3>7. CASE Around(i, h, Left(q)) /\ a + w < size
      <4>1. i < a + w
        BY <3>7 DEF Around
      <4>2. ListAt(i, first, size, h + 1, q) =
              Add(ListAt(i, first, size, h, Left(q)), HashAt(Log, size, h, Right(q)))
        BY <2>1, <3>1, <3>7, <4>1, PairedNode
      <4>3. HashAt(Log, size, h, Right(q)) \in Hash
        BY <2>1, <3>2, <3>5, <3>3, <3>4, <3>7, NodeTypes
      <4>4. ListAt(i, first, size, h, Left(q)) \in Seq(Hash)
        BY <1>1, <2>1, <3>2, <3>5, <3>3, <3>4, <3>7
      <4>5. M(h + 1, q) = M(h, Left(q)) + 1
        BY <4>2, <4>3, <4>4, AddProperties
      <4>6. M(h, Left(q)) \in Nat /\ L <= M(h, Left(q))
        BY <1>2, <2>3, <3>7, <3>2
      <4> HIDE DEF M
      <4> QED
        BY <1>2, <3>1, <4>5, <4>6
    <3>8. CASE Around(i, h, Left(q)) /\ size <= a + w
      <4>1. a < size
        BY <1>1, <2>1, <3>2, <3>5, <3>3, <3>4, <3>8
      <4>2. /\ EndAt(size, h + 1, q) = size
            /\ \A i1, first1 \in Nat : first1 # size =>
                 ListAt(i1, first1, size, h + 1, q) = ListAt(i1, first1, size, h, Left(q))
        BY <2>1, <3>8, <4>1, AloneNode
      <4>3. M(h + 1, q) = M(h, Left(q))
        BY <3>1, <4>2
      <4>4. w < size => 2 * w < size
        <5>1. q = 0 => a = 0
          BY ONLY <2>1, <3>3, FirstPosition
        <5>2. q # 0 => 2 * w <= a
          BY ONLY <2>1, <2>2, <3>3, LaterPosition, q \in Nat
        <5> QED
          BY <2>2, <3>4, <3>8, <4>1, <5>1, <5>2
      <4>5. M(h, Left(q)) \in Nat /\ (L < M(h, Left(q)) \/ (L = M(h, Left(q)) /\ w < size))
        BY <2>3, <3>8, <3>2
      <4> QED
        BY <2>2, <3>1, <4>3, <4>4, <4>5
    <3>9. Around(i, h, Left(q)) \/ Around(i, h, Right(q))
      BY <2>1, <2>5, AroundParent
    <3> HIDE DEF w, a, M
    <3> QED
      BY ONLY <2>2, <3>4, <3>6, <3>7, <3>8, <3>9, size \in Nat
  <2>6. More(d + 1)
    BY <2>1, <2>5
  <2> HIDE DEF More
  <2> QED
    BY <2>6
<1> HIDE DEF S
<1>5. Nat \subseteq S
  BY <1>3, <1>4, AllNaturals
<1>6. k <= size /\ size <= Pow2[size] /\ i < Pow2[size]
  BY Pow2Bounds
<1>7. PICK d \in Nat : k + d = size
  <2>1. size - k \in Nat /\ k + (size - k) = size
    BY <1>6
  <2> QED
    BY <2>1
<1>8. Around(i, size, 0)
  <2>1. At(size, 0) = 0 /\ Pow2[size] \in Nat
    BY Positions
  <2> QED
    BY <1>6, <2>1 DEF Around
<1>9. ListAt(i, first, size, size, 0) = Siblings(i, first)[size][0][size]
  BY <1>6, TopList
<1>10. L < M(size, 0)
  <2>1. More(d)
    BY <1>5 DEF S
  <2>2. Pow2[size] \in Nat
    BY Pow2Bounds
  <2> QED
    BY <1>6, <1>7, <1>8, <2>1, <2>2
<1> QED
  BY <1>9, <1>10 DEF L

LEMMA Halves ==
    ASSUME NEW q \in Nat
    PROVE  /\ q \div 2 \in Nat
           /\ q % 2 = 1 => q = Right(q \div 2)
           /\ q % 2 # 1 => q = Left(q \div 2)
BY DEF Left, Right

LEMMA AroundHalf ==
    ASSUME NEW i \in Nat, NEW h \in Nat, NEW q \in Nat, Around(i, h, q)
    PROVE  Around(i, h + 1, q \div 2)
<1>1. PICK p \in Nat : p = q \div 2
  BY Halves
<1>2. q = Left(p) \/ q = Right(p)
  BY <1>1, Halves
<1>3. Around(i, h, Left(p)) \/ Around(i, h, Right(p))
  BY <1>2
<1>4. Around(i, h + 1, p)
  BY ONLY <1>3, AroundParent, i \in Nat, h \in Nat, p \in Nat
<1> QED
  BY <1>1, <1>4

LEMMA AroundLeaf ==
    ASSUME NEW i \in Nat
    PROVE  At(0, i) = i /\ Around(i, 0, i)
BY Pow2Steps DEF At, Around

\* The tree of the leaves up to j is higher than k when j is not in the first
\* subtree of that height.
LEMMA LevelsToGo ==
    ASSUME NEW k \in Nat, NEW j \in Nat, NEW y \in Nat, Around(j, k, y)
    PROVE  /\ y # 0 => Pow2[k] < j + 1 /\ k < j + 1
           /\ y = 0 => j + 1 <= Pow2[k]
<1>1. At(k, y) \in Nat /\ Pow2[k] \in Nat /\ k < Pow2[k]
  BY Positions, Pow2Bounds
<1>2. y # 0 => Pow2[k] <= At(k, y)
  BY LaterPosition
<1>3. y = 0 => At(k, y) = 0
  BY FirstPosition
<1> QED
  BY <1>1, <1>2, <1>3 DEF Around

LEMMA EndIsPositive ==
    ASSUME NEW h \in Nat, NEW q \in Nat, NEW size \in Nat, At(h, q) < size
    PROVE  EndAt(size, h, q) \in Nat /\ EndAt(size, h, q) # 0
<1>1. At(h, q) \in Nat
  BY Positions
<1>2. SubtreeSize(h, At(h, q), size) \in Nat /\ 0 < SubtreeSize(h, At(h, q), size)
  BY <1>1, SubtreeSizes
<1> QED
  BY <1>1, <1>2 DEF EndAt, At

-----------------------------------------------------------------------------
(* The inclusion page. *)

ClimbedWith(k, i, size, siblings, entry, hash, q, count) ==
    /\ Around(i, k, q)
    /\ count = Len(ListAt(i, 0, size, k, q))
    /\ hash = HashAt(Log, size, k, q) <=>
         /\ entry = Log[i + 1]
         /\ AgreesUpTo(siblings, ListAt(i, 0, size, k, q), count)

\* One level up with a sibling, and without one.
LEMMA ClimbTake ==
    ASSUME NEW k \in Nat, NEW i \in Nat, NEW size \in Nat, i < size,
           NEW siblings, NEW entry, NEW hash, NEW q \in Nat, NEW count, NEW y \in Nat,
           Around(size - 1, k, y), q % 2 = 1 \/ q < y,
           ClimbedWith(k, i, size, siblings, entry, hash, q, count)
    PROVE  ClimbedWith(k + 1, i, size, siblings, entry,
                       IF q % 2 = 1 THEN HashNode(siblings[count + 1], hash)
                                    ELSE HashNode(hash, siblings[count + 1]),
                       q \div 2, count + 1)
<1>1. PICK p \in Nat : p = q \div 2
  BY Halves
<1>2. Around(i, k + 1, p)
  BY <1>1, AroundHalf DEF ClimbedWith
<1>3. At(k + 1, p) < size
  BY <1>2, Positions DEF Around
<1>4. EndAt(size, k + 1, p) # 0
  BY <1>3, EndIsPositive
<1> DEFINE low == ListAt(i, 0, size, k, q)
           high == ListAt(i, 0, size, k + 1, p)
           right == AgreesUpTo(siblings, low, count)
<1>5. At(k, q) < size /\ At(k, q) \in Nat /\ Pow2[k] \in Nat
  <2>1. At(k, q) \in Nat /\ Pow2[k] \in Nat
    BY Positions
  <2>2. At(k, q) <= i
    BY DEF ClimbedWith, Around
  <2> QED
    BY <2>1, <2>2
<1>6. low \in Seq(Hash) /\ count = Len(low)
  BY <1>5, NodeTypes DEF ClimbedWith
<1>7. hash = HashAt(Log, size, k, q) <=> entry = Log[i + 1] /\ right
  BY DEF ClimbedWith
<1> HIDE DEF low, high
\* What a list with one hash more gives.
<1>8. ASSUME NEW other \in Hash, high = Add(low, other)
      PROVE  /\ count + 1 = Len(high)
             /\ AgreesUpTo(siblings, high, count + 1)
                  <=> right /\ siblings[count + 1] = other
  <2>1. low \in Seq(Hash) /\ other \in Hash
    BY <1>6, <1>8
  <2>2. Len(Add(low, other)) = Len(low) + 1
    BY ONLY <2>1, AddProperties
  <2>3. AgreesUpTo(siblings, Add(low, other), Len(low) + 1)
          <=> AgreesUpTo(siblings, low, Len(low)) /\ siblings[Len(low) + 1] = other
    BY ONLY <2>1, AddAgrees
  <2> QED
    BY ONLY <1>6, <1>8, <2>2, <2>3
<1>9. CASE q % 2 = 1
  <2>1. q = Right(p)
    BY <1>1, <1>9, Halves
  <2>2. At(k, Left(p)) + Pow2[k] <= i
    BY <2>1, RightChild DEF ClimbedWith, Around
  <2>3. At(k, Left(p)) \in Nat
    BY ChildrenType, Positions
  <2>4. At(k, Left(p)) + Pow2[k] < size /\ At(k, Left(p)) < size
    BY <1>5, <2>2, <2>3
  <2>5. HashAt(Log, size, k + 1, p) =
          HashNode(HashAt(Log, size, k, Left(p)), HashAt(Log, size, k, q))
    BY <2>1, <2>4, PairedNode
  <2>6. high = Add(low, HashAt(Log, size, k, Left(p)))
    BY <1>4, <2>1, <2>2, <2>4, PairedNode DEF low, high
  <2>7. HashAt(Log, size, k, Left(p)) \in Hash
    BY <2>4, NodeTypes, ChildrenType
  <2>8. HashNode(siblings[count + 1], hash) = HashAt(Log, size, k + 1, p)
          <=> hash = HashAt(Log, size, k, q) /\ siblings[count + 1] = HashAt(Log, size, k, Left(p))
    BY ONLY <2>5, NodesAreInjective
  <2>9. ClimbedWith(k + 1, i, size, siblings, entry, HashNode(siblings[count + 1], hash),
                    p, count + 1)
    BY ONLY <1>2, <1>7, <1>8, <2>6, <2>7, <2>8 DEF ClimbedWith, high
  <2> QED
    BY ONLY <1>1, <1>9, <2>9
<1>10. CASE q % 2 # 1
  <2>1. q = Left(p) /\ q < y
    BY <1>1, <1>10, Halves
  <2>2. At(k, q) + Pow2[k] < size
    <3>1. At(k, q) + Pow2[k] <= At(k, y)
      BY <2>1, SubtreesInOrder
    <3>2. At(k, y) \in Nat /\ At(k, y) <= size - 1
      BY Positions DEF Around
    <3> QED
      BY <1>5, <3>1, <3>2
  <2>3. At(k, Right(p)) = At(k, q) + Pow2[k] /\ i < At(k, q) + Pow2[k]
    BY <2>1, RightChild DEF ClimbedWith, Around
  <2>4. HashAt(Log, size, k + 1, p) =
          HashNode(HashAt(Log, size, k, q), HashAt(Log, size, k, Right(p)))
    BY <2>1, <2>2, PairedNode
  <2>5. high = Add(low, HashAt(Log, size, k, Right(p)))
    BY <1>4, <2>1, <2>2, <2>3, PairedNode DEF low, high
  <2>6. HashAt(Log, size, k, Right(p)) \in Hash
    BY <2>2, <2>3, NodeTypes, ChildrenType
  <2>7. HashNode(hash, siblings[count + 1]) = HashAt(Log, size, k + 1, p)
          <=> hash = HashAt(Log, size, k, q) /\ siblings[count + 1] = HashAt(Log, size, k, Right(p))
    BY ONLY <2>4, NodesAreInjective
  <2>8. ClimbedWith(k + 1, i, size, siblings, entry, HashNode(hash, siblings[count + 1]),
                    p, count + 1)
    BY ONLY <1>2, <1>7, <1>8, <2>5, <2>6, <2>7 DEF ClimbedWith, high
  <2> QED
    BY ONLY <1>1, <1>10, <2>8
<1> QED
  BY <1>9, <1>10

LEMMA ClimbUp ==
    ASSUME NEW k \in Nat, NEW i \in Nat, NEW size \in Nat, i < size,
           NEW siblings, NEW entry, NEW hash, NEW q \in Nat, NEW count, NEW y \in Nat,
           Around(size - 1, k, y), q % 2 # 1, ~(q < y),
           ClimbedWith(k, i, size, siblings, entry, hash, q, count)
    PROVE  ClimbedWith(k + 1, i, size, siblings, entry, hash, q \div 2, count)
<1>1. PICK p \in Nat : p = q \div 2
  BY Halves
<1>2. q = Left(p)
  BY <1>1, Halves
<1>3. Around(i, k + 1, p)
  BY <1>1, AroundHalf DEF ClimbedWith
<1>4. q = y
  <2>1. q <= y
    <3>1. size - 1 \in Nat /\ i <= size - 1
      OBVIOUS
    <3> QED
      BY <3>1, LeavesInOrder DEF ClimbedWith
  <2> QED
    BY <2>1
<1>5. At(k, q) < size /\ size <= At(k, q) + Pow2[k]
  <2>1. At(k, q) \in Nat /\ Pow2[k] \in Nat
    BY Positions
  <2>2. At(k, q) <= size - 1 /\ size - 1 < At(k, q) + Pow2[k]
    BY <1>4 DEF Around
  <2> QED
    BY <2>1, <2>2
<1>6. /\ HashAt(Log, size, k + 1, p) = HashAt(Log, size, k, q)
      /\ ListAt(i, 0, size, k + 1, p) = ListAt(i, 0, size, k, q)
  <2>1. size # 0
    OBVIOUS
  <2> QED
    BY <1>2, <1>5, <2>1, AloneNode
<1> QED
  BY <1>1, <1>3, <1>6 DEF ClimbedWith

\* At the top.
LEMMA ClimbEnd ==
    ASSUME NEW i \in Nat, NEW size \in Nat, i < size, NEW k \in 0 .. size,
           NEW siblings, NEW entry, NEW hash, NEW q \in Nat, NEW count,
           Around(size - 1, k, 0),
           ClimbedWith(k, i, size, siblings, entry, hash, q, count)
    PROVE  /\ count = Len(Path(i, size))
           /\ hash = TreeHash(Log, size) <=>
                entry = Log[i + 1] /\ AgreesUpTo(siblings, Path(i, size), count)
<1>1. size - 1 \in Nat /\ i <= size - 1 /\ k \in Nat
  OBVIOUS
<1>2. q = 0
  <2>1. q <= 0
    BY <1>1, LeavesInOrder DEF ClimbedWith
  <2> QED
    BY <2>1
<1>3. k <= size /\ size <= Pow2[k]
  <2>1. (size - 1) + 1 <= Pow2[k]
    BY <1>1, LevelsToGo
  <2> QED
    BY <2>1
<1>4. /\ HashAt(Log, size, k, q) = TreeHash(Log, size)
      /\ ListAt(i, 0, size, k, q) = Path(i, size)
  BY <1>1, <1>2, <1>3, TopHash, TopList DEF Path
<1> QED
  BY <1>4 DEF ClimbedWith

\* With nodes left on the way up, the list is not a whole path.
LEMMA ClimbNotDone ==
    ASSUME NEW i \in Nat, NEW size \in Nat, i < size, NEW k \in Nat,
           NEW siblings, NEW entry, NEW hash, NEW q \in Nat, NEW count,
           NEW y \in Nat, y # 0, Around(size - 1, k, y),
           ClimbedWith(k, i, size, siblings, entry, hash, q, count)
    PROVE  count < Len(Path(i, size))
<1>1. Pow2[k] < size
  <2>1. Pow2[k] < (size - 1) + 1
    BY LevelsToGo
  <2> QED
    BY <2>1
<1>2. ASSUME NEW d \in Nat, NEW x \in Nat, Around(i, k + d + 1, x)
      PROVE  EndAt(size, k + d + 1, x) # 0
  <2>1. k + d + 1 \in Nat
    OBVIOUS
  <2>2. At(k + d + 1, x) < size
    BY <1>2, <2>1, Positions DEF Around
  <2> QED
    BY <2>1, <2>2, EndIsPositive
<1>3. Len(ListAt(i, 0, size, k, q)) < Len(Siblings(i, 0)[size][0][size])
  BY <1>1, <1>2, MoreToCome DEF ClimbedWith
<1> QED
  BY <1>3 DEF ClimbedWith, Path

LEMMA PathType ==
    ASSUME NEW i \in Nat, NEW size \in Nat
    PROVE  Path(i, size) \in Seq(Hash)
BY SiblingsType DEF Path

\* A file with the root of its tree holds the service's proof when its index is
\* in the tree and its siblings are the path.
LEMMA HonestProof ==
    ASSUME NEW i \in Nat, NEW size \in Nat, NEW siblings, NEW p,
           p = [log_index |-> i, tree_size |-> size,
                root_hash |-> TreeHash(Log, size), proof |-> siblings]
    PROVE  p = InclusionProof(size, i) <=> i < size /\ siblings = Path(i, size)
<1>1. CASE i < size
  <2>1. InclusionProof(size, i) =
          [log_index |-> i, tree_size |-> size,
           root_hash |-> TreeHash(Log, size), proof |-> Path(i, size)]
    BY <1>1 DEF InclusionProof
  <2> QED
    BY <1>1, <2>1
<1>2. CASE ~(i < size)
  <2>1. InclusionProof(size, i) = [err |-> "index out of range"]
    <3>1. i >= size
      BY <1>2
    <3> QED
      BY ONLY <3>1 DEF InclusionProof, IndexOutOfRange
  <2>2. "log_index" \in DOMAIN p
    OBVIOUS
  <2>3. "log_index" \notin DOMAIN [err |-> "index out of range"]
    OBVIOUS
  <2>4. p # InclusionProof(size, i)
    BY ONLY <2>1, <2>2, <2>3
  <2> QED
    BY <1>2, <2>4
<1> QED
  BY <1>1, <1>2

\* The number of nodes of a level is one more than the last position.
LEMMA LevelSize ==
    ASSUME NEW k \in Nat, NEW size \in Nat, NEW c \in Nat, 0 < size
    PROVE  (c - 1) * Pow2[k] < size /\ size <= c * Pow2[k]
             <=> c # 0 /\ Around(size - 1, k, c - 1)
<1> DEFINE w == Pow2[k]
<1>1. w \in Nat /\ 0 < w
  BY Pow2Bounds
<1> HIDE DEF w
<1>2. CASE c = 0
  <2>1. c * w = 0
    BY <1>1, <1>2
  <2> QED
    BY <1>2, <2>1 DEF w
<1>3. CASE c # 0
  <2>1. PICK b \in Nat : c = b + 1
    <3>1. c - 1 \in Nat /\ c = (c - 1) + 1
      BY <1>3
    <3> QED
      BY <3>1
  <2>2. c - 1 = b /\ (b + 1) * w = b * w + w /\ b * w \in Nat
    BY <1>1, <2>1
  <2>3. (c - 1) * w < size /\ size <= c * w
          <=> b * w <= size - 1 /\ size - 1 < b * w + w
    BY <1>1, <2>1, <2>2
  <2>4. Around(size - 1, k, c - 1) <=> b * w <= size - 1 /\ size - 1 < b * w + w
    BY <2>2 DEF Around, At, w
  <2> QED
    BY <1>3, <2>3, <2>4 DEF w
<1> QED
  BY <1>2, <1>3

LEMMA LogLength == Len(Log) \in Nat
BY LogIsASequence

ProofFile(i, size, siblings) ==
    [log_index |-> i, tree_size |-> size, root_hash |-> TreeHash(Log, size), proof |-> siblings]

InclusionRun(doc, entry, i, size, siblings) ==
    /\ file = [doc |-> doc, entry |-> entry, p |-> ProofFile(i, size, siblings)]
    /\ doc \in Documents /\ entry \in Entries /\ siblings \in Proofs
    /\ i \in 0 .. Len(Log) /\ size \in 1 .. Len(Log)

LEMMA InclusionRuns ==
    ASSUME InclusionTypeOK, shown # "none"
    PROVE  \E doc, entry, i, size, siblings : InclusionRun(doc, entry, i, size, siblings)
<1>1. file \in InclusionFile /\ file.p.root_hash = TreeHash(Log, file.p.tree_size)
  BY DEF InclusionTypeOK
<1>2. /\ file.p.log_index \in 0 .. Len(Log) /\ file.p.tree_size \in 1 .. Len(Log)
      /\ file.p.proof \in Proofs /\ file.doc \in Documents /\ file.entry \in Entries
      /\ file.p = [log_index |-> file.p.log_index, tree_size |-> file.p.tree_size,
                   root_hash |-> file.p.root_hash, proof |-> file.p.proof]
      /\ file = [doc |-> file.doc, entry |-> file.entry, p |-> file.p]
  BY <1>1 DEF InclusionFile
<1>3. InclusionRun(file.doc, file.entry, file.p.log_index, file.p.tree_size, file.p.proof)
  BY <1>1, <1>2 DEF InclusionRun, ProofFile
<1> QED
  BY <1>3

LEMMA InclusionFields ==
    ASSUME NEW doc, NEW entry, NEW i, NEW size, NEW siblings, NEW f,
           f = [doc |-> doc, entry |-> entry, p |-> ProofFile(i, size, siblings)]
    PROVE  /\ f.doc = doc /\ f.entry = entry /\ f.p = ProofFile(i, size, siblings)
           /\ f.p.log_index = i /\ f.p.tree_size = size
           /\ f.p.root_hash = TreeHash(Log, size) /\ f.p.proof = siblings
BY DEF ProofFile

\* What the climb of one run is at, in constants.
LEMMA ClimbingState ==
    ASSUME InclusionInv, shown = "climbing",
           NEW doc, NEW entry, NEW i, NEW size, NEW siblings,
           InclusionRun(doc, entry, i, size, siblings)
    PROVE  /\ entry.payload_hash # NoPayload
           /\ i \in Nat /\ size \in Nat /\ i < size
           /\ idx \in Nat /\ n \in Nat /\ n # 0 /\ pi \in Nat /\ pi <= Len(siblings)
           /\ \E k \in 0 .. size :
                /\ ClimbedWith(k, i, size, siblings, entry, r, idx, pi)
                /\ Around(size - 1, k, n - 1)
<1>1. i \in Nat /\ size \in Nat /\ 0 < size
  BY LogLength DEF InclusionRun
<1>2. /\ file.entry = entry /\ file.p.log_index = i /\ file.p.tree_size = size
      /\ file.p.proof = siblings
  BY InclusionFields DEF InclusionRun
<1>3. /\ i < size /\ idx \in Nat /\ n \in Nat /\ pi \in Nat /\ pi <= Len(siblings)
      /\ entry.payload_hash # NoPayload
  BY <1>2 DEF InclusionInv, InclusionTypeOK
<1>4. PICK k \in 0 .. size : ClimbedTo(k, i, size, siblings)
  BY <1>2 DEF InclusionInv, Climbed
<1>5. ClimbedWith(k, i, size, siblings, entry, r, idx, pi)
  BY <1>2, <1>4 DEF ClimbedTo, ClimbedWith, Around, At, ListAt, HashAt, AgreesUpTo
<1>6. n # 0 /\ Around(size - 1, k, n - 1)
  <2>1. (n - 1) * Pow2[k] < size /\ size <= n * Pow2[k]
    BY <1>4 DEF ClimbedTo
  <2>2. k \in Nat
    BY <1>1
  <2> QED
    BY ONLY <1>1, <1>3, <2>1, <2>2, LevelSize
<1> QED
  BY <1>1, <1>3, <1>5, <1>6

\* The invariant after a step, from the same.
LEMMA ClimbingAfter ==
    ASSUME NEW doc, NEW entry, NEW i, NEW size, NEW siblings,
           InclusionRun(doc, entry, i, size, siblings)',
           shown' = "climbing", entry.payload_hash # NoPayload, i < size,
           idx' \in Nat, n' \in Nat, pi' \in Nat, pi' <= Len(siblings),
           NEW k \in 0 .. size,
           ClimbedWith(k, i, size, siblings, entry, r', idx', pi'),
           n' # 0, Around(size - 1, k, n' - 1)
    PROVE  InclusionInv'
<1>1. /\ file' = [doc |-> doc, entry |-> entry, p |-> ProofFile(i, size, siblings)]
      /\ doc \in Documents /\ entry \in Entries /\ siblings \in Proofs
      /\ i \in 0 .. Len(Log) /\ size \in 1 .. Len(Log)
  BY DEF InclusionRun
<1>2. /\ file'.entry = entry /\ file'.p.log_index = i /\ file'.p.tree_size = size
      /\ file'.p.proof = siblings /\ file'.p.root_hash = TreeHash(Log, size)
  BY <1>1, InclusionFields
<1>3. file' \in InclusionFile
  BY <1>1 DEF InclusionFile, ProofFile
<1>4. InclusionTypeOK'
  BY <1>2, <1>3 DEF InclusionTypeOK
<1>5. ClimbedTo(k, i, size, siblings)'
  <2>1. k \in Nat /\ size \in Nat /\ 0 < size
    BY <1>1, LogLength
  <2>2. (n' - 1) * Pow2[k] < size /\ size <= n' * Pow2[k]
    BY ONLY <2>1, LevelSize, n' \in Nat, n' # 0, Around(size - 1, k, n' - 1)
  <2>3. /\ idx' * Pow2[k] <= i /\ i < idx' * Pow2[k] + Pow2[k]
        /\ pi' = Len(ListAt(i, 0, size, k, idx'))
        /\ r' = HashAt(Log, size, k, idx') <=>
             entry = Log[i + 1] /\ AgreesUpTo(siblings, ListAt(i, 0, size, k, idx'), pi')
    BY DEF ClimbedWith, Around, At
  <2> QED
    BY <1>2, <2>2, <2>3 DEF ClimbedTo, ListAt, HashAt, At, AgreesUpTo
<1>6. Climbed'
  BY <1>2, <1>5 DEF Climbed
<1>7. InclusionIsExact'
  BY DEF InclusionIsExact
<1> QED
  BY <1>4, <1>6, <1>7 DEF InclusionInv

\* The invariant after a verdict.
LEMMA VerdictAfter ==
    ASSUME NEW doc, NEW entry, NEW i, NEW size, NEW siblings,
           InclusionRun(doc, entry, i, size, siblings)',
           idx' \in Nat, n' \in Nat, pi' \in Nat,
           shown' \in {"error", "invalid", "other document", "valid"},
           shown' = "valid" <=>
             /\ i < size /\ siblings = Path(i, size)
             /\ entry = Log[i + 1] /\ doc = entry.payload_hash
    PROVE  InclusionInv'
<1>1. /\ file' = [doc |-> doc, entry |-> entry, p |-> ProofFile(i, size, siblings)]
      /\ doc \in Documents /\ entry \in Entries /\ siblings \in Proofs
      /\ i \in 0 .. Len(Log) /\ size \in 1 .. Len(Log)
  BY DEF InclusionRun
<1>2. /\ file'.entry = entry /\ file'.doc = doc /\ file'.p = ProofFile(i, size, siblings)
      /\ file'.p.log_index = i /\ file'.p.tree_size = size
      /\ file'.p.root_hash = TreeHash(Log, size)
  BY ONLY <1>1, InclusionFields
<1>3. InclusionTypeOK'
  BY <1>1, <1>2 DEF InclusionTypeOK, InclusionFile, ProofFile
<1>4. file'.p = InclusionProof(size, i) <=> i < size /\ siblings = Path(i, size)
  <2>1. i \in Nat /\ size \in Nat
    BY ONLY <1>1, LogLength
  <2>2. file'.p = [log_index |-> i, tree_size |-> size,
                   root_hash |-> TreeHash(Log, size), proof |-> siblings]
    BY <1>2 DEF ProofFile
  <2> QED
    BY ONLY <2>1, <2>2, HonestProof
<1>5. InclusionIsExact'
  BY <1>2, <1>4 DEF InclusionIsExact
<1>6. Climbed'
  BY DEF Climbed
<1> QED
  BY <1>3, <1>5, <1>6 DEF InclusionInv

LEMMA InclusionStep ==
    InclusionInv /\ [InclusionNext]_inclusionVars => InclusionInv'
<1> SUFFICES ASSUME InclusionInv, [InclusionNext]_inclusionVars
             PROVE  InclusionInv'
  OBVIOUS
<1>0. InclusionTypeOK
  BY DEF InclusionInv
<1>1. ASSUME InclusionIdle,
             NEW doc \in Documents, NEW entry \in Entries, NEW siblings \in Proofs,
             NEW i \in 0 .. Len(Log), NEW size \in 1 .. Len(Log),
             VerifyInclusion(doc, entry,
                             [log_index |-> i, tree_size |-> size,
                              root_hash |-> TreeHash(Log, size), proof |-> siblings])
      PROVE  InclusionInv'
  <2>1. InclusionRun(doc, entry, i, size, siblings)'
    BY <1>1 DEF VerifyInclusion, InclusionRun, ProofFile
  <2>2. i \in Nat /\ size \in Nat /\ 0 < size
    BY LogLength
  <2>3. /\ idx' = i /\ n' = size /\ pi' = 0 /\ r' = HashLeaf(entry)
        /\ shown' = IF entry.payload_hash = NoPayload \/ i >= size THEN "error" ELSE "climbing"
    BY <1>1 DEF VerifyInclusion
  <2>4. CASE entry.payload_hash = NoPayload \/ i >= size
    <3>1. ~(i < size /\ doc = entry.payload_hash)
      BY <2>2, <2>4, EntriesHavePayloads
    <3>2. shown' = "error" /\ idx' \in Nat /\ n' \in Nat /\ pi' \in Nat
      BY <2>2, <2>3, <2>4
    <3> QED
      BY ONLY <2>1, <3>1, <3>2, VerdictAfter
  <2>5. CASE ~(entry.payload_hash = NoPayload \/ i >= size)
    <3>1. i < size /\ size - 1 \in Nat
      BY <2>2, <2>5
    <3>2. At(0, i) = i /\ Around(i, 0, i) /\ Around(size - 1, 0, size - 1)
      BY <2>2, <3>1, AroundLeaf
    <3>3. SubtreeSize(0, i, size) = 1
      BY <2>2, <3>1, Pow2Steps DEF SubtreeSize
    <3>4. ListAt(i, 0, size, 0, i) = << >>
      <4>1. Siblings(i, 0)[0][i][1] = << >>
        <5>1. i + 1 # 0 /\ 1 \in Nat /\ 0 \in Nat
          BY <2>2
        <5> QED
          BY ONLY <2>2, <5>1, SiblingsOfLeaf
      <4> QED
        BY <3>2, <3>3, <4>1 DEF ListAt, At
    <3>5. HashAt(Log, size, 0, i) = HashLeaf(Log[i + 1])
      <4>1. SubtreeHash(Log, 0, i, 1) = HashLeaf(Log[i + 1])
        BY <2>2, LeafHash
      <4> QED
        BY <3>2, <3>3, <4>1 DEF HashAt, At
    <3>6. HashLeaf(entry) = HashLeaf(Log[i + 1]) <=> entry = Log[i + 1]
      BY DEF HashLeaf
    <3>7. AgreesUpTo(siblings, << >>, 0)
      BY DEF AgreesUpTo
    <3>8. ClimbedWith(0, i, size, siblings, entry, HashLeaf(entry), i, 0)
      BY <3>2, <3>4, <3>5, <3>6, <3>7 DEF ClimbedWith
    <3>9. Len(siblings) \in Nat
      BY ProofsAreSequences
    <3> QED
      BY <2>1, <2>2, <2>3, <2>5, <3>1, <3>2, <3>8, <3>9, ClimbingAfter
  <2> QED
    BY <2>4, <2>5
<1>2. ASSUME shown = "climbing", TakeSibling \/ ProofTooShort \/ MoveUp \/ Compare
      PROVE  InclusionInv'
  <2>1. PICK doc, entry, i, size, siblings : InclusionRun(doc, entry, i, size, siblings)
    BY <1>0, <1>2, InclusionRuns
  <2>2. /\ entry.payload_hash # NoPayload
        /\ i \in Nat /\ size \in Nat /\ i < size
        /\ idx \in Nat /\ n \in Nat /\ n # 0 /\ pi \in Nat /\ pi <= Len(siblings)
        /\ \E k \in 0 .. size :
             /\ ClimbedWith(k, i, size, siblings, entry, r, idx, pi)
             /\ Around(size - 1, k, n - 1)
    BY <1>2, <2>1, ClimbingState
  <2>3. PICK k \in 0 .. size : /\ ClimbedWith(k, i, size, siblings, entry, r, idx, pi)
                               /\ Around(size - 1, k, n - 1)
    BY <2>2
  <2>4. k \in Nat /\ n - 1 \in Nat /\ size - 1 \in Nat
    BY <2>2
  <2>5. file.p.proof = siblings /\ file.p.root_hash = TreeHash(Log, size)
        /\ file.doc = doc /\ file.entry = entry
    BY ONLY <2>1, InclusionFields DEF InclusionRun
  <2>6. InclusionRun(doc, entry, i, size, siblings)'
    <3>1. file' = file
      BY <1>2 DEF TakeSibling, ProofTooShort, MoveUp, Compare
    <3> QED
      BY <2>1, <3>1 DEF InclusionRun
  <2>7. Len(siblings) \in Nat
    BY <2>1, ProofsAreSequences DEF InclusionRun
  <2>8. ASSUME n > 1, UpOneLevel
        PROVE  /\ idx' = idx \div 2 /\ idx' \in Nat /\ n' \in Nat /\ n' # 0
               /\ k + 1 \in 0 .. size /\ Around(size - 1, k + 1, n' - 1)
    <3>1. idx' = idx \div 2 /\ n' = (n + 1) \div 2
      BY <2>8 DEF UpOneLevel
    <3>2. idx' \in Nat /\ n' \in Nat /\ n' # 0 /\ n' - 1 = (n - 1) \div 2
      BY <2>2, <2>8, <3>1
    <3>3. k < (size - 1) + 1
      <4>1. n - 1 # 0
        BY <2>2, <2>8
      <4> QED
        BY ONLY <2>3, <2>4, <4>1, LevelsToGo
    <3>4. Around(size - 1, k + 1, (n - 1) \div 2)
      BY <2>3, <2>4, AroundHalf
    <3> QED
      BY <2>2, <2>4, <3>1, <3>2, <3>3, <3>4
  <2>9. CASE TakeSibling
    <3>1. /\ n > 1 /\ (idx % 2 = 1 \/ idx < n - 1) /\ pi < Len(siblings)
          /\ r' = IF idx % 2 = 1 THEN HashNode(siblings[pi + 1], r)
                                 ELSE HashNode(r, siblings[pi + 1])
          /\ pi' = pi + 1 /\ UpOneLevel /\ shown' = "climbing"
      BY <2>5, <2>9 DEF TakeSibling, HasSibling, NodesLeft
    <3>2. ClimbedWith(k + 1, i, size, siblings, entry, r', idx \div 2, pi + 1)
      <4>1. ClimbedWith(k + 1, i, size, siblings, entry,
                        IF idx % 2 = 1 THEN HashNode(siblings[pi + 1], r)
                                       ELSE HashNode(r, siblings[pi + 1]),
                        idx \div 2, pi + 1)
        BY ONLY <2>2, <2>3, <2>4, <3>1, ClimbTake
      <4> QED
        BY ONLY <3>1, <4>1
    <3>3. pi' \in Nat /\ pi' <= Len(siblings)
      BY <2>2, <2>7, <3>1
    <3> QED
      BY ONLY <2>2, <2>6, <2>8, <3>1, <3>2, <3>3, ClimbingAfter
  <2>10. CASE MoveUp
    <3>1. /\ n > 1 /\ ~(idx % 2 = 1 \/ idx < n - 1)
          /\ r' = r /\ pi' = pi /\ UpOneLevel /\ shown' = "climbing"
      BY <2>10 DEF MoveUp, HasSibling
    <3>2. ClimbedWith(k + 1, i, size, siblings, entry, r, idx \div 2, pi)
      BY ONLY <2>2, <2>3, <2>4, <3>1, ClimbUp
    <3> QED
      BY ONLY <2>2, <2>6, <2>8, <3>1, <3>2, ClimbingAfter
  <2>11. CASE ProofTooShort
    <3>1. /\ n > 1 /\ pi >= Len(siblings) /\ shown' = "error"
          /\ idx' = idx /\ n' = n /\ pi' = pi
      BY <2>2, <2>5, <2>7, <2>11 DEF ProofTooShort, NodesLeft
    <3>2. pi < Len(Path(i, size))
      <4>1. n - 1 # 0
        BY <2>2, <3>1
      <4> QED
        BY ONLY <2>2, <2>3, <2>4, <4>1, ClimbNotDone
    <3>3. siblings # Path(i, size)
      BY <2>2, <2>7, <3>1, <3>2
    <3> QED
      BY ONLY <2>2, <2>6, <3>1, <3>3, VerdictAfter
  <2>12. CASE Compare
    <3>1. n - 1 = 0 /\ Around(size - 1, k, 0)
      BY <2>2, <2>3, <2>12 DEF Compare
    <3>2. /\ shown' = InclusionVerdict
          /\ idx' \in Nat /\ n' \in Nat /\ pi' \in Nat
      BY <2>2, <2>12 DEF Compare
    <3>3. /\ pi = Len(Path(i, size))
          /\ r = TreeHash(Log, size) <=>
               entry = Log[i + 1] /\ AgreesUpTo(siblings, Path(i, size), pi)
      BY ONLY <2>2, <2>3, <3>1, ClimbEnd
    <3>4. siblings = Path(i, size) <=>
            Len(siblings) = Len(Path(i, size)) /\ AgreesUpTo(siblings, Path(i, size), Len(siblings))
      <4>1. siblings \in Seq({siblings[j] : j \in DOMAIN siblings})
        BY <2>1, ProofsAreSequences DEF InclusionRun
      <4>2. Path(i, size) \in Seq(Hash)
        BY <2>2, PathType
      <4> QED
        BY ONLY <4>1, <4>2, SameSequence DEF AgreesUpTo
    <3>5. siblings = Path(i, size) <=>
            ~(pi < Len(siblings)) /\ AgreesUpTo(siblings, Path(i, size), pi)
      BY <2>2, <2>7, <3>3, <3>4
    <3>6. /\ InclusionVerdict \in {"error", "invalid", "other document", "valid"}
          /\ InclusionVerdict = "valid" <=>
               ~(pi < Len(siblings)) /\ r = TreeHash(Log, size) /\ doc = entry.payload_hash
      BY <2>5 DEF InclusionVerdict, NodesLeft
    <3>7. InclusionVerdict = "valid" <=>
            /\ i < size /\ siblings = Path(i, size)
            /\ entry = Log[i + 1] /\ doc = entry.payload_hash
      BY ONLY <2>2, <3>3, <3>5, <3>6
    <3> QED
      BY ONLY <2>6, <3>2, <3>6, <3>7, VerdictAfter
  <2> QED
    BY <1>2, <2>9, <2>10, <2>11, <2>12
<1>3. CASE UNCHANGED inclusionVars
  BY <1>3 DEF inclusionVars, InclusionInv, InclusionTypeOK, Climbed, ClimbedTo, InclusionIsExact
<1>4. TakeSibling \/ ProofTooShort \/ MoveUp \/ Compare => shown = "climbing"
  BY DEF TakeSibling, ProofTooShort, MoveUp, Compare
<1> QED
  BY <1>1, <1>2, <1>3, <1>4 DEF InclusionNext

LEMMA InclusionInvInit == InclusionInit => InclusionInv
BY DEF InclusionInit, InclusionIdle, InclusionInv, InclusionTypeOK, Climbed, InclusionIsExact

\* What the climb has found out is kept by every step.
THEOREM InclusionInvariance == InclusionSpec => []InclusionInv
BY InclusionInvInit, InclusionStep, PTL DEF InclusionSpec

\* No honest proof is refused and no other is accepted (verify.js:106-193).
THEOREM InclusionExactness == InclusionSpec => []InclusionIsExact
<1>1. InclusionInv => InclusionIsExact
  BY DEF InclusionInv
<1> QED
  BY InclusionInvariance, <1>1, PTL

-----------------------------------------------------------------------------
(* The consistency page. *)

\* The subtrees further up do not end with the old tree's last leaf.
LEMMA IndivisibleUp ==
    ASSUME NEW k \in Nat, NEW m \in Nat, Indivisible(k, m)
    PROVE  Indivisible(k + 1, m)
<1> DEFINE w == Pow2[k + 1]
<1>1. w \in Nat /\ 0 < w /\ Pow2[(k + 1) + 1] = 2 * w
  <2>1. k + 1 \in Nat
    OBVIOUS
  <2> QED
    BY <2>1, Pow2Bounds, Pow2Steps
<1> HIDE DEF w
<1>2. ASSUME NEW q \in 1 .. m, m = q * (2 * w) PROVE FALSE
  <2>1. q * (2 * w) = (2 * q) * w
    BY <1>1
  <2>2. 2 * q \in 1 .. m
    <3>1. \A x \in Nat : (1 + x) * (2 * w) = 2 * w + x * (2 * w)
      BY <1>1
    <3>2. \A x \in Nat : x * w >= x
      <4>1. PICK v \in Nat : w = 1 + v
        <5>1. w - 1 \in Nat /\ w = 1 + (w - 1)
          BY <1>1
        <5> QED
          BY <5>1
      <4>2. \A x \in Nat : x * (1 + v) = x + x * v /\ x * v \in Nat
        OBVIOUS
      <4> QED
        BY <4>1, <4>2
    <3>3. 2 * q \in Nat /\ (2 * q) * w >= 2 * q
      BY <3>2
    <3>4. m >= 2 * q
      BY <1>2, <2>1, <3>3
    <3> QED
      BY <3>3, <3>4
  <2>3. m = (2 * q) * w
    BY <1>2, <2>1
  <2> QED
    BY <2>2, <2>3 DEF Indivisible, w
<1> QED
  BY <1>1, <1>2 DEF Indivisible

LEMMA NotMet ==
    ASSUME NEW k \in Nat, NEW m \in Nat, NEW size \in Nat, 0 < m, m < size,
           Indivisible(k, m), NEW p \in Nat, Around(m - 1, k + 1, p)
    PROVE  EndAt(size, k + 1, p) # m
<1> DEFINE w == Pow2[k + 1]
           a == At(k + 1, p)
<1>0. k + 1 \in Nat
  OBVIOUS
<1>1. w \in Nat /\ 0 < w /\ a \in Nat
  BY <1>0, Positions
<1>2. a <= m - 1 /\ m - 1 < a + w
  BY DEF Around
<1>3. a < size
  BY <1>1, <1>2
<1>4. EndAt(size, k + 1, p) = size \/ EndAt(size, k + 1, p) = a + w
  <2>1. a + SubtreeSize(k + 1, a, size) = size \/ a + SubtreeSize(k + 1, a, size) = a + w
    BY <1>0, <1>1, <1>3, SubtreeSizes
  <2> QED
    BY <2>1 DEF EndAt, At
<1>5. a + w # m
  <2>1. (p + 1) * w = p * w + w /\ p + 1 <= (p + 1) * w
    <3>1. PICK v \in Nat : w = 1 + v
      <4>1. w - 1 \in Nat /\ w = 1 + (w - 1)
        BY <1>1
      <4> HIDE DEF w
      <4> QED
        BY <4>1
    <3> HIDE DEF w
    <3>2. (p + 1) * (1 + v) = (p + 1) + (p + 1) * v /\ (p + 1) * v \in Nat
      OBVIOUS
    <3>3. (p + 1) * w = p * w + w
      BY <1>1
    <3> QED
      BY <3>1, <3>2, <3>3
  <2>2. a + w = (p + 1) * w
    BY <2>1 DEF At
  <2>3. ASSUME a + w = m PROVE FALSE
    <3>1. m = (p + 1) * w
      BY <2>2, <2>3
    <3>2. p + 1 \in 1 .. m
      BY <2>1, <3>1
    <3> QED
      BY <3>1, <3>2 DEF Indivisible
  <2> QED
    BY <2>3
<1> QED
  BY <1>1, <1>4, <1>5

SameOn(log1, log2, a, m) == \A j \in a + 1 .. m : log1[j] = log2[j]

\* What the page holds at a node around the old tree's last leaf: the number
\* of nodes used, and the old and the new hash.
RebuiltWith(k, m, size, oldLog, nodes, q, count, first, second) ==
    /\ count = Len(ListAt(m - 1, m, size, k, q))
    /\ (first = HashAt(oldLog, m, k, q) /\ second = HashAt(Log, size, k, q))
         <=> /\ AgreesUpTo(nodes, ListAt(m - 1, m, size, k, q), count)
             /\ SameOn(oldLog, Log, At(k, q), m)

LEMMA HashesOfEqualLeaves ==
    ASSUME NEW log1, NEW log2, NEW h \in Nat, NEW a \in Nat, NEW s \in Nat,
           0 < s, s <= Pow2[h]
    PROVE  SubtreeHash(log1, h, a, s) = SubtreeHash(log2, h, a, s)
             <=> SameOn(log1, log2, a, a + s)
<1>1. s \in 1 .. Pow2[h]
  BY Pow2Bounds
<1>2. SubtreeHash(log1, h, a, s) = SubtreeHash(log2, h, a, s)
        <=> \A j \in a + 1 .. a + s : log1[j] = log2[j]
  BY ONLY <1>1, HashIsInjective, h \in Nat, a \in Nat
<1> QED
  BY ONLY <1>2 DEF SameOn

LEMMA ListOf ==
    ASSUME NEW m \in Nat, NEW size \in Nat, NEW k \in Nat, NEW q \in Nat,
           0 < m, m < size, Around(m - 1, k, q)
    PROVE  /\ ListAt(m - 1, m, size, k, q) \in Seq(Hash)
           /\ At(k, q) < m /\ At(k, q) < size /\ m <= At(k, q) + Pow2[k]
           /\ At(k, q) \in Nat /\ Pow2[k] \in Nat
<1>1. At(k, q) \in Nat /\ Pow2[k] \in Nat
  BY Positions
<1>2. At(k, q) <= m - 1 /\ m - 1 < At(k, q) + Pow2[k]
  BY DEF Around
<1>3. At(k, q) < size /\ m - 1 \in Nat
  BY <1>1, <1>2
<1>4. ListAt(m - 1, m, size, k, q) \in Seq(Hash)
  BY <1>3, NodeTypes
<1> QED
  BY <1>1, <1>2, <1>3, <1>4

\* With a sibling to the right, which is new: the old tree goes on alone.
LEMMA RebuildNew ==
    ASSUME NEW k \in Nat, NEW m \in Nat, NEW size \in Nat, 0 < m, m < size,
           Indivisible(k, m), NEW q \in Nat, Around(m - 1, k, q),
           NEW y \in Nat, Around(size - 1, k, y), q % 2 # 1, q # y,
           NEW oldLog, NEW nodes, NEW count, NEW first, NEW second,
           RebuiltWith(k, m, size, oldLog, nodes, q, count, first, second)
    PROVE  RebuiltWith(k + 1, m, size, oldLog, nodes, q \div 2, count + 1,
                       first, HashNode(second, nodes[count + 1]))
<1>1. PICK p \in Nat : p = q \div 2 /\ q = Left(p)
  BY Halves
<1>2. Around(m - 1, k + 1, p)
  <2>1. m - 1 \in Nat
    OBVIOUS
  <2> QED
    BY <1>1, <2>1, AroundHalf
<1>3. EndAt(size, k + 1, p) # m
  BY <1>2, NotMet
<1> DEFINE low == ListAt(m - 1, m, size, k, q)
           high == ListAt(m - 1, m, size, k + 1, p)
<1>4. /\ low \in Seq(Hash)
      /\ At(k, q) < m /\ At(k, q) < size /\ m <= At(k, q) + Pow2[k]
      /\ At(k, q) \in Nat /\ Pow2[k] \in Nat
  BY ListOf
<1>5. At(k, q) + Pow2[k] < size
  <2>1. q < y
    <3>1. m - 1 \in Nat /\ size - 1 \in Nat /\ m - 1 <= size - 1
      OBVIOUS
    <3>2. q <= y
      BY <3>1, LeavesInOrder
    <3> QED
      BY <3>2
  <2>2. At(k, q) + Pow2[k] <= At(k, y)
    BY <2>1, SubtreesInOrder
  <2>3. At(k, y) \in Nat /\ At(k, y) <= size - 1
    BY Positions DEF Around
  <2> QED
    BY <1>4, <2>2, <2>3
<1>6. m - 1 \in Nat /\ m - 1 < At(k, q) + Pow2[k]
  BY <1>4
<1>7. HashAt(Log, size, k + 1, p) =
        HashNode(HashAt(Log, size, k, q), HashAt(Log, size, k, Right(p)))
  BY <1>1, <1>5, PairedNode
<1>8. high = Add(low, HashAt(Log, size, k, Right(p)))
  <2>1. /\ At(k, Left(p)) + Pow2[k] < size
        /\ m - 1 < At(k, Left(p)) + Pow2[k] /\ m - 1 \in Nat
    BY ONLY <1>1, <1>5, <1>6
  <2>2. PICK i \in Nat : i = m - 1 /\ i < At(k, Left(p)) + Pow2[k]
    BY ONLY <2>1
  <2>3. \A j, met \in Nat : EndAt(size, k + 1, p) # met =>
          (j < At(k, Left(p)) + Pow2[k] =>
             ListAt(j, met, size, k + 1, p) =
               Add(ListAt(j, met, size, k, Left(p)), HashAt(Log, size, k, Right(p))))
    BY ONLY <2>1, PairedNode, k \in Nat, size \in Nat, p \in Nat
  <2>4. ListAt(i, m, size, k + 1, p) =
          Add(ListAt(i, m, size, k, Left(p)), HashAt(Log, size, k, Right(p)))
    BY ONLY <1>3, <2>2, <2>3, m \in Nat
  <2> QED
    BY ONLY <1>1, <2>2, <2>4 DEF low, high
<1>9. HashAt(Log, size, k, Right(p)) \in Hash
  <2>1. At(k, Right(p)) = At(k, q) + Pow2[k] /\ Right(p) \in Nat
    BY <1>1, RightChild, ChildrenType
  <2> QED
    BY <1>5, <2>1, NodeTypes
<1>10. HashAt(oldLog, m, k + 1, p) = HashAt(oldLog, m, k, q)
  <2>1. At(k, Left(p)) < m /\ m <= At(k, Left(p)) + Pow2[k]
    BY ONLY <1>1, <1>4
  <2>2. \A log : HashAt(log, m, k + 1, p) = HashAt(log, m, k, Left(p))
    BY ONLY <2>1, AloneNode, k \in Nat, m \in Nat, p \in Nat
  <2> QED
    BY ONLY <1>1, <2>2
<1>11. At(k + 1, p) = At(k, q)
  BY <1>1, LeftChild
<1> HIDE DEF low, high
<1>12. /\ Len(Add(low, HashAt(Log, size, k, Right(p)))) = Len(low) + 1
       /\ AgreesUpTo(nodes, Add(low, HashAt(Log, size, k, Right(p))), Len(low) + 1)
            <=> /\ AgreesUpTo(nodes, low, Len(low))
                /\ nodes[Len(low) + 1] = HashAt(Log, size, k, Right(p))
  <2>1. PICK hash \in Hash : hash = HashAt(Log, size, k, Right(p))
    BY ONLY <1>9
  <2>2. low \in Seq(Hash)
    BY ONLY <1>4
  <2>3. Len(Add(low, hash)) = Len(low) + 1
    BY ONLY <2>2, AddProperties
  <2>4. AgreesUpTo(nodes, Add(low, hash), Len(low) + 1)
          <=> AgreesUpTo(nodes, low, Len(low)) /\ nodes[Len(low) + 1] = hash
    BY ONLY <2>2, AddAgrees
  <2> QED
    BY ONLY <2>1, <2>3, <2>4
<1>13. /\ count = Len(low)
       /\ first = HashAt(oldLog, m, k, q) /\ second = HashAt(Log, size, k, q)
            <=> AgreesUpTo(nodes, low, count) /\ SameOn(oldLog, Log, At(k, q), m)
  BY DEF RebuiltWith, low
<1>14. HashNode(second, nodes[count + 1]) = HashAt(Log, size, k + 1, p)
         <=> /\ second = HashAt(Log, size, k, q)
             /\ nodes[count + 1] = HashAt(Log, size, k, Right(p))
  BY ONLY <1>7, NodesAreInjective
<1>15. RebuiltWith(k + 1, m, size, oldLog, nodes, p, count + 1,
                   first, HashNode(second, nodes[count + 1]))
  BY ONLY <1>8, <1>10, <1>11, <1>12, <1>13, <1>14 DEF RebuiltWith, high
<1> QED
  BY ONLY <1>1, <1>15

\* The last node of both trees has no sibling.
LEMMA RebuildAlone ==
    ASSUME NEW k \in Nat, NEW m \in Nat, NEW size \in Nat, 0 < m, m < size,
           Indivisible(k, m), NEW q \in Nat, Around(m - 1, k, q),
           Around(size - 1, k, q), q % 2 # 1,
           NEW oldLog, NEW nodes, NEW count, NEW first, NEW second,
           RebuiltWith(k, m, size, oldLog, nodes, q, count, first, second)
    PROVE  RebuiltWith(k + 1, m, size, oldLog, nodes, q \div 2, count, first, second)
<1>1. PICK p \in Nat : p = q \div 2 /\ q = Left(p)
  BY Halves
<1>2. /\ At(k, q) < m /\ At(k, q) < size /\ m <= At(k, q) + Pow2[k]
      /\ At(k, q) \in Nat /\ Pow2[k] \in Nat
  BY ListOf
<1>3. size <= At(k, q) + Pow2[k]
  <2>1. size - 1 < At(k, q) + Pow2[k]
    BY DEF Around
  <2> QED
    BY <1>2, <2>1
<1>4. /\ HashAt(Log, size, k + 1, p) = HashAt(Log, size, k, q)
      /\ HashAt(oldLog, m, k + 1, p) = HashAt(oldLog, m, k, q)
      /\ ListAt(m - 1, m, size, k + 1, p) = ListAt(m - 1, m, size, k, q)
  <2>1. m - 1 \in Nat /\ m # size
    OBVIOUS
  <2> QED
    BY <1>1, <1>2, <1>3, <2>1, AloneNode
<1>5. At(k + 1, p) = At(k, q)
  BY <1>1, LeftChild
<1> QED
  BY <1>1, <1>4, <1>5 DEF RebuiltWith

\* With a sibling to the left, which is in both trees.
LEMMA RebuildShared ==
    ASSUME NEW k \in Nat, NEW m \in Nat, NEW size \in Nat, 0 < m, m < size,
           Indivisible(k, m), NEW q \in Nat, Around(m - 1, k, q), q % 2 = 1,
           NEW oldLog, NEW nodes, NEW count, NEW first, NEW second,
           RebuiltWith(k, m, size, oldLog, nodes, q, count, first, second)
    PROVE  RebuiltWith(k + 1, m, size, oldLog, nodes, q \div 2, count + 1,
                       HashNode(nodes[count + 1], first), HashNode(nodes[count + 1], second))
<1>1. PICK p \in Nat : p = q \div 2 /\ q = Right(p)
  BY Halves
<1>2. Around(m - 1, k + 1, p) /\ m - 1 \in Nat
  <2>1. m - 1 \in Nat
    OBVIOUS
  <2> QED
    BY <1>1, <2>1, AroundHalf
<1>3. EndAt(size, k + 1, p) # m
  BY <1>2, NotMet
<1> DEFINE low == ListAt(m - 1, m, size, k, q)
           high == ListAt(m - 1, m, size, k + 1, p)
           a == At(k, Left(p))
           w == Pow2[k]
           new == HashAt(Log, size, k, Left(p))
           old == HashAt(oldLog, m, k, Left(p))
<1>4. /\ low \in Seq(Hash)
      /\ At(k, q) < m /\ At(k, q) < size /\ At(k, q) \in Nat /\ w \in Nat
  BY ListOf
<1>5. At(k, q) = a + w /\ a \in Nat /\ Left(p) \in Nat /\ 0 < w
  BY <1>1, RightChild, ChildrenType, Positions
<1>6. a + w < m /\ a + w < size /\ a + w <= m - 1 /\ a < size
  BY <1>4, <1>5
<1>7. HashAt(Log, size, k + 1, p) = HashNode(new, HashAt(Log, size, k, q))
  BY <1>1, <1>6, PairedNode
<1>8. HashAt(oldLog, m, k + 1, p) = HashNode(old, HashAt(oldLog, m, k, q))
  BY <1>1, <1>6, PairedNode
<1>9. high = Add(low, new)
  BY <1>1, <1>2, <1>3, <1>6, PairedNode
<1>10. new \in Hash
  BY <1>5, <1>6, NodeTypes
<1>11. old = new <=> SameOn(oldLog, Log, a, a + w)
  <2>1. SubtreeSize(k, a, m) = w /\ SubtreeSize(k, a, size) = w
    <3>1. a + Pow2[k] <= m /\ a < m /\ a + Pow2[k] <= size /\ a < size /\ a \in Nat
      BY <1>4, <1>5, <1>6
    <3> HIDE DEF a
    <3> QED
      BY ONLY <3>1, SubtreeSizes, k \in Nat, m \in Nat, size \in Nat DEF w
  <2>2. SubtreeHash(oldLog, k, a, w) = SubtreeHash(Log, k, a, w) <=> SameOn(oldLog, Log, a, a + w)
    <3>1. w <= Pow2[k] /\ w \in Nat
      BY <1>5, Pow2Bounds
    <3> HIDE DEF a, w
    <3> QED
      BY ONLY <1>5, <3>1, HashesOfEqualLeaves, k \in Nat
  <2> QED
    BY <2>1, <2>2 DEF HashAt, At
<1>12. At(k + 1, p) = a
  BY LeftChild
<1>13. SameOn(oldLog, Log, a, m) <=> SameOn(oldLog, Log, a, a + w) /\ SameOn(oldLog, Log, a + w, m)
  <2> HIDE DEF a, w
  <2> QED
    BY <1>4, <1>5, <1>6 DEF SameOn
<1> HIDE DEF low, high, a, w, new, old
<1>14. /\ Len(Add(low, new)) = Len(low) + 1
       /\ AgreesUpTo(nodes, Add(low, new), Len(low) + 1)
            <=> AgreesUpTo(nodes, low, Len(low)) /\ nodes[Len(low) + 1] = new
  <2>1. low \in Seq(Hash)
    BY <1>4
  <2>2. Len(Add(low, new)) = Len(low) + 1
    BY ONLY <2>1, <1>10, AddProperties
  <2>3. AgreesUpTo(nodes, Add(low, new), Len(low) + 1)
          <=> AgreesUpTo(nodes, low, Len(low)) /\ nodes[Len(low) + 1] = new
    BY ONLY <2>1, <1>10, AddAgrees
  <2> QED
    BY <2>2, <2>3
<1>15. /\ count = Len(low)
       /\ first = HashAt(oldLog, m, k, q) /\ second = HashAt(Log, size, k, q)
            <=> AgreesUpTo(nodes, low, count) /\ SameOn(oldLog, Log, a + w, m)
  BY <1>5 DEF RebuiltWith, low
<1>16. /\ HashNode(nodes[count + 1], first) = HashAt(oldLog, m, k + 1, p)
            <=> nodes[count + 1] = old /\ first = HashAt(oldLog, m, k, q)
       /\ HashNode(nodes[count + 1], second) = HashAt(Log, size, k + 1, p)
            <=> nodes[count + 1] = new /\ second = HashAt(Log, size, k, q)
  BY ONLY <1>7, <1>8, NodesAreInjective
<1>17. RebuiltWith(k + 1, m, size, oldLog, nodes, p, count + 1,
                   HashNode(nodes[count + 1], first), HashNode(nodes[count + 1], second))
  BY ONLY <1>9, <1>11, <1>12, <1>13, <1>14, <1>15, <1>16 DEF RebuiltWith, high
<1> QED
  BY ONLY <1>1, <1>17

\* The start: the last full subtree of the old tree.
LEMMA StartUp ==
    ASSUME NEW k \in Nat, NEW m \in Nat, NEW q \in Nat, q % 2 = 1,
           Around(m - 1, k, q), 0 < m,
           m <= At(k, q) + Pow2[k], At(k, q) + Pow2[k] <= m,
           IsPowerOfTwo(m) <=> IsPowerOfTwo(q + 1)
    PROVE  /\ Around(m - 1, k + 1, q \div 2)
           /\ m = At(k + 1, q \div 2) + Pow2[k + 1]
           /\ IsPowerOfTwo(m) <=> IsPowerOfTwo((q \div 2) + 1)
<1>1. PICK p \in Nat : p = q \div 2 /\ q = Right(p)
  BY Halves
<1>2. Around(m - 1, k + 1, q \div 2)
  <2>1. m - 1 \in Nat
    OBVIOUS
  <2> QED
    BY <2>1, AroundHalf
<1>3. m = At(k + 1, p) + Pow2[k + 1]
  <2>1. At(k, q) = At(k + 1, p) + Pow2[k]
    BY <1>1, LeftChild, RightChild
  <2>2. At(k + 1, p) \in Nat /\ Pow2[k] \in Nat /\ Pow2[k + 1] = 2 * Pow2[k]
    <3>1. k + 1 \in Nat
      OBVIOUS
    <3> QED
      BY <3>1, Positions, Pow2Steps
  <2> QED
    BY <2>1, <2>2
<1>4. IsPowerOfTwo(2 * (p + 1)) <=> IsPowerOfTwo(p + 1)
  <2>1. p + 1 \in Nat /\ p + 1 > 0
    OBVIOUS
  <2> QED
    BY ONLY <2>1, PowersOfTwo
<1>5. q + 1 = 2 * (p + 1)
  BY <1>1 DEF Right
<1> QED
  BY ONLY <1>1, <1>2, <1>3, <1>4, <1>5, IsPowerOfTwo(m) <=> IsPowerOfTwo(q + 1)

LEMMA LastFullSubtree ==
    ASSUME NEW k \in Nat, NEW m \in Nat, NEW q \in Nat, 0 < m,
           Around(m - 1, k, q), q % 2 # 1, m = At(k, q) + Pow2[k]
    PROVE  Indivisible(k, m)
<1> DEFINE w == Pow2[k]
<1>1. w \in Nat /\ 0 < w /\ Pow2[k + 1] = 2 * w
  BY Pow2Bounds, Pow2Steps
<1>2. ASSUME NEW c \in 1 .. m, m = c * Pow2[k + 1] PROVE FALSE
  <2>1. PICK b \in Nat : c = b + 1
    <3>1. c - 1 \in Nat /\ c = (c - 1) + 1
      OBVIOUS
    <3> QED
      BY <3>1
  <2>2. Right(b) \in Nat /\ At(k, Right(b)) \in Nat
    BY ChildrenType, Positions
  <2>3. At(k, Right(b)) + w = m
    <3> HIDE DEF w
    <3>1. (2 * b + 1) * w + w = (b + 1) * (2 * w)
      BY <1>1
    <3>2. At(k, Right(b)) + w = (2 * b + 1) * w + w
      BY DEF At, Right, w
    <3>3. m = (b + 1) * (2 * w)
      BY ONLY <1>1, <1>2, <2>1
    <3> QED
      BY ONLY <3>1, <3>2, <3>3
  <2>4. Around(m - 1, k, Right(b))
    <3>1. At(k, Right(b)) <= m - 1 /\ m - 1 < At(k, Right(b)) + w
      <4> HIDE DEF w
      <4> QED
        BY ONLY <1>1, <2>2, <2>3, m \in Nat
    <3> QED
      BY <3>1 DEF Around
  <2>5. q = Right(b)
    <3>1. m - 1 \in Nat
      OBVIOUS
    <3> QED
      BY ONLY <2>2, <2>4, <3>1, SamePosition, k \in Nat, q \in Nat, Around(m - 1, k, q)
  <2> QED
    BY <2>5 DEF Right
<1> QED
  BY <1>2 DEF Indivisible

LEMMA RebuildBegin ==
    ASSUME NEW k \in Nat, NEW m \in Nat, NEW size \in Nat, 0 < m, m < size,
           NEW q \in Nat, Around(m - 1, k, q), q % 2 # 1, m = At(k, q) + Pow2[k],
           IsPowerOfTwo(m) <=> IsPowerOfTwo(q + 1),
           NEW oldLog, NEW nodes
    PROVE  /\ IsPowerOfTwo(m) =>
                RebuiltWith(k, m, size, oldLog, nodes, q, 0,
                            TreeHash(oldLog, m), TreeHash(oldLog, m))
           /\ ~IsPowerOfTwo(m) =>
                RebuiltWith(k, m, size, oldLog, nodes, q, 1, nodes[1], nodes[1])
<1> DEFINE a == At(k, q)
           w == Pow2[k]
           new == HashAt(Log, size, k, q)
           old == HashAt(oldLog, m, k, q)
           list == ListAt(m - 1, m, size, k, q)
<1>1. a \in Nat /\ w \in Nat /\ 0 < w /\ a + w = m /\ a < m /\ a < size /\ a + w <= size
  <2>1. a \in Nat /\ w \in Nat /\ 0 < w
    BY Positions
  <2>2. m = a + w
    OBVIOUS
  <2> HIDE DEF a, w
  <2> QED
    BY <2>1, <2>2
<1>2. SubtreeSize(k, a, m) = w /\ SubtreeSize(k, a, size) = w
  <2> HIDE DEF a
  <2> QED
    BY ONLY <1>1, SubtreeSizes, k \in Nat, m \in Nat, size \in Nat DEF w
<1>3. old = new <=> SameOn(oldLog, Log, a, m)
  <2>1. SubtreeHash(oldLog, k, a, w) = SubtreeHash(Log, k, a, w) <=> SameOn(oldLog, Log, a, a + w)
    <3>1. w <= Pow2[k]
      BY <1>1
    <3> HIDE DEF a, w
    <3> QED
      BY ONLY <1>1, <3>1, HashesOfEqualLeaves, k \in Nat
  <2>2. old = SubtreeHash(oldLog, k, a, w) /\ new = SubtreeHash(Log, k, a, w)
    BY <1>2 DEF HashAt, At
  <2> HIDE DEF a, w, old, new
  <2> QED
    BY ONLY <1>1, <2>1, <2>2
<1>4. list = OneUnlessTop(a, new)
  <2>1. Siblings(m - 1, m)[k][a][w] = OneUnlessTop(a, SubtreeHash(Log, k, a, w))
    <3>1. m - 1 \in Nat /\ a + w <= m /\ m <= a + w /\ a \in Nat /\ w \in Nat
      BY <1>1
    <3> HIDE DEF a, w
    <3> QED
      BY ONLY <3>1, SiblingsFirst, k \in Nat, m \in Nat
  <2> QED
    BY <1>2, <2>1 DEF ListAt, HashAt, At
<1>5. IsPowerOfTwo(m) <=> q = 0
  <2>1. PICK p \in Nat : q = Left(p)
    BY Halves
  <2>2. q + 1 = 2 * p + 1 /\ (q = 0 <=> p = 0)
    BY <2>1 DEF Left
  <2>3. IsPowerOfTwo(2 * p + 1) <=> p = 0
    BY ONLY PowersOfTwo, p \in Nat
  <2> QED
    BY ONLY <2>2, <2>3, IsPowerOfTwo(m) <=> IsPowerOfTwo(q + 1)
<1>6. q = 0 <=> a = 0
  <2>1. q # 0 => w <= a
    BY LaterPosition
  <2>2. q = 0 => a = 0
    BY FirstPosition
  <2> HIDE DEF a, w
  <2> QED
    BY <1>1, <2>1, <2>2
<1>7. IsPowerOfTwo(m) =>
        RebuiltWith(k, m, size, oldLog, nodes, q, 0, TreeHash(oldLog, m), TreeHash(oldLog, m))
  <2> SUFFICES ASSUME IsPowerOfTwo(m)
               PROVE  RebuiltWith(k, m, size, oldLog, nodes, q, 0,
                                  TreeHash(oldLog, m), TreeHash(oldLog, m))
    OBVIOUS
  <2>1. q = 0 /\ a = 0
    BY <1>5, <1>6
  <2>2. list = << >> /\ Len(list) = 0
    BY <1>4, <2>1 DEF OneUnlessTop
  <2>3. old = TreeHash(oldLog, m)
    <3>1. m <= Pow2[k]
      BY <1>1, <2>1
    <3>2. HashAt(oldLog, m, k, 0) = TreeHash(oldLog, m)
      BY <3>1, TopHash
    <3> QED
      BY <2>1, <3>2
  <2>4. AgreesUpTo(nodes, list, 0)
    BY DEF AgreesUpTo
  <2> HIDE DEF a, old, new, list
  <2> QED
    BY ONLY <1>3, <2>2, <2>3, <2>4 DEF RebuiltWith, a, old, new, list
<1>8. ~IsPowerOfTwo(m) =>
        RebuiltWith(k, m, size, oldLog, nodes, q, 1, nodes[1], nodes[1])
  <2> SUFFICES ASSUME ~IsPowerOfTwo(m)
               PROVE  RebuiltWith(k, m, size, oldLog, nodes, q, 1, nodes[1], nodes[1])
    OBVIOUS
  <2>1. a # 0
    BY <1>5, <1>6
  <2>2. list = <<new>>
    BY <1>4, <2>1 DEF OneUnlessTop
  <2> HIDE DEF a, old, new, list
  <2>3. Len(list) = 1 /\ list[1] = new
    BY <2>2
  <2>4. AgreesUpTo(nodes, list, 1) <=> nodes[1] = new
    BY <2>3 DEF AgreesUpTo
  <2> QED
    BY ONLY <1>3, <2>3, <2>4 DEF RebuiltWith, a, old, new, list
<1> QED
  BY ONLY <1>7, <1>8

\* The end: one node is left, and it is the whole tree, old and new.
LEMMA RebuiltAll ==
    ASSUME NEW m \in Nat, NEW size \in Nat, 0 < m, m < size, NEW k \in 0 .. size,
           NEW q \in Nat, Around(m - 1, k, q), Around(size - 1, k, 0),
           NEW oldLog, NEW nodes, NEW count, NEW first, NEW second,
           RebuiltWith(k, m, size, oldLog, nodes, q, count, first, second)
    PROVE  /\ count = Len(Consistency(m, size))
           /\ first = TreeHash(oldLog, m) /\ second = TreeHash(Log, size)
                <=> /\ AgreesUpTo(nodes, Consistency(m, size), count)
                    /\ SameUpTo(oldLog, Log, m)
<1>1. m - 1 \in Nat /\ size - 1 \in Nat /\ m - 1 <= size - 1 /\ k \in Nat /\ k <= size
  OBVIOUS
<1>2. q = 0
  <2>1. q <= 0
    BY ONLY <1>1, LeavesInOrder, q \in Nat, 0 \in Nat, Around(m - 1, k, q), Around(size - 1, k, 0)
  <2> QED
    BY <2>1
<1>3. size <= Pow2[k]
  <2>1. (size - 1) + 1 <= Pow2[k]
    BY ONLY <1>1, LevelsToGo, 0 \in Nat, Around(size - 1, k, 0)
  <2> QED
    BY <2>1
<1>4. m <= Pow2[k]
  BY <1>1, <1>3, Pow2Bounds
<1>5. HashAt(oldLog, m, k, 0) = TreeHash(oldLog, m)
  BY <1>1, <1>4, TopHash
<1>6. HashAt(Log, size, k, 0) = TreeHash(Log, size)
  BY <1>1, <1>3, TopHash
<1>7. ListAt(m - 1, m, size, k, 0) = Consistency(m, size)
  <2>1. ListAt(m - 1, m, size, k, 0) = Siblings(m - 1, m)[size][0][size]
    BY ONLY <1>1, <1>3, TopList, m \in Nat, size \in Nat
  <2> QED
    BY <2>1 DEF Consistency
<1>8. SameOn(oldLog, Log, At(k, 0), m) <=> SameUpTo(oldLog, Log, m)
  <2>1. At(k, 0) = 0
    BY <1>1, FirstPosition
  <2> QED
    BY <2>1 DEF SameOn, SameUpTo
<1> QED
  BY ONLY <1>2, <1>5, <1>6, <1>7, <1>8,
          RebuiltWith(k, m, size, oldLog, nodes, q, count, first, second) DEF RebuiltWith

\* Before that, nodes are missing.
LEMMA RebuildNotDone ==
    ASSUME NEW m \in Nat, NEW size \in Nat, 0 < m, m < size, NEW k \in Nat,
           Indivisible(k, m), NEW q \in Nat, Around(m - 1, k, q), Pow2[k] < size
    PROVE  Len(ListAt(m - 1, m, size, k, q)) < Len(Consistency(m, size))
<1> DEFINE S == {d \in Nat : Indivisible(k + d, m)}
<1>1. 0 \in S
  BY k + 0 = k
<1>2. ASSUME NEW d \in Nat, d \in S PROVE d + 1 \in S
  <2>1. k + d \in Nat /\ k + (d + 1) = (k + d) + 1
    OBVIOUS
  <2>2. Indivisible((k + d) + 1, m)
    BY <1>2, <2>1, IndivisibleUp
  <2> QED
    BY <2>1, <2>2
<1> HIDE DEF S
<1>3. Nat \subseteq S
  BY <1>1, <1>2, AllNaturals
<1>4. ASSUME NEW d \in Nat, NEW p \in Nat, Around(m - 1, k + d + 1, p)
      PROVE  EndAt(size, k + d + 1, p) # m
  <2>1. Indivisible(k + d, m) /\ k + d \in Nat
    BY <1>3 DEF S
  <2> QED
    BY ONLY <1>4, <2>1, NotMet, m \in Nat, size \in Nat, 0 < m, m < size
<1>5. m - 1 \in Nat /\ m - 1 < size
  OBVIOUS
<1>6. Len(ListAt(m - 1, m, size, k, q)) < Len(Siblings(m - 1, m)[size][0][size])
  BY ONLY <1>4, <1>5, MoreToCome, m \in Nat, size \in Nat, k \in Nat, q \in Nat,
          Around(m - 1, k, q), Pow2[k] < size
<1> QED
  BY <1>6 DEF Consistency

LEMMA ConsistencyType ==
    ASSUME NEW m \in Nat, NEW size \in Nat
    PROVE  Consistency(m, size) \in Seq(Hash)
<1>1. CASE m = 0
  BY <1>1 DEF Consistency
<1>2. CASE m # 0
  <2>1. m - 1 \in Nat /\ 0 \in Nat
    BY <1>2
  <2>2. Siblings(m - 1, m)[size][0][size] \in Seq(Hash)
    BY ONLY <2>1, SiblingsType, m \in Nat, size \in Nat
  <2> QED
    BY <1>2, <2>2 DEF Consistency
<1> QED
  BY <1>1, <1>2

\* A proper prefix takes at least one node: some subtree of the old tree is the
\* last full one.
LEMMA SomeNode ==
    ASSUME NEW m \in Nat, NEW size \in Nat, 0 < m, m < size
    PROVE  Consistency(m, size) # << >>
<1> DEFINE S == {k \in Nat : Indivisible(k, m)}
<1>1. m \in S
  <2>1. ASSUME NEW q \in 1 .. m, m = q * Pow2[m + 1] PROVE FALSE
    <3>1. PICK v \in Nat : Pow2[m + 1] = m + 1 + v
      <4>1. Pow2[m + 1] \in Nat /\ m + 1 < Pow2[m + 1]
        BY Pow2Bounds
      <4>2. Pow2[m + 1] - (m + 1) \in Nat /\ Pow2[m + 1] = m + 1 + (Pow2[m + 1] - (m + 1))
        BY <4>1
      <4> QED
        BY <4>2
    <3>2. PICK x \in Nat : q = 1 + x
      <4>1. q - 1 \in Nat /\ q = 1 + (q - 1)
        OBVIOUS
      <4> QED
        BY <4>1
    <3>3. (1 + x) * (m + 1 + v) = (m + 1 + v) + x * (m + 1 + v) /\ x * (m + 1 + v) \in Nat
      OBVIOUS
    <3> QED
      BY <2>1, <3>1, <3>2, <3>3
  <2> QED
    BY <2>1 DEF Indivisible
<1>2. PICK k \in S : \A j \in S : k <= j
  <2>1. S \in SUBSET Nat /\ S # {}
    BY <1>1
  <2> HIDE DEF S
  <2> QED
    BY <2>1, LeastNatural
<1>3. k \in Nat /\ Indivisible(k, m)
  BY <1>2
<1>4. \E c \in 1 .. m : m = c * Pow2[k]
  <2>1. CASE k = 0
    BY <2>1, Pow2Steps
  <2>2. CASE k # 0
    <3>1. k - 1 \in Nat /\ ~(k <= k - 1) /\ (k - 1) + 1 = k
      BY <1>3, <2>2
    <3>2. k - 1 \notin S
      BY <1>2, <3>1
    <3>3. ~Indivisible(k - 1, m)
      BY <3>1, <3>2
    <3> QED
      BY <3>1, <3>3 DEF Indivisible
  <2> QED
    BY <2>1, <2>2
<1>5. PICK b \in Nat : m = At(k, b) + Pow2[k]
  <2>1. PICK c \in 1 .. m : m = c * Pow2[k]
    BY <1>4
  <2>2. PICK b \in Nat : c = b + 1
    <3>1. c - 1 \in Nat /\ c = (c - 1) + 1
      OBVIOUS
    <3> QED
      BY <3>1
  <2>3. (b + 1) * Pow2[k] = b * Pow2[k] + Pow2[k]
    <3> DEFINE w == Pow2[k]
    <3>1. w \in Nat
      BY <1>3, Pow2Bounds
    <3> HIDE DEF w
    <3>2. (b + 1) * w = b * w + w
      BY ONLY <3>1, b \in Nat
    <3> QED
      BY ONLY <3>2 DEF w
  <2> QED
    BY <2>1, <2>2, <2>3 DEF At
<1>6. At(k, b) \in Nat /\ Pow2[k] \in Nat /\ 0 < Pow2[k]
  BY <1>3, Positions
<1>7. Around(m - 1, k, b) /\ Pow2[k] < size
  BY <1>5, <1>6 DEF Around
<1>8. Len(ListAt(m - 1, m, size, k, b)) < Len(Consistency(m, size))
  BY ONLY <1>3, <1>7, RebuildNotDone, m \in Nat, size \in Nat, 0 < m, m < size, b \in Nat
<1>9. ListAt(m - 1, m, size, k, b) \in Seq(Hash)
  BY ONLY <1>3, <1>7, ListOf, m \in Nat, size \in Nat, 0 < m, m < size, b \in Nat
<1>10. Len(ListAt(m - 1, m, size, k, b)) \in Nat
  BY ONLY <1>9
<1>11. Len(Consistency(m, size)) # 0
  BY ONLY <1>8, <1>10
<1> QED
  BY <1>11

\* The state of a run by the outcome and the numbers that go with it.
RebuiltAt(where, k, m, size, oldLog, nodes, q, y, count, first, second) ==
    /\ Around(m - 1, k, q) /\ Around(size - 1, k, y)
    /\ where = "start" =>
         /\ m = At(k, q) + Pow2[k]
         /\ IsPowerOfTwo(m) <=> IsPowerOfTwo(q + 1)
    /\ where = "nodes" =>
         /\ Indivisible(k, m)
         /\ RebuiltWith(k, m, size, oldLog, nodes, q, count, first, second)
    /\ where = "shift" =>
         /\ Indivisible(k, m)
         /\ q # 0 /\ (q % 2 = 1 \/ q = y)
         /\ count > 0
         /\ first = HashNode(nodes[count], first.right)
         /\ second = HashNode(nodes[count], second.right)
         /\ RebuiltWith(k, m, size, oldLog, nodes, q, count - 1, first.right, second.right)

LEMMA LastLeaf ==
    ASSUME NEW k \in Nat, NEW m \in Nat, 0 < m, NEW q \in Nat
    PROVE  q * Pow2[k] < m /\ m <= q * Pow2[k] + Pow2[k] <=> Around(m - 1, k, q)
<1>1. At(k, q) \in Nat /\ Pow2[k] \in Nat
  BY Positions
<1>2. At(k, q) < m /\ m <= At(k, q) + Pow2[k] <=> Around(m - 1, k, q)
  BY <1>1 DEF Around
<1> QED
  BY <1>2 DEF At

LEMMA OldNode ==
    ASSUME NEW k \in Nat, NEW m \in Nat, 0 < m, NEW q \in Nat, Around(m - 1, k, q), NEW oldLog
    PROVE  HashAt(oldLog, m, k, q) = SubtreeHash(oldLog, k, q * Pow2[k], m - q * Pow2[k])
<1>1. At(k, q) \in Nat /\ Pow2[k] \in Nat
  BY Positions
<1>2. m - At(k, q) <= Pow2[k]
  BY <1>1 DEF Around
<1>3. SubtreeSize(k, At(k, q), m) = m - At(k, q)
  BY <1>2 DEF SubtreeSize
<1> QED
  BY <1>3 DEF HashAt, At

LEMMA RebuiltState ==
    \A k, m, size \in Nat : \A oldLog, nodes :
      0 < m /\ 0 < size /\ fn \in Nat /\ sn \in Nat =>
        (RebuiltTo(k, m, size, oldLog, nodes) <=>
           RebuiltAt(outcome, k, m, size, oldLog, nodes, fn, sn, used, fr, sr))
<1> SUFFICES ASSUME NEW k \in Nat, NEW m \in Nat, NEW size \in Nat, NEW oldLog, NEW nodes,
                    0 < m, 0 < size, fn \in Nat, sn \in Nat
             PROVE  RebuiltTo(k, m, size, oldLog, nodes) <=>
                      RebuiltAt(outcome, k, m, size, oldLog, nodes, fn, sn, used, fr, sr)
  BY Zenon
<1>1. AtHeight(k, m, size) <=> Around(m - 1, k, fn) /\ Around(size - 1, k, sn)
  BY LastLeaf DEF AtHeight
<1>2. ASSUME Around(m - 1, k, fn), NEW count, NEW first, NEW second
      PROVE  RootsRight(k, m, size, oldLog, nodes, count, first, second) <=>
               RebuiltWith(k, m, size, oldLog, nodes, fn, count, first, second)
  <2>1. HashAt(oldLog, m, k, fn) = SubtreeHash(oldLog, k, fn * Pow2[k], m - fn * Pow2[k])
    BY <1>2, OldNode
  <2>2. HashAt(Log, size, k, fn) =
          SubtreeHash(Log, k, fn * Pow2[k], SubtreeSize(k, fn * Pow2[k], size))
    BY DEF HashAt, At
  <2>3. ListAt(m - 1, m, size, k, fn) =
          Siblings(m - 1, m)[k][fn * Pow2[k]][SubtreeSize(k, fn * Pow2[k], size)]
    BY DEF ListAt, At
  <2> QED
    BY ONLY <2>1, <2>2, <2>3 DEF RootsRight, RebuiltWith, AgreesUpTo, SameOn, At
<1>3. AtHeight(k, m, size) =>
        (RebuiltTo(k, m, size, oldLog, nodes) <=>
           RebuiltAt(outcome, k, m, size, oldLog, nodes, fn, sn, used, fr, sr))
  BY ONLY <1>1, <1>2 DEF RebuiltTo, RebuiltAt, At, OnOldBorder
<1> QED
  BY ONLY <1>1, <1>3 DEF RebuiltTo, RebuiltAt

LEMMA RebuiltStateNext ==
    (\A k, m, size \in Nat : \A oldLog, nodes :
      0 < m /\ 0 < size /\ fn \in Nat /\ sn \in Nat =>
        (RebuiltTo(k, m, size, oldLog, nodes) <=>
           RebuiltAt(outcome, k, m, size, oldLog, nodes, fn, sn, used, fr, sr)))'
BY RebuiltState, PTL

ConsistencyRun(oldLog, m, size, nodes) ==
    /\ oldLog \in OldLogs /\ nodes \in Nodes
    /\ m \in 0 .. Len(oldLog) /\ size \in 0 .. Len(Log)
    /\ given.log = oldLog /\ given.p.proof = nodes
    /\ given.p \in [from_tree_size : Nat, to_tree_size : Nat, proof : Nodes]
    /\ given.old.size = m /\ given.old.root = TreeHash(oldLog, m)
    /\ given.new.size = size /\ given.new.root = TreeHash(Log, size)

SizesRight(m, size) == given.p.from_tree_size = m /\ given.p.to_tree_size = size

LEMMA OldLogLength == \A oldLog \in OldLogs : Len(oldLog) \in Nat
BY OldLogsAreSequences

LEMMA ConsistencyRuns ==
    ASSUME ConsistencyTypeOK, ~ConsistencyIdle
    PROVE  \E oldLog, m, size, nodes : ConsistencyRun(oldLog, m, size, nodes)
<1>1. ConsistencyRun(given.log, given.old.size, given.new.size, given.p.proof)
  BY DEF ConsistencyTypeOK, ConsistencyRun
<1> QED
  BY <1>1

\* The verdict is right for a run's files when it is "valid" exactly for the
\* service's proof and a prefix.
LEMMA HonestConsistency ==
    ASSUME NEW m \in Nat, NEW size \in Nat, size <= Len(Log), m <= size,
           NEW p \in [from_tree_size : Nat, to_tree_size : Nat, proof : Nodes]
    PROVE  p = ConsistencyProof(Len(Log), m, size) <=>
             p.from_tree_size = m /\ p.to_tree_size = size /\ p.proof = Consistency(m, size)
<1>1. ~(m > size) /\ ~(size > Len(Log))
  BY LogLength
<1>2. ConsistencyProof(Len(Log), m, size) =
        [from_tree_size |-> m, to_tree_size |-> size, proof |-> Consistency(m, size)]
  BY ONLY <1>1 DEF ConsistencyProof
<1> QED
  BY <1>2

LEMMA NoConsistencyProof ==
    ASSUME NEW m \in Nat, NEW size \in Nat, m > size,
           NEW p \in [from_tree_size : Nat, to_tree_size : Nat, proof : Nodes]
    PROVE  p # ConsistencyProof(Len(Log), m, size)
<1>1. ConsistencyProof(Len(Log), m, size) = [err |-> "from must be <= to"]
  BY DEF ConsistencyProof, InvalidRange
<1>2. "proof" \in DOMAIN p /\ "proof" \notin DOMAIN [err |-> "from must be <= to"]
  OBVIOUS
<1> QED
  BY ONLY <1>1, <1>2

\* What a run that goes on is at, in constants.
LEMMA RunningState ==
    ASSUME ConsistencyInv, Running,
           NEW oldLog, NEW m, NEW size, NEW nodes, ConsistencyRun(oldLog, m, size, nodes)
    PROVE  /\ m \in Nat /\ size \in Nat /\ 0 < m /\ m < size /\ size <= Len(Log)
           /\ fn \in Nat /\ sn \in Nat /\ used \in 0 .. Len(nodes)
           /\ SizesRight(m, size) /\ nodes # << >>
           /\ \E k \in 0 .. size :
                RebuiltAt(outcome, k, m, size, oldLog, nodes, fn, sn, used, fr, sr)
<1>1. m \in Nat /\ size \in Nat /\ size <= Len(Log)
  BY LogLength, OldLogLength DEF ConsistencyRun
<1>2. /\ 0 < m /\ m < size /\ fn \in Nat /\ sn \in Nat /\ used \in 0 .. Len(nodes)
      /\ SizesRight(m, size) /\ nodes # << >>
  BY DEF ConsistencyInv, ConsistencyTypeOK, ConsistencyRun, SizesRight
<1>3. PICK k \in 0 .. size : RebuiltTo(k, m, size, oldLog, nodes)
  BY DEF ConsistencyInv, Rebuilt, ConsistencyRun
<1>4. RebuiltAt(outcome, k, m, size, oldLog, nodes, fn, sn, used, fr, sr)
  <2>1. k \in Nat /\ 0 < size
    BY <1>1, <1>2
  <2> QED
    BY ONLY <1>1, <1>2, <1>3, <2>1, RebuiltState
<1> QED
  BY <1>1, <1>2, <1>4

\* The invariant after a step, from the same.
LEMMA RunningAfter ==
    ASSUME NEW oldLog, NEW m, NEW size, NEW nodes, ConsistencyRun(oldLog, m, size, nodes)',
           SizesRight(m, size)', 0 < m, m < size, nodes # << >>,
           outcome' \in {"start", "nodes", "shift"},
           fn' \in Nat, sn' \in Nat, used' \in 0 .. Len(nodes), NEW k \in 0 .. size,
           RebuiltAt(outcome', k, m, size, oldLog, nodes, fn', sn', used', fr', sr')
    PROVE  ConsistencyInv'
<1>1. m \in Nat /\ size \in Nat /\ size <= Len(Log) /\ k \in Nat /\ 0 < size
  BY LogLength, OldLogLength DEF ConsistencyRun
<1>2. ConsistencyTypeOK'
  BY DEF ConsistencyTypeOK, ConsistencyRun, SizesRight, ConsistencyIdle
<1>3. RebuiltTo(k, m, size, oldLog, nodes)'
  BY ONLY <1>1, RebuiltStateNext, 0 < m, fn' \in Nat, sn' \in Nat,
          RebuiltAt(outcome', k, m, size, oldLog, nodes, fn', sn', used', fr', sr')
<1>4. Rebuilt'
  BY <1>3 DEF Rebuilt, ConsistencyRun
<1>5. ConsistencyIsExact'
  BY DEF ConsistencyIsExact
<1> QED
  BY <1>2, <1>4, <1>5 DEF ConsistencyInv

\* The invariant after a verdict.
LEMMA OutcomeAfter ==
    ASSUME NEW oldLog, NEW m, NEW size, NEW nodes, ConsistencyRun(oldLog, m, size, nodes)',
           outcome' \in {"error", "invalid", "valid"},
           0 < m => (outcome' = "valid" <=>
                       /\ m <= size /\ SizesRight(m, size)'
                       /\ nodes = Consistency(m, size)
                       /\ SameUpTo(oldLog, Log, m))
    PROVE  ConsistencyInv'
<1>1. m \in Nat /\ size \in Nat /\ size <= Len(Log)
  BY ONLY LogLength, OldLogLength, ConsistencyRun(oldLog, m, size, nodes)' DEF ConsistencyRun
<1>2. /\ given'.log = oldLog /\ given'.p.proof = nodes
      /\ given'.p \in [from_tree_size : Nat, to_tree_size : Nat, proof : Nodes]
      /\ given'.old.size = m /\ given'.new.size = size
  BY ONLY ConsistencyRun(oldLog, m, size, nodes)' DEF ConsistencyRun
<1>3. ConsistencyTypeOK' /\ Rebuilt'
  BY ONLY ConsistencyRun(oldLog, m, size, nodes)', outcome' \in {"error", "invalid", "valid"}
     DEF ConsistencyTypeOK, ConsistencyRun, ConsistencyIdle, Running, Rebuilt
<1>4. given'.p = ConsistencyProof(Len(Log), m, size) <=>
        m <= size /\ SizesRight(m, size)' /\ nodes = Consistency(m, size)
  <2>1. PICK p \in [from_tree_size : Nat, to_tree_size : Nat, proof : Nodes] : p = given'.p
    BY <1>2
  <2>2. SizesRight(m, size)' <=> p.from_tree_size = m /\ p.to_tree_size = size
    BY <2>1 DEF SizesRight
  <2>3. p.proof = nodes
    BY <1>2, <2>1
  <2>4. CASE m <= size
    <3>1. p = ConsistencyProof(Len(Log), m, size) <=>
            p.from_tree_size = m /\ p.to_tree_size = size /\ p.proof = Consistency(m, size)
      BY ONLY <1>1, <2>4, HonestConsistency,
              p \in [from_tree_size : Nat, to_tree_size : Nat, proof : Nodes]
    <3> QED
      BY ONLY <2>1, <2>2, <2>3, <2>4, <3>1
  <2>5. CASE ~(m <= size)
    <3>1. m > size
      BY <1>1, <2>5
    <3>2. p # ConsistencyProof(Len(Log), m, size)
      BY ONLY <1>1, <3>1, NoConsistencyProof,
              p \in [from_tree_size : Nat, to_tree_size : Nat, proof : Nodes]
    <3> QED
      BY ONLY <2>1, <2>5, <3>2
  <2> QED
    BY <2>4, <2>5
<1>5. ConsistencyIsExact'
  BY <1>2, <1>4 DEF ConsistencyIsExact
<1> QED
  BY <1>3, <1>5 DEF ConsistencyInv

\* Two trees of one size.
LEMMA SameSize ==
    ASSUME NEW m \in Nat, 0 < m, NEW oldLog
    PROVE  /\ Consistency(m, m) = << >>
           /\ TreeHash(oldLog, m) = TreeHash(Log, m) <=> SameUpTo(oldLog, Log, m)
<1>1. Siblings(m - 1, m)[m][0][m] = OneUnlessTop(0, SubtreeHash(Log, m, 0, m))
  <2>1. m - 1 \in Nat /\ 0 \in Nat /\ 0 + m <= m /\ m <= 0 + m
    OBVIOUS
  <2> QED
    BY ONLY <2>1, SiblingsFirst, m \in Nat
<1>2. Consistency(m, m) = << >>
  BY <1>1 DEF Consistency, OneUnlessTop
<1>3. SubtreeHash(oldLog, m, 0, m) = SubtreeHash(Log, m, 0, m) <=> SameOn(oldLog, Log, 0, 0 + m)
  <2>1. m <= Pow2[m] /\ 0 \in Nat
    BY Pow2Bounds
  <2> QED
    BY ONLY <2>1, HashesOfEqualLeaves, m \in Nat, 0 < m
<1>4. SameOn(oldLog, Log, 0, 0 + m) <=> SameUpTo(oldLog, Log, m)
  BY DEF SameOn, SameUpTo
<1> QED
  BY ONLY <1>2, <1>3, <1>4 DEF TreeHash

LEMMA ConsistencyClick ==
    ASSUME ConsistencyInv, ConsistencyIdle,
           NEW oldLog \in OldLogs, NEW m \in 0 .. Len(oldLog), NEW size \in 0 .. Len(Log),
           NEW from \in {m, 0}, NEW to \in {size, 0}, NEW nodes \in Nodes,
           VerifyConsistency(oldLog, Checkpoint(oldLog, m), Checkpoint(Log, size),
                             [from_tree_size |-> from, to_tree_size |-> to, proof |-> nodes])
    PROVE  ConsistencyInv'
<1> DEFINE first == FirstOutcome(Checkpoint(oldLog, m), Checkpoint(Log, size),
                      [from_tree_size |-> from, to_tree_size |-> to, proof |-> nodes])
<1>1. m \in Nat /\ size \in Nat /\ size <= Len(Log) /\ from \in Nat /\ to \in Nat
  BY LogLength, OldLogLength
<1>2. /\ given' = [log |-> oldLog, old |-> Checkpoint(oldLog, m), new |-> Checkpoint(Log, size),
                   p |-> [from_tree_size |-> from, to_tree_size |-> to, proof |-> nodes]]
      /\ outcome' = first
      /\ fn' = m - 1 /\ sn' = size - 1 /\ used' = used
  BY DEF VerifyConsistency, Checkpoint
<1>3. ConsistencyRun(oldLog, m, size, nodes)'
  BY <1>1, <1>2 DEF ConsistencyRun, Checkpoint
<1>4. SizesRight(m, size)' <=> from = m /\ to = size
  BY <1>2 DEF SizesRight
<1>5. used = 0
  BY DEF ConsistencyInv, ConsistencyTypeOK
<1>6. first =
        IF m # from \/ size # to \/ m > size THEN "error"
        ELSE IF m = size
        THEN IF nodes = << >> /\ TreeHash(oldLog, m) = TreeHash(Log, size)
             THEN "valid" ELSE "invalid"
        ELSE IF m = 0 THEN "valid"
        ELSE IF nodes = << >> THEN "invalid" ELSE "start"
  BY DEF FirstOutcome, Checkpoint
<1> HIDE DEF first
<1>7. CASE m # from \/ size # to \/ m > size
  <2>1. ~(m <= size /\ SizesRight(m, size)') /\ outcome' = "error"
    BY <1>1, <1>2, <1>4, <1>6, <1>7
  <2> QED
    BY ONLY <1>3, <2>1, OutcomeAfter
<1>8. CASE m = from /\ size = to /\ m = size
  <2>1. outcome' = IF nodes = << >> /\ TreeHash(oldLog, m) = TreeHash(Log, size)
                   THEN "valid" ELSE "invalid"
    BY <1>1, <1>2, <1>6, <1>8
  <2>2. ASSUME 0 < m
        PROVE  outcome' = "valid" <=> nodes = Consistency(m, size) /\ SameUpTo(oldLog, Log, m)
    <3>1. /\ Consistency(m, m) = << >>
          /\ TreeHash(oldLog, m) = TreeHash(Log, m) <=> SameUpTo(oldLog, Log, m)
      BY ONLY <1>1, <2>2, SameSize
    <3> QED
      BY <1>8, <2>1, <3>1
  <2>3. m <= size /\ SizesRight(m, size)' /\ outcome' \in {"error", "invalid", "valid"}
    BY <1>1, <1>4, <1>8, <2>1
  <2> QED
    BY ONLY <1>3, <2>2, <2>3, OutcomeAfter
<1>9. CASE m = from /\ size = to /\ m < size /\ m = 0
  <2>1. outcome' = "valid" /\ ~(0 < m)
    BY <1>1, <1>2, <1>6, <1>9
  <2> QED
    BY ONLY <1>3, <2>1, OutcomeAfter
<1>10. CASE m = from /\ size = to /\ m < size /\ 0 < m /\ nodes = << >>
  <2>1. outcome' = "invalid"
    BY <1>1, <1>2, <1>6, <1>10
  <2>2. nodes # Consistency(m, size)
    <3>1. Consistency(m, size) # << >>
      BY ONLY <1>1, <1>10, SomeNode
    <3> QED
      BY ONLY <1>10, <3>1
  <2> QED
    BY ONLY <1>3, <2>1, <2>2, OutcomeAfter
<1>11. CASE m = from /\ size = to /\ m < size /\ 0 < m /\ nodes # << >>
  <2>1. outcome' = "start"
    BY <1>1, <1>2, <1>6, <1>11
  <2>2. fn' \in Nat /\ sn' \in Nat /\ m - 1 \in Nat /\ size - 1 \in Nat
    BY <1>1, <1>2, <1>11
  <2>3. used' \in 0 .. Len(nodes)
    <3>1. Len(nodes) \in Nat
      BY NodesAreSequences
    <3> QED
      BY <1>2, <1>5, <3>1
  <2>4. Around(m - 1, 0, m - 1) /\ Around(size - 1, 0, size - 1) /\ At(0, m - 1) = m - 1
    BY <2>2, AroundLeaf
  <2>5. m = At(0, m - 1) + Pow2[0] /\ (m - 1) + 1 = m
    BY <1>1, <2>4, Pow2Steps
  <2>6. RebuiltAt("start", 0, m, size, oldLog, nodes, m - 1, size - 1, used', fr', sr')
    BY ONLY <2>4, <2>5 DEF RebuiltAt
  <2>7. /\ RebuiltAt(outcome', 0, m, size, oldLog, nodes, fn', sn', used', fr', sr')
        /\ 0 \in 0 .. size
    BY <1>1, <1>2, <2>1, <2>6
  <2>8. SizesRight(m, size)' /\ outcome' \in {"start", "nodes", "shift"}
    BY <1>4, <1>11, <2>1
  <2> QED
    BY ONLY <1>3, <1>11, <2>2, <2>3, <2>7, <2>8, RunningAfter
<1> QED
  BY <1>1, <1>7, <1>8, <1>9, <1>10, <1>11

ConsistencyGoesOn ==
    \/ StartHigher \/ Begin \/ NoLevelLeft \/ TakeShared \/ ShiftEven \/ EndShift
    \/ TakeNew \/ CompareRoots

LEMMA ConsistencyStepOn ==
    ASSUME ConsistencyInv, Running, ConsistencyGoesOn
    PROVE  ConsistencyInv'
<1>0. PICK oldLog, m, size, nodes : ConsistencyRun(oldLog, m, size, nodes)
  BY ConsistencyRuns DEF ConsistencyInv, Running, ConsistencyIdle
<1>1. /\ m \in Nat /\ size \in Nat /\ 0 < m /\ m < size /\ size <= Len(Log)
      /\ fn \in Nat /\ sn \in Nat /\ used \in 0 .. Len(nodes)
      /\ SizesRight(m, size) /\ nodes # << >>
      /\ \E k \in 0 .. size :
           RebuiltAt(outcome, k, m, size, oldLog, nodes, fn, sn, used, fr, sr)
  BY <1>0, RunningState
<1>2. PICK k \in 0 .. size :
        RebuiltAt(outcome, k, m, size, oldLog, nodes, fn, sn, used, fr, sr)
  BY <1>1
<1>3. k \in Nat /\ m - 1 \in Nat /\ size - 1 \in Nat /\ Len(nodes) \in Nat
  <2>1. Len(nodes) \in Nat
    BY <1>0, NodesAreSequences DEF ConsistencyRun
  <2> QED
    BY <1>1, <2>1
<1>4. given' = given
  BY DEF ConsistencyGoesOn, StartHigher, Begin, NoLevelLeft, TakeShared, ShiftEven,
         EndShift, TakeNew, CompareRoots
<1>5. ConsistencyRun(oldLog, m, size, nodes)' /\ SizesRight(m, size)'
  BY <1>0, <1>1, <1>4 DEF ConsistencyRun, SizesRight
<1>6. /\ given.p.proof = nodes /\ given.old.size = m
      /\ given.old.root = TreeHash(oldLog, m) /\ given.new.root = TreeHash(Log, size)
  BY <1>0 DEF ConsistencyRun
<1>7. Around(m - 1, k, fn) /\ Around(size - 1, k, sn)
  BY <1>2 DEF RebuiltAt
<1>8. /\ fn \div 2 \in Nat /\ sn \div 2 \in Nat
      /\ Around(m - 1, k + 1, fn \div 2) /\ Around(size - 1, k + 1, sn \div 2)
  BY ONLY <1>1, <1>3, <1>7, Halves, AroundHalf
\* Another level is in the tree when one of the positions is not its first.
<1>9. sn # 0 => Pow2[k] < size /\ k + 1 \in 0 .. size
  <2>1. sn # 0 => Pow2[k] < (size - 1) + 1 /\ k < (size - 1) + 1
    BY ONLY <1>1, <1>3, <1>7, LevelsToGo
  <2> QED
    BY <1>1, <1>3, <2>1
<1>10. fn # 0 => sn # 0
  <2>1. fn <= sn
    <3>1. m - 1 <= size - 1
      BY <1>1
    <3> QED
      BY ONLY <1>1, <1>3, <1>7, <3>1, LeavesInOrder
  <2> QED
    BY <1>1, <2>1
<1>11. outcome \in {"nodes", "shift"} => Indivisible(k, m) /\ Indivisible(k + 1, m)
  <2>1. outcome \in {"nodes", "shift"} => Indivisible(k, m)
    BY <1>2 DEF RebuiltAt
  <2> QED
    BY <1>1, <1>3, <2>1, IndivisibleUp
\* What a step up comes to.
<1>12. ASSUME sn # 0, outcome' \in {"start", "nodes", "shift"},
              fn' = fn \div 2, sn' = sn \div 2, used' \in 0 .. Len(nodes),
              RebuiltAt(outcome', k + 1, m, size, oldLog, nodes, fn \div 2, sn \div 2,
                        used', fr', sr')
       PROVE  ConsistencyInv'
  BY ONLY <1>1, <1>5, <1>8, <1>9, <1>12, RunningAfter
<1>13. CASE StartHigher
  <2>1. /\ outcome = "start" /\ fn % 2 = 1 /\ outcome' = "start"
        /\ fn' = fn \div 2 /\ sn' = sn \div 2 /\ used' = used
    BY <1>13 DEF StartHigher, NextLevel
  <2>2. m = At(k, fn) + Pow2[k] /\ (IsPowerOfTwo(m) <=> IsPowerOfTwo(fn + 1))
    BY <1>2, <2>1 DEF RebuiltAt
  <2>3. /\ m = At(k + 1, fn \div 2) + Pow2[k + 1]
        /\ IsPowerOfTwo(m) <=> IsPowerOfTwo((fn \div 2) + 1)
    <3>1. m \in Nat /\ 0 < m /\ fn \in Nat /\ fn % 2 = 1 /\ k \in Nat
      BY ONLY <1>1, <1>3, <2>1
    <3>2. At(k, fn) + Pow2[k] <= m /\ m <= At(k, fn) + Pow2[k]
      BY ONLY <2>2, <3>1
    <3>3. Around(m - 1, k, fn) /\ (IsPowerOfTwo(m) <=> IsPowerOfTwo(fn + 1))
      BY ONLY <1>7, <2>2
    <3> QED
      BY ONLY <3>1, <3>2, <3>3, StartUp
  <2>4. RebuiltAt("start", k + 1, m, size, oldLog, nodes, fn \div 2, sn \div 2, used', fr', sr')
    BY ONLY <1>8, <2>3 DEF RebuiltAt
  <2>5. fn # 0
    BY <1>1, <2>1
  <2> QED
    BY ONLY <1>1, <1>10, <1>12, <2>1, <2>4, <2>5
<1>14. CASE Begin
  <2>1. /\ outcome = "start" /\ fn % 2 = 0 /\ outcome' = "nodes"
        /\ fn' = fn /\ sn' = sn /\ sr' = fr'
        /\ IF IsPowerOfTwo(m) THEN used' = 0 /\ fr' = TreeHash(oldLog, m)
                              ELSE used' = 1 /\ fr' = nodes[1]
    BY <1>6, <1>14 DEF Begin
  <2>2. m = At(k, fn) + Pow2[k] /\ (IsPowerOfTwo(m) <=> IsPowerOfTwo(fn + 1)) /\ fn % 2 # 1
    BY <1>1, <1>2, <2>1 DEF RebuiltAt
  <2>3. Indivisible(k, m)
    BY ONLY <1>1, <1>3, <1>7, <2>2, LastFullSubtree
  <2>4. /\ IsPowerOfTwo(m) =>
             RebuiltWith(k, m, size, oldLog, nodes, fn, 0, TreeHash(oldLog, m), TreeHash(oldLog, m))
        /\ ~IsPowerOfTwo(m) =>
             RebuiltWith(k, m, size, oldLog, nodes, fn, 1, nodes[1], nodes[1])
    BY ONLY <1>1, <1>3, <1>7, <2>2, RebuildBegin
  <2>5. RebuiltWith(k, m, size, oldLog, nodes, fn, used', fr', sr')
    BY ONLY <2>1, <2>4
  <2>6. RebuiltAt("nodes", k, m, size, oldLog, nodes, fn, sn, used', fr', sr')
    BY ONLY <1>7, <2>3, <2>5 DEF RebuiltAt
  <2>7. used' \in 0 .. Len(nodes)
    <3>1. Len(nodes) # 0
      <4>1. nodes \in Seq({nodes[j] : j \in DOMAIN nodes})
        BY <1>0, NodesAreSequences DEF ConsistencyRun
      <4> QED
        BY <1>1, <4>1
    <3> QED
      BY <1>3, <2>1, <3>1
  <2> QED
    BY ONLY <1>1, <1>2, <1>5, <2>1, <2>6, <2>7, RunningAfter
<1>15. CASE TakeShared
  <2>1. /\ outcome = "nodes" /\ used < Len(nodes) /\ sn # 0 /\ (fn % 2 = 1 \/ fn = sn)
        /\ outcome' = "shift" /\ fn' = fn /\ sn' = sn /\ used' = used + 1
        /\ fr' = HashNode(nodes[used + 1], fr) /\ sr' = HashNode(nodes[used + 1], sr)
    BY <1>6, <1>15 DEF TakeShared, MoreNodes, Node, OnOldBorder
  <2>2. RebuiltWith(k, m, size, oldLog, nodes, fn, used, fr, sr)
    BY <1>2, <2>1 DEF RebuiltAt
  <2>3. fr'.right = fr /\ sr'.right = sr
    BY <2>1 DEF HashNode
  <2>4. used' > 0 /\ used' - 1 = used /\ used' \in 0 .. Len(nodes) /\ fn # 0
    BY <1>1, <1>3, <2>1
  <2>5. RebuiltAt("shift", k, m, size, oldLog, nodes, fn, sn, used', fr', sr')
    <3>1. fr' = HashNode(nodes[used'], fr'.right) /\ sr' = HashNode(nodes[used'], sr'.right)
      BY ONLY <2>1, <2>3
    <3>2. RebuiltWith(k, m, size, oldLog, nodes, fn, used' - 1, fr'.right, sr'.right)
      BY ONLY <2>2, <2>3, <2>4
    <3> QED
      BY ONLY <1>7, <1>11, <2>1, <2>4, <3>1, <3>2 DEF RebuiltAt
  <2> QED
    BY ONLY <1>1, <1>2, <1>5, <2>1, <2>4, <2>5, RunningAfter
<1>16. CASE ShiftEven
  <2>1. /\ outcome = "shift" /\ fn # 0 /\ fn % 2 = 0 /\ outcome' = "shift"
        /\ fn' = fn \div 2 /\ sn' = sn \div 2 /\ used' = used /\ fr' = fr /\ sr' = sr
    BY <1>16 DEF ShiftEven, NextLevel
  <2>2. /\ fn = sn /\ used > 0
        /\ fr = HashNode(nodes[used], fr.right) /\ sr = HashNode(nodes[used], sr.right)
        /\ RebuiltWith(k, m, size, oldLog, nodes, fn, used - 1, fr.right, sr.right)
    BY <1>1, <1>2, <2>1 DEF RebuiltAt
  <2>3. RebuiltWith(k + 1, m, size, oldLog, nodes, fn \div 2, used - 1, fr.right, sr.right)
    <3>1. Around(size - 1, k, fn) /\ fn % 2 # 1
      BY <1>7, <2>1, <2>2
    <3> QED
      BY ONLY <1>1, <1>3, <1>7, <1>11, <2>1, <2>2, <3>1, RebuildAlone
  <2>4. fn \div 2 # 0 /\ fn \div 2 = sn \div 2
    BY <1>1, <2>1, <2>2
  <2>5. RebuiltAt("shift", k + 1, m, size, oldLog, nodes, fn \div 2, sn \div 2, used', fr', sr')
    <3>1. RebuiltAt("shift", k + 1, m, size, oldLog, nodes, fn \div 2, sn \div 2, used, fr, sr)
      BY ONLY <1>8, <1>11, <2>1, <2>2, <2>3, <2>4 DEF RebuiltAt
    <3> QED
      BY ONLY <2>1, <3>1
  <2> QED
    BY ONLY <1>1, <1>10, <1>12, <2>1, <2>5
<1>17. CASE EndShift
  <2>1. /\ outcome = "shift" /\ ~(fn # 0 /\ fn % 2 = 0) /\ outcome' = "nodes"
        /\ fn' = fn \div 2 /\ sn' = sn \div 2 /\ used' = used /\ fr' = fr /\ sr' = sr
    BY <1>17 DEF EndShift, NextLevel
  <2>2. /\ fn # 0 /\ used > 0
        /\ fr = HashNode(nodes[used], fr.right) /\ sr = HashNode(nodes[used], sr.right)
        /\ RebuiltWith(k, m, size, oldLog, nodes, fn, used - 1, fr.right, sr.right)
    BY <1>1, <1>2, <2>1 DEF RebuiltAt
  <2>3. fn % 2 = 1 /\ (used - 1) + 1 = used
    BY <1>1, <2>1, <2>2
  <2>4. RebuiltWith(k + 1, m, size, oldLog, nodes, fn \div 2, (used - 1) + 1,
                    HashNode(nodes[(used - 1) + 1], fr.right),
                    HashNode(nodes[(used - 1) + 1], sr.right))
    BY ONLY <1>1, <1>3, <1>7, <1>11, <2>1, <2>2, <2>3, RebuildShared
  <2>5. RebuiltWith(k + 1, m, size, oldLog, nodes, fn \div 2, used', fr', sr')
    BY ONLY <2>1, <2>2, <2>3, <2>4
  <2>6. RebuiltAt("nodes", k + 1, m, size, oldLog, nodes, fn \div 2, sn \div 2, used', fr', sr')
    BY ONLY <1>8, <1>11, <2>1, <2>5 DEF RebuiltAt
  <2> QED
    BY ONLY <1>1, <1>10, <1>12, <2>1, <2>2, <2>6
<1>18. CASE TakeNew
  <2>1. /\ outcome = "nodes" /\ used < Len(nodes) /\ sn # 0 /\ fn % 2 # 1 /\ fn # sn
        /\ outcome' = "nodes" /\ fn' = fn \div 2 /\ sn' = sn \div 2 /\ used' = used + 1
        /\ fr' = fr /\ sr' = HashNode(sr, nodes[used + 1])
    BY <1>6, <1>18 DEF TakeNew, MoreNodes, Node, OnOldBorder, NextLevel
  <2>2. RebuiltWith(k, m, size, oldLog, nodes, fn, used, fr, sr)
    BY <1>2, <2>1 DEF RebuiltAt
  <2>3. RebuiltWith(k + 1, m, size, oldLog, nodes, fn \div 2, used + 1,
                    fr, HashNode(sr, nodes[used + 1]))
    BY ONLY <1>1, <1>3, <1>7, <1>11, <2>1, <2>2, RebuildNew
  <2>4. RebuiltAt("nodes", k + 1, m, size, oldLog, nodes, fn \div 2, sn \div 2, used', fr', sr')
    BY ONLY <1>8, <1>11, <2>1, <2>3 DEF RebuiltAt
  <2>5. used' \in 0 .. Len(nodes)
    BY <1>1, <1>3, <2>1
  <2> QED
    BY ONLY <1>12, <2>1, <2>4, <2>5
<1>19. ASSUME outcome = "nodes", sn = 0
       PROVE  /\ used = Len(Consistency(m, size))
              /\ fr = TreeHash(oldLog, m) /\ sr = TreeHash(Log, size)
                   <=> /\ AgreesUpTo(nodes, Consistency(m, size), used)
                       /\ SameUpTo(oldLog, Log, m)
  <2>1. RebuiltWith(k, m, size, oldLog, nodes, fn, used, fr, sr)
    BY <1>2, <1>19 DEF RebuiltAt
  <2>2. Around(size - 1, k, 0)
    BY <1>7, <1>19
  <2> QED
    BY ONLY <1>1, <1>2, <1>7, <2>1, <2>2, RebuiltAll
<1>20. CASE NoLevelLeft
  <2>1. outcome = "nodes" /\ used < Len(nodes) /\ sn = 0 /\ outcome' = "invalid"
    BY <1>6, <1>20 DEF NoLevelLeft, MoreNodes
  <2>2. nodes # Consistency(m, size)
    BY <1>1, <1>3, <1>19, <2>1
  <2> QED
    BY ONLY <1>5, <2>1, <2>2, OutcomeAfter
<1>21. CASE CompareRoots
  <2>1. /\ outcome = "nodes" /\ used = Len(nodes)
        /\ outcome' = IF sn = 0 /\ fr = TreeHash(oldLog, m) /\ sr = TreeHash(Log, size)
                      THEN "valid" ELSE "invalid"
    BY <1>1, <1>3, <1>6, <1>21 DEF CompareRoots, MoreNodes
  <2>2. CASE sn = 0
    <3>1. nodes = Consistency(m, size) <=>
            Len(nodes) = Len(Consistency(m, size)) /\ AgreesUpTo(nodes, Consistency(m, size), Len(nodes))
      <4>1. nodes \in Seq({nodes[j] : j \in DOMAIN nodes})
        BY <1>0, NodesAreSequences DEF ConsistencyRun
      <4>2. Consistency(m, size) \in Seq(Hash)
        BY <1>1, ConsistencyType
      <4> QED
        BY ONLY <4>1, <4>2, SameSequence DEF AgreesUpTo
    <3>2. outcome' = "valid" <=> nodes = Consistency(m, size) /\ SameUpTo(oldLog, Log, m)
      BY ONLY <1>19, <2>1, <2>2, <3>1
    <3>3. m <= size /\ outcome' \in {"error", "invalid", "valid"}
      BY <1>1, <2>1
    <3> QED
      BY ONLY <1>5, <3>2, <3>3, OutcomeAfter
  <2>3. CASE sn # 0
    <3>1. RebuiltWith(k, m, size, oldLog, nodes, fn, used, fr, sr)
      BY <1>2, <2>1 DEF RebuiltAt
    <3>2. Len(ListAt(m - 1, m, size, k, fn)) < Len(Consistency(m, size))
      BY ONLY <1>1, <1>3, <1>7, <1>9, <1>11, <2>1, <2>3, RebuildNotDone
    <3>3. Len(nodes) < Len(Consistency(m, size))
      BY ONLY <2>1, <3>1, <3>2 DEF RebuiltWith
    <3>4. nodes # Consistency(m, size)
      BY ONLY <1>3, <3>3
    <3>5. outcome' = "invalid"
      BY <2>1, <2>3
    <3> QED
      BY ONLY <1>5, <3>4, <3>5, OutcomeAfter
  <2> QED
    BY <2>2, <2>3
<1> QED
  BY <1>13, <1>14, <1>15, <1>16, <1>17, <1>18, <1>20, <1>21 DEF ConsistencyGoesOn

LEMMA ConsistencyStep ==
    ConsistencyInv /\ [ConsistencyNext]_consistencyVars => ConsistencyInv'
<1> SUFFICES ASSUME ConsistencyInv, [ConsistencyNext]_consistencyVars
             PROVE  ConsistencyInv'
  OBVIOUS
<1>1. ASSUME ConsistencyIdle,
             NEW oldLog \in OldLogs, NEW m \in 0 .. Len(oldLog), NEW size \in 0 .. Len(Log),
             NEW from \in {m, 0}, NEW to \in {size, 0}, NEW nodes \in Nodes,
             VerifyConsistency(oldLog, Checkpoint(oldLog, m), Checkpoint(Log, size),
                               [from_tree_size |-> from, to_tree_size |-> to, proof |-> nodes])
      PROVE  ConsistencyInv'
  BY <1>1, ConsistencyClick
<1>2. CASE ConsistencyGoesOn
  <2>1. Running
    BY <1>2 DEF ConsistencyGoesOn, Running, MoreNodes, StartHigher, Begin, NoLevelLeft,
                TakeShared, ShiftEven, EndShift, TakeNew, CompareRoots
  <2> QED
    BY <1>2, <2>1, ConsistencyStepOn
<1>3. CASE UNCHANGED consistencyVars
  <2>1. ConsistencyTypeOK'
    BY <1>3 DEF consistencyVars, ConsistencyInv, ConsistencyTypeOK, ConsistencyIdle, Running
  <2>2. Rebuilt'
    <3>1. ASSUME NEW k, NEW m, NEW size, NEW oldLog, NEW nodes
          PROVE  RebuiltTo(k, m, size, oldLog, nodes)' <=> RebuiltTo(k, m, size, oldLog, nodes)
      <4>1. AtHeight(k, m, size)' <=> AtHeight(k, m, size)
        BY <1>3 DEF consistencyVars, AtHeight
      <4>2. ASSUME NEW count, NEW first, NEW second
            PROVE  RootsRight(k, m, size, oldLog, nodes, count, first, second)' <=>
                     RootsRight(k, m, size, oldLog, nodes, count, first, second)
        BY <1>3 DEF consistencyVars, RootsRight
      <4>3. /\ OnOldBorder' <=> OnOldBorder
            /\ outcome' = outcome /\ fn' = fn /\ used' = used /\ fr' = fr /\ sr' = sr
        BY <1>3 DEF consistencyVars, OnOldBorder
      <4> QED
        BY ONLY <4>1, <4>2, <4>3 DEF RebuiltTo
    <3>2. outcome' = outcome /\ given' = given /\ Rebuilt
      BY <1>3 DEF consistencyVars, ConsistencyInv
    <3> QED
      BY ONLY <3>1, <3>2 DEF Rebuilt, Running
  <2>3. ConsistencyIsExact'
    BY <1>3 DEF consistencyVars, ConsistencyInv, ConsistencyIsExact
  <2> QED
    BY <2>1, <2>2, <2>3 DEF ConsistencyInv
<1> QED
  BY <1>1, <1>2, <1>3 DEF ConsistencyNext, ConsistencyGoesOn

LEMMA ConsistencyInvInit == ConsistencyInit => ConsistencyInv
BY DEF ConsistencyInit, ConsistencyIdle, ConsistencyInv, ConsistencyTypeOK, Rebuilt, Running,
       ConsistencyIsExact

\* What the rebuilding has found out is kept by every step.
THEOREM ConsistencyInvariance == ConsistencySpec => []ConsistencyInv
BY ConsistencyInvInit, ConsistencyStep, PTL DEF ConsistencySpec

\* Two checkpoints are accepted exactly when the first log is a prefix of the
\* second and the proof is the service's (verify_consistency.html:121-169).
THEOREM ConsistencyExactness == ConsistencySpec => []ConsistencyIsExact
<1>1. ConsistencyInv => ConsistencyIsExact
  BY DEF ConsistencyInv
<1> QED
  BY ConsistencyInvariance, <1>1, PTL
=============================================================================
