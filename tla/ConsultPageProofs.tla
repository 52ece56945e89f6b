------------------------- MODULE ConsultPageProofs -------------------------
(***************************************************************************)
(* What holds of the search page and of GET /entries for every set of      *)
(* filters, page size and length of the log, and for any number of         *)
(* requests in flight.                                                     *)
(***************************************************************************)
EXTENDS ConsultPage, FiniteSetTheorems, TLAPS

-----------------------------------------------------------------------------
(* A finite, non-empty set of naturals has a greatest and a least element: *)
(* the induction that the arguments about ranks need.                      *)

LEMMA Greatest ==
    ASSUME NEW S \in SUBSET Nat, IsFiniteSet(S), S # {}
    PROVE  \E m \in S : \A j \in S : j <= m
<1> DEFINE above(i) == {j \in S : j > i}
           T == {above(i) : i \in S}
           R == StrictSubsetOrdering(S)
           F == FiniteSubsetsOf(S)
<1>1. IsWellFoundedOn(R, F)
  BY FS_StrictSubsetOrderingWellFounded
<1>2. T \subseteq F
  <2>1. \A i \in S : above(i) \in SUBSET S
    OBVIOUS
  <2> QED
    BY <2>1, FS_FiniteSubsetsOfFinite
<1>3. T # {}
  OBVIOUS
<1>4. PICK A \in T : \A B \in T : ~ (<<B, A>> \in R)
  <2> HIDE DEF R, F, T
  <2> QED
    BY <1>1, <1>2, <1>3, WFMin
<1>5. PICK m \in S : A = above(m)
  OBVIOUS
<1>6. ASSUME NEW j \in S, j > m PROVE FALSE
  <2>1. j \in above(m) /\ j \notin above(j)
    BY <1>6
  <2>2. above(j) \subseteq above(m)
    <3>1. ASSUME NEW k \in S, k > j PROVE k > m
      <4>1. k \in Nat /\ j \in Nat /\ m \in Nat
        OBVIOUS
      <4> QED
        BY <1>6, <3>1, <4>1
    <3> QED
      BY <3>1
  <2>3. above(m) \in SUBSET S /\ above(j) \in SUBSET S /\ above(j) \in T
    OBVIOUS
  <2> HIDE DEF above
  <2>4. <<above(j), above(m)>> \in R
    BY <2>1, <2>2, <2>3 DEF StrictSubsetOrdering
  <2> QED
    BY <1>4, <1>5, <2>3, <2>4
<1> QED
  BY <1>6

LEMMA Least ==
    ASSUME NEW S \in SUBSET Nat, S # {}
    PROVE  \E m \in S : \A j \in S : m <= j
<1>1. PICK n \in S : TRUE
  OBVIOUS
<1> DEFINE U == {n - k : k \in {j \in S : j <= n}}
<1>2. U \in SUBSET Nat /\ \A s \in U : s <= n
  OBVIOUS
<1>3. IsFiniteSet(U)
  <2> HIDE DEF U
  <2> QED
    BY <1>2, FS_BoundedSetOfNaturals
<1>4. U # {}
  OBVIOUS
<1>5. PICK u \in U : \A j \in U : j <= u
  <2> HIDE DEF U
  <2> QED
    BY <1>2, <1>3, <1>4, Greatest
<1>6. PICK k \in S : k <= n /\ u = n - k
  OBVIOUS
<1>7. ASSUME NEW j \in S PROVE k <= j
  <2>1. CASE j <= n
    <3>1. n - j \in U
      BY <2>1
    <3> QED
      BY <1>5, <1>6, <2>1, <3>1
  <2> QED
    BY <1>6, <2>1
<1> QED
  BY <1>7

LEMMA DisjointUnion ==
    ASSUME NEW S, IsFiniteSet(S), NEW T, IsFiniteSet(T), S \cap T = {}
    PROVE  Cardinality(S \cup T) = Cardinality(S) + Cardinality(T)
<1>1. Cardinality(S \cup T) = Cardinality(S) + Cardinality(T) - Cardinality(S \cap T)
  BY FS_Union
<1>2. Cardinality(S \cap T) = 0
  BY FS_EmptySet
<1> QED
  BY <1>1, <1>2, FS_CardinalityType

\* Rows in the order asked for have a first and a last one.
LEMMA FirstOfRows ==
    ASSUME NEW rows \in SUBSET Nat, IsFiniteSet(rows), rows # {}, NEW order
    PROVE  \E i \in rows : \A j \in rows : j # i => Before(i, j, order)
<1>1. CASE order = "desc"
  <2>1. PICK i \in rows : \A j \in rows : j <= i
    BY Greatest
  <2> QED
    BY <1>1, <2>1 DEF Before
<1>2. CASE order # "desc"
  <2>1. PICK i \in rows : \A j \in rows : i <= j
    BY Least
  <2> QED
    BY <1>2, <2>1 DEF Before
<1> QED
  BY <1>1, <1>2

LEMMA LastOfRows ==
    ASSUME NEW rows \in SUBSET Nat, IsFiniteSet(rows), rows # {}, NEW order
    PROVE  \E i \in rows : \A j \in rows : j # i => Before(j, i, order)
<1>1. CASE order = "desc"
  <2>1. PICK i \in rows : \A j \in rows : i <= j
    BY Least
  <2> QED
    BY <1>1, <2>1 DEF Before
<1>2. CASE order # "desc"
  <2>1. PICK i \in rows : \A j \in rows : j <= i
    BY Greatest
  <2> QED
    BY <1>2, <2>1 DEF Before
<1> QED
  BY <1>1, <1>2

LEMMA BeforeIsOrder ==
    ASSUME NEW i \in Nat, NEW j \in Nat, NEW k \in Nat, NEW order
    PROVE  /\ ~Before(i, i, order)
           /\ Before(i, j, order) => ~Before(j, i, order)
           /\ Before(i, j, order) /\ Before(j, k, order) => Before(i, k, order)
           /\ i = j \/ Before(i, j, order) \/ Before(j, i, order)
BY DEF Before

-----------------------------------------------------------------------------
(* Ranks and pages.                                                        *)

LEMMA RankType ==
    ASSUME NEW rows, IsFiniteSet(rows), NEW i, NEW order
    PROVE  /\ Rank(i, rows, order) \in Nat
           /\ IsFiniteSet({j \in rows : Before(j, i, order)})
<1>1. {j \in rows : Before(j, i, order)} \in SUBSET rows
  OBVIOUS
<1> QED
  BY <1>1, FS_Subset, FS_CardinalityType DEF Rank

\* A row inserted never lowers a rank.
LEMMA RankGrows ==
    ASSUME NEW more, IsFiniteSet(more), NEW rows \in SUBSET more, NEW i, NEW order
    PROVE  Rank(i, rows, order) <= Rank(i, more, order)
<1>1. {j \in rows : Before(j, i, order)} \in SUBSET {j \in more : Before(j, i, order)}
  OBVIOUS
<1>2. IsFiniteSet({j \in more : Before(j, i, order)})
  BY RankType
<1> QED
  BY <1>1, <1>2, FS_Subset DEF Rank

LEMMA RankBelowCount ==
    ASSUME NEW rows \in SUBSET Nat, IsFiniteSet(rows), NEW i \in rows, NEW order
    PROVE  Rank(i, rows, order) < Cardinality(rows)
<1> DEFINE earlier == {j \in rows : Before(j, i, order)}
<1>1. earlier \in SUBSET rows /\ i \notin earlier
  BY BeforeIsOrder
<1>2. Cardinality(earlier) <= Cardinality(rows) /\ Cardinality(earlier) # Cardinality(rows)
  BY <1>1, FS_Subset
<1>3. Cardinality(earlier) \in Nat /\ Cardinality(rows) \in Nat
  BY <1>1, FS_Subset, FS_CardinalityType
<1> QED
  BY <1>2, <1>3 DEF Rank

\* The row read next is there, and comes before the others.
LEMMA FirstComesFirst ==
    ASSUME NEW r, r.todo \in SUBSET Nat, IsFiniteSet(r.todo), r.todo # {}
    PROVE  /\ First(r) \in r.todo
           /\ \A j \in r.todo : j # First(r) => Before(First(r), j, r.query.order)
<1> DEFINE order == r.query.order
<1>1. PICK i \in r.todo : \A j \in r.todo : j # i => Before(i, j, order)
  BY FirstOfRows
<1>2. {j \in r.todo : Before(j, i, order)} = {}
  BY <1>1, BeforeIsOrder
<1>3. Rank(i, r.todo, order) = 0
  BY <1>2, FS_EmptySet DEF Rank
<1>4. First(r) \in r.todo /\ Rank(First(r), r.todo, order) = 0
  BY <1>3 DEF First
<1>5. {j \in r.todo : Before(j, First(r), order)} = {}
  BY <1>4, RankType, FS_EmptySet DEF Rank
<1> QED
  BY <1>4, <1>5, BeforeIsOrder

\* A page holds at most the limit.
LEMMA PageFits ==
    ASSUME NEW rows \in SUBSET Nat, IsFiniteSet(rows), NEW q, q.limit \in Nat \ {0},
           q.offset \in Nat
    PROVE  IsFiniteSet(Page(rows, q)) /\ Cardinality(Page(rows, q)) <= q.limit
<1> DEFINE page == Page(rows, q)
<1>1. page \in SUBSET rows
  BY DEF Page
<1>2. IsFiniteSet(page) /\ Cardinality(page) \in Nat
  BY <1>1, FS_Subset, FS_CardinalityType
<1>3. CASE page = {}
  BY <1>2, <1>3, FS_EmptySet
<1>4. CASE page # {}
  <2>1. PICK first \in page : \A j \in page : j # first => Before(first, j, q.order)
    BY <1>1, <1>2, <1>4, FirstOfRows
  <2>2. PICK last \in page : \A j \in page : j # last => Before(j, last, q.order)
    BY <1>1, <1>2, <1>4, LastOfRows
  <2> DEFINE earlier == {j \in rows : Before(j, first, q.order)}
             rest == page \ {last}
             upto == {j \in rows : Before(j, last, q.order)}
  <2>3. IsFiniteSet(earlier) /\ IsFiniteSet(upto) /\ IsFiniteSet(rest)
    BY <1>2, RankType, FS_Subset
  <2>4. earlier \cap rest = {}
    <3>1. ASSUME NEW j \in earlier, j \in rest PROVE FALSE
      <4>1. j \in page /\ j \in Nat /\ first \in Nat /\ Before(j, first, q.order)
        BY <1>1, <3>1
      <4> QED
        BY <2>1, <4>1, BeforeIsOrder
    <3> QED
      BY <3>1
  <2>5. earlier \cup rest \in SUBSET upto
    BY <1>1, <2>1, <2>2, BeforeIsOrder
  <2>6. Cardinality(earlier \cup rest) = Cardinality(earlier) + Cardinality(rest)
    BY <2>3, <2>4, DisjointUnion
  <2>7. Cardinality(rest) = Cardinality(page) - 1
    BY <1>2, FS_RemoveElement
  <2>8. Cardinality(earlier \cup rest) <= Cardinality(upto)
    BY <2>3, <2>5, FS_Subset
  <2>9. q.offset <= Cardinality(earlier) /\ Cardinality(upto) < q.offset + q.limit
    BY <1>1, <2>1, <2>2 DEF Page, Rank
  <2>10. Cardinality(earlier) \in Nat /\ Cardinality(upto) \in Nat
    BY <2>3, FS_CardinalityType
  <2> QED
    BY <1>2, <2>6, <2>7, <2>8, <2>9, <2>10
<1> QED
  BY <1>3, <1>4

\* As many rows as the offset come before the page and the pages after it.
LEMMA OffsetIsSkipped ==
    ASSUME NEW rows \in SUBSET Nat, IsFiniteSet(rows), NEW order, NEW offset \in Nat,
           NEW rest, rest = {i \in rows : Rank(i, rows, order) >= offset}, rest # {}
    PROVE  /\ IsFiniteSet(rest)
           /\ offset + Cardinality(rest) <= Cardinality(rows)
<1>1. rest \in SUBSET rows /\ IsFiniteSet(rest)
  BY FS_Subset
<1>2. PICK i \in rest : \A j \in rest : j # i => Before(i, j, order)
  BY <1>1, FirstOfRows
<1> DEFINE earlier == {j \in rows : Before(j, i, order)}
<1>3. earlier \in SUBSET rows /\ IsFiniteSet(earlier) /\ offset <= Cardinality(earlier)
  BY <1>1, <1>2, RankType DEF Rank
<1>4. earlier \cap rest = {}
  BY <1>1, <1>2, BeforeIsOrder
<1>5. Cardinality(earlier \cup rest) = Cardinality(earlier) + Cardinality(rest)
  BY <1>1, <1>3, <1>4, DisjointUnion
<1>6. Cardinality(earlier \cup rest) <= Cardinality(rows)
  BY <1>1, <1>3, FS_Subset
<1>7. Cardinality(earlier) \in Nat /\ Cardinality(rest) \in Nat /\ Cardinality(rows) \in Nat
  BY <1>1, <1>3, FS_CardinalityType
<1> QED
  BY <1>1, <1>3, <1>5, <1>6, <1>7

\* A page number is the last when its rows reach the total.
LEMMA LastPage ==
    ASSUME NEW total \in Nat, NEW page \in Nat, ~(page < TotalPages(total))
    PROVE  total <= page * PageSize
BY PageSizePositive DEF TotalPages

-----------------------------------------------------------------------------
(* Rows, queries and requests.                                             *)

LEMMA RowsAreFinite ==
    ASSUME StateOK, NEW rows \in SUBSET indexed
    PROVE  /\ rows \in SUBSET Nat
           /\ IsFiniteSet(rows)
           /\ Cardinality(rows) \in 0 .. MaxLog
<1>1. rows \in SUBSET Indexes /\ Indexes \subseteq Nat
  BY QueriesBounds DEF StateOK, Indexes
<1>2. IsFiniteSet(Indexes) /\ Cardinality(Indexes) = MaxLog
  BY QueriesBounds, FS_Interval DEF Indexes
<1>3. IsFiniteSet(rows) /\ Cardinality(rows) <= MaxLog
  BY <1>1, <1>2, FS_Subset
<1>4. Cardinality(rows) \in Nat
  BY <1>3, FS_CardinalityType
<1> QED
  BY <1>1, <1>3, <1>4, QueriesBounds

LEMMA QueryIsAsked ==
    ASSUME NEW f \in Filters, NEW page \in Nat \ {0}
    PROVE  /\ Query(f, page) \in Asked
           /\ Query(f, page).offset = (page - 1) * PageSize
           /\ Query(f, page).limit = PageSize
           /\ Query(f, page).order = "desc"
<1>1. (page - 1) * PageSize \in Nat
  BY PageSizePositive
<1> QED
  BY <1>1 DEF Query, Asked

\* The rows found do not depend on the page.
LEMMA SameRows ==
    ASSUME NEW f, NEW page, NEW other
    PROVE  Found(Query(f, page)) = Found(Query(f, other))
BY DEF Found, Matches, Query, FromInclusive, ToExclusive

LEMMA FoundIsIndexed == \A q : Found(q) \subseteq indexed
BY DEF Found

LEMMA NewRequest ==
    ASSUME NEW q \in Asked
    PROVE  /\ NewSearch(q) \in [stage : {"failed"}, query : Asked] \cup Requests(indexed)
           /\ NewSearch(q).query = q
           /\ NewSearch(q).stage \in {"failed", "count"}
           /\ NewSearch(q).stage = "count" =>
                  NewSearch(q).okIndexes = << >> /\ NewSearch(q).entries = << >>
<1>1. {} \in SUBSET indexed /\ << >> \in Seq(indexed)
  OBVIOUS
<1>2. CASE ParseFails(q)
  BY <1>2 DEF NewSearch, Failed
<1>3. CASE ~ParseFails(q)
  BY <1>1, <1>3 DEF NewSearch, Requests
<1> QED
  BY <1>2, <1>3

LEMMA Stages ==
    ASSUME StateOK, NEW s \in Searches
    PROVE  /\ search[s] = NoSearch <=> search[s].stage = "none"
           /\ search[s] # NoSearch => search[s].query \in Asked
           /\ search[s].stage \in {"count", "select", "read"} => search[s] \in Requests(indexed)
           /\ search[s].stage \in {"none", "failed", "count", "select", "read"}
<1>1. search[s] \in {NoSearch} \cup [stage : {"failed"}, query : Asked] \cup Requests(indexed)
  BY DEF StateOK
<1>2. CASE search[s] = NoSearch
  BY <1>2 DEF NoSearch
<1>3. CASE search[s] \in [stage : {"failed"}, query : Asked]
  BY <1>3 DEF NoSearch
<1>4. CASE search[s] \in Requests(indexed)
  BY <1>4 DEF NoSearch, Requests
<1> QED
  BY <1>1, <1>2, <1>3, <1>4

LEMMA RequestTypes ==
    ASSUME NEW r \in Requests(indexed)
    PROVE  /\ r.stage \in {"count", "select", "read"} /\ r.query \in Asked
           /\ r.counted \in SUBSET indexed /\ r.blurred \in BOOLEAN
           /\ r.todo \in SUBSET indexed
           /\ r.okIndexes \in Seq(indexed) /\ r.entries \in Seq(indexed)
           /\ r.query.order = "desc" /\ r.query.limit = PageSize /\ r.query.offset \in Nat
BY DEF Requests, Asked

LEMMA WalkOwes ==
    ASSUME StateOK, walk.on
    PROVE  /\ walk = [on |-> TRUE, owed |-> walk.owed]
           /\ walk.owed \in SUBSET Found(Query(filters, 1))
           /\ walk.owed \in SUBSET indexed
<1>1. walk # NoWalk
  BY DEF NoWalk
<1>2. walk \in [on : {TRUE}, owed : SUBSET Found(Query(filters, 1))]
  BY <1>1 DEF StateOK
<1>3. walk = [on |-> TRUE, owed |-> walk.owed]
  BY <1>2
<1>4. walk.owed \in SUBSET Found(Query(filters, 1))
  BY <1>2
<1> QED
  BY <1>3, <1>4, FoundIsIndexed

\* A search for a form that is not blank is not the one of the latest events.
LEMMA FormIsNotLatest ==
    ASSUME NEW f \in Filters, f # Blank, NEW page
    PROVE  ~SentAsLatest(Query(f, page))
<1> SUFFICES ASSUME NEW other, Query(f, page) = Query(Blank, other) PROVE FALSE
  BY DEF SentAsLatest
<1>1. /\ f.doc_id = Blank.doc_id /\ f.issuer = Blank.issuer
      /\ f.date_from = Blank.date_from /\ f.date_to = Blank.date_to
  <2>1. /\ Query(f, page).doc_id = f.doc_id /\ Query(f, page).issuer = f.issuer
        /\ Query(f, page).date_from = f.date_from /\ Query(f, page).date_to = f.date_to
        /\ Query(Blank, other).doc_id = Blank.doc_id /\ Query(Blank, other).issuer = Blank.issuer
        /\ Query(Blank, other).date_from = Blank.date_from
        /\ Query(Blank, other).date_to = Blank.date_to
    BY DEF Query
  <2> QED
    BY <2>1
<1> QED
  BY <1>1, FiltersAreForms, FiltersHaveBlank

-----------------------------------------------------------------------------
(* A request goes on by itself: nothing but its record changes.            *)

LEMMA StepPreserves ==
    ASSUME IInv, NEW s \in Searches, search[s] # NoSearch, NEW r,
           search' = [search EXCEPT ![s] = r],
           UNCHANGED serverVars, UNCHANGED pageVars,
           r \in [stage : {"failed"}, query : Asked] \cup Requests(indexed),
           r.query = search[s].query,
           r.stage \in {"count", "select"} => r.okIndexes = << >> /\ r.entries = << >>,
           r.stage = "read" => InOrder(r) /\ (r.blurred \/ Complete(r)),
           walk.on => Fetching(r)
    PROVE  IInv'
<1> USE DEF IInv, serverVars, pageVars
<1>1. r # NoSearch
  BY DEF NoSearch, Requests
<1>2. /\ search' \in [Searches ->
               {NoSearch} \cup [stage : {"failed"}, query : Asked] \cup Requests(indexed)]
      /\ search'[s] = r /\ \A t \in Searches \ {s} : search'[t] = search[t]
  BY DEF StateOK
<1>3. \A q : Found(q)' = Found(q)
  BY DEF Found
<1>4. StateOK'
  BY <1>2, <1>3 DEF StateOK
<1>5. ReadsOnePage'
  <2>1. \A n : InOrder(n)' <=> InOrder(n)
    BY DEF InOrder
  <2>2. \A n : Complete(n)' <=> Complete(n)
    BY DEF Complete, Counted
  <2> QED
    BY <1>2, <2>1, <2>2 DEF ReadsOnePage
<1>6. WalkGoesOn'
  <2> SUFFICES ASSUME walk.on PROVE WalkGoesOn'
    BY DEF WalkGoesOn
  <2>1. \A page, rows : OwedFrom(page, rows)' <=> OwedFrom(page, rows)
    BY DEF OwedFrom
  <2>2. \A n : Fetching(n)' <=> Fetching(n)
    BY <1>3, <2>1 DEF Fetching, Counted
  <2>3. ~Idle'
    BY <1>1, <1>2 DEF Idle
  <2>4. \A t \in Searches \ {s} : search'[t] = NoSearch
    BY <1>2 DEF WalkGoesOn
  <2> QED
    BY <1>2, <2>2, <2>3, <2>4 DEF WalkGoesOn
<1>7. SearchIsNeverLockedOut'
  BY <1>1, <1>2 DEF SearchIsNeverLockedOut, SentAsLatest
<1> QED
  BY <1>4, <1>5, <1>6, <1>7

\* Reading or skipping the first entry keeps the page together.
LEMMA NextEntry ==
    ASSUME StateOK, NEW r \in Requests(indexed), r.stage = "read", r.todo # {}, InOrder(r),
           NEW n \in {Take(r, First(r)), Skip(r, First(r))}
    PROVE  /\ n \in Requests(indexed)
           /\ n.query = r.query /\ n.stage = "read"
           /\ n.counted = r.counted /\ n.blurred = r.blurred
           /\ InOrder(n)
           /\ Complete(r) => Complete(n)
<1> DEFINE i == First(r)
           ok == r.okIndexes
<1>1. /\ r.query \in Asked /\ r.counted \in SUBSET indexed /\ r.todo \in SUBSET indexed
      /\ ok \in Seq(indexed) /\ r.entries = ok /\ r.query.order = "desc"
  BY RequestTypes DEF InOrder
<1>2. r.todo \in SUBSET Nat /\ IsFiniteSet(r.todo) /\ indexed \subseteq Nat
  BY <1>1, RowsAreFinite
<1>3. i \in r.todo /\ \A j \in r.todo : j # i => Before(i, j, "desc")
  BY <1>1, <1>2, FirstComesFirst
<1>4. IsFiniteSet(r.todo \ {i}) /\ Cardinality(r.todo \ {i}) = Cardinality(r.todo) - 1
  BY <1>2, <1>3, FS_RemoveElement
<1>5. Cardinality(r.todo) \in Nat /\ Len(ok) \in Nat /\ DOMAIN ok = 1 .. Len(ok)
  BY <1>1, <1>2, FS_CardinalityType
<1>6. IsFiniteSet(Counted(r)) /\ Cardinality(Counted(r)) \in Nat
  <2>1. Counted(r) \in SUBSET r.counted
    BY DEF Counted, Page
  <2> QED
    BY <1>1, <2>1, RowsAreFinite, FS_Subset, FS_CardinalityType
<1>7. CASE n = Take(r, i)
  <2>1. /\ n \in Requests(indexed) /\ n.query = r.query /\ n.stage = "read"
        /\ n.counted = r.counted /\ n.blurred = r.blurred
        /\ n.todo = r.todo \ {i} /\ n.okIndexes = Append(ok, i) /\ n.entries = Append(ok, i)
    <3>1. Append(ok, i) \in Seq(indexed) /\ r.todo \ {i} \in SUBSET indexed
      BY <1>1, <1>3
    <3> HIDE DEF i
    <3> QED
      BY <1>1, <1>7, <3>1 DEF Take, Requests
  <2> DEFINE more == n.okIndexes
  <2> HIDE DEF i, ok
  <2>2. /\ Len(more) = Len(ok) + 1 /\ DOMAIN more = 1 .. Len(ok) + 1
        /\ more[Len(ok) + 1] = i /\ \A k \in 1 .. Len(ok) : more[k] = ok[k]
    BY <1>1, <1>3, <2>1
  <2>3. Gathered(n) = Gathered(r)
    BY <1>4, <1>5, <2>1, <2>2 DEF Gathered, ok
  <2>4. InOrder(n)
    <3>1. Matches(log[i], r.query) /\ \A k \in DOMAIN ok : Before(ok[k], i, "desc")
      BY <1>1, <1>3 DEF InOrder, ok
    <3>2. \A k \in DOMAIN more : Matches(log[more[k]], r.query)
      BY <1>5, <2>2, <3>1 DEF InOrder, ok
    <3>3. \A k, l \in DOMAIN more : k < l => Before(more[k], more[l], "desc")
      <4>1. \A k, l \in DOMAIN ok : k < l => Before(ok[k], ok[l], "desc")
        BY <1>1 DEF InOrder, ok
      <4> QED
        BY <1>5, <2>2, <3>1, <4>1
    <3>4. \A k \in DOMAIN more, j \in n.todo : Before(more[k], j, "desc")
      <4>1. \A k \in DOMAIN ok, j \in r.todo : Before(ok[k], j, "desc")
        BY <1>1 DEF InOrder, ok
      <4> QED
        BY <1>3, <1>5, <2>1, <2>2, <4>1
    <3> QED
      BY <1>1, <2>1, <2>3, <3>2, <3>3, <3>4 DEF InOrder
  <2>5. \A j : Took(r, j) => Took(n, j)
    BY <1>5, <2>2 DEF Took, ok
  <2>6. Took(n, i)
    BY <1>5, <2>2 DEF Took
  <2>7. Complete(r) => Complete(n)
    BY <2>1, <2>3, <2>5, <2>6 DEF Complete, Counted
  <2> QED
    BY <2>1, <2>4, <2>7
<1>8. CASE n = Skip(r, i)
  <2>1. /\ n \in Requests(indexed) /\ n.query = r.query /\ n.stage = "read"
        /\ n.counted = r.counted /\ n.blurred = r.blurred
        /\ n.todo = r.todo \ {i} /\ n.okIndexes = ok /\ n.entries = ok
    <3>1. r.todo \ {i} \in SUBSET indexed
      BY <1>1
    <3> HIDE DEF i
    <3> QED
      BY <1>1, <1>8, <3>1 DEF Skip, Requests
  <2>2. Gathered(n) = Gathered(r) - 1 /\ Gathered(r) \in Nat
    BY <1>4, <1>5, <2>1 DEF Gathered
  <2>3. InOrder(n)
    BY <2>1, <2>2, PageSizePositive DEF InOrder
  <2>4. Complete(r) => Complete(n)
    BY <1>6, <2>1, <2>2 DEF Complete, Counted
  <2> QED
    BY <2>1, <2>3, <2>4
<1> QED
  BY <1>7, <1>8

LEMMA SearchStepPreserves ==
    ASSUME IInv, NEW s \in Searches, SearchStep(s), UNCHANGED pageVars
    PROVE  IInv'
<1> DEFINE r == search[s]
<1>0. StateOK /\ ReadsOnePage /\ WalkGoesOn /\ search = [t \in Searches |-> search[t]]
  BY DEF IInv, StateOK
<1>1. CASE Count(s)
  <2> DEFINE n == [r EXCEPT !.stage = "select", !.counted = Found(r.query)]
  <2>1. r.stage = "count" /\ search' = [search EXCEPT ![s] = n] /\ UNCHANGED serverVars
    BY <1>0, <1>1 DEF Count
  <2>2. r \in Requests(indexed) /\ r # NoSearch
    BY <1>0, <2>1, Stages
  <2>3. /\ n \in Requests(indexed) /\ n.stage = "select" /\ n.query = r.query
        /\ n.okIndexes = r.okIndexes /\ n.entries = r.entries
    BY <2>2, FoundIsIndexed DEF Requests
  <2>4. walk.on => Fetching(n)
    BY <1>0, <2>1, <2>2, <2>3 DEF WalkGoesOn, Fetching
  <2>5. n.okIndexes = << >> /\ n.entries = << >>
    BY <1>0, <2>1, <2>3 DEF ReadsOnePage
  <2> HIDE DEF n, r
  <2> QED
    BY <2>1, <2>2, <2>3, <2>4, <2>5, StepPreserves DEF r
<1>2. CASE Select(s)
  <2> DEFINE q == r.query
             todo == Page(Found(q), q)
             blurred == Found(q) # r.counted
             n == [r EXCEPT !.stage = "read", !.todo = todo, !.blurred = blurred]
  <2>1. r.stage = "select" /\ search' = [search EXCEPT ![s] = n] /\ UNCHANGED serverVars
    BY <1>0, <1>2 DEF Select
  <2>2. r \in Requests(indexed) /\ r # NoSearch
    BY <1>0, <2>1, Stages
  <2>3. /\ q \in Asked /\ q.order = "desc" /\ q.limit = PageSize /\ q.offset \in Nat
        /\ r.counted \in SUBSET indexed
    BY <2>2, RequestTypes
  <2>4. Page(Found(q), q) \in SUBSET indexed
    BY FoundIsIndexed DEF Page
  <2>5. /\ n \in Requests(indexed) /\ n.stage = "read" /\ n.query = q
        /\ n.counted = r.counted /\ n.blurred = (Found(q) # r.counted)
        /\ n.todo = Page(Found(q), q)
        /\ n.okIndexes = r.okIndexes /\ n.entries = r.entries
    <3>1. todo \in SUBSET indexed /\ blurred \in BOOLEAN
      BY <2>4
    <3> HIDE DEF q, todo, blurred
    <3>2. /\ n \in Requests(indexed) /\ n.stage = "read" /\ n.query = r.query
          /\ n.counted = r.counted /\ n.todo = todo
          /\ n.okIndexes = r.okIndexes /\ n.entries = r.entries
      BY <2>2, <3>1 DEF Requests
    <3>3. n.blurred = blurred
      BY <2>2 DEF Requests
    <3> QED
      BY <3>2, <3>3 DEF q, todo, blurred
  <2>6. n.okIndexes = << >> /\ n.entries = << >>
    BY <1>0, <2>1, <2>5 DEF ReadsOnePage
  <2> HIDE DEF n, r
  <2>7. /\ IsFiniteSet(n.todo) /\ Cardinality(n.todo) <= PageSize
        /\ Cardinality(n.todo) \in Nat
    <3>1. Found(q) \in SUBSET Nat /\ IsFiniteSet(Found(q))
      BY <1>0, FoundIsIndexed, RowsAreFinite
    <3>2. IsFiniteSet(Page(Found(q), q)) /\ Cardinality(Page(Found(q), q)) <= PageSize
      <4> HIDE DEF q
      <4> QED
        BY <2>3, <3>1, PageSizePositive, PageFits
    <3> QED
      BY <2>5, <3>2, FS_CardinalityType
  <2>8. Gathered(n) = Cardinality(n.todo)
    BY <2>6, <2>7 DEF Gathered
  <2>9. InOrder(n)
    <3>1. \A i \in n.todo : Matches(log[i], q)
      BY <2>5 DEF Page, Found
    <3> QED
      BY <2>5, <2>6, <2>7, <2>8, <3>1 DEF InOrder
  <2>10. n.blurred \/ Complete(n)
    <3> SUFFICES ASSUME ~n.blurred PROVE Complete(n)
      OBVIOUS
    <3>1. Counted(n) = n.todo
      BY <2>5 DEF Counted
    <3> QED
      BY <2>7, <2>8, <3>1 DEF Complete
  <2>11. walk.on => Fetching(n)
    <3> SUFFICES ASSUME walk.on, ~n.blurred
                 PROVE  Fetching(n)
      BY <1>0, <2>1, <2>2, <2>5 DEF WalkGoesOn, Fetching, r
    <3>1. q = Query(filters, State.currentPage) /\ OwedFrom(State.currentPage, Found(q))
      BY <1>0, <2>1, <2>2 DEF WalkGoesOn, Fetching, r
    <3>2. n.counted = Found(q) /\ Counted(n) = n.todo
      BY <2>5 DEF Counted
    <3> QED
      BY <2>5, <3>1, <3>2 DEF Fetching
  <2> QED
    BY <2>1, <2>2, <2>5, <2>6, <2>9, <2>10, <2>11, StepPreserves DEF r
<1>3. CASE QueryFails(s)
  <2>1. /\ r.stage \in {"count", "select"} /\ search' = [search EXCEPT ![s] = Failed(r.query)]
        /\ UNCHANGED serverVars
    BY <1>0, <1>3 DEF QueryFails
  <2>2. r \in Requests(indexed) /\ r # NoSearch
    BY <1>0, <2>1, Stages
  <2>3. /\ Failed(r.query) \in [stage : {"failed"}, query : Asked]
        /\ Failed(r.query).query = r.query /\ Failed(r.query).stage = "failed"
    BY <2>2, RequestTypes DEF Failed
  <2>4. walk.on => Fetching(Failed(r.query))
    BY <1>0, <2>2, <2>3 DEF WalkGoesOn, Fetching
  <2> HIDE DEF r
  <2> QED
    BY <2>1, <2>2, <2>3, <2>4, StepPreserves DEF r
<1>4. CASE ReadEntry(s) \/ ReadFails(s)
  <2>1. r.stage = "read" /\ r.todo # {} /\ UNCHANGED serverVars
    BY <1>4 DEF ReadEntry, ReadFails
  <2>2. r \in Requests(indexed) /\ r # NoSearch
    BY <1>0, <2>1, Stages
  <2>3. InOrder(r) /\ (r.blurred \/ Complete(r))
    BY <1>0, <2>1 DEF ReadsOnePage
  <2> DEFINE i == First(r)
  <2>4. CASE ReadEntry(s)
    <3> DEFINE n == IF i < published THEN Take(r, i) ELSE Skip(r, i)
    <3>1. search' = [search EXCEPT ![s] = n]
      BY <1>0, <2>4 DEF ReadEntry
    <3>2. n \in {Take(r, First(r)), Skip(r, First(r))}
      OBVIOUS
    <3>3. /\ n \in Requests(indexed) /\ n.query = r.query /\ n.stage = "read"
          /\ n.counted = r.counted /\ n.blurred = r.blurred
          /\ InOrder(n) /\ (Complete(r) => Complete(n))
      <4> HIDE DEF n, r
      <4> QED
        BY <1>0, <2>1, <2>2, <2>3, <3>2, NextEntry
    <3>4. walk.on => Fetching(n)
      <4> SUFFICES ASSUME walk.on, ~r.blurred PROVE Fetching(n)
        BY <1>0, <2>1, <2>2, <3>3 DEF WalkGoesOn, Fetching
      <4>1. Fetching(r) /\ \A j \in walk.owed : j < published
        BY <1>0, <2>2 DEF WalkGoesOn
      <4>2. Counted(n) = Counted(r)
        BY <3>3 DEF Counted
      <4>3. ASSUME NEW j \in walk.owed \cap Counted(r) PROVE j \in n.todo \/ Took(n, j)
        <5>1. j \in r.todo \/ Took(r, j)
          BY <2>1, <4>1, <4>3 DEF Fetching
        <5>2. DOMAIN r.okIndexes = 1 .. Len(r.okIndexes) /\ Len(r.okIndexes) \in Nat
              /\ r.okIndexes \in Seq(indexed)
          BY <2>2, RequestTypes
        <5>3. CASE n = Take(r, i)
          <6>1. n.todo = r.todo \ {i} /\ n.okIndexes = Append(r.okIndexes, i)
            BY <2>2, <5>3 DEF Take, Requests
          <6> HIDE DEF n, i, r
          <6>2. /\ DOMAIN n.okIndexes = 1 .. Len(r.okIndexes) + 1
                /\ n.okIndexes[Len(r.okIndexes) + 1] = i
                /\ \A k \in 1 .. Len(r.okIndexes) : n.okIndexes[k] = r.okIndexes[k]
            BY <5>2, <6>1
          <6> QED
            BY <5>1, <5>2, <6>1, <6>2 DEF Took
        <5>4. CASE n = Skip(r, i) /\ ~(i < published)
          <6>1. n.todo = r.todo \ {i} /\ n.okIndexes = r.okIndexes
            BY <2>2, <5>4 DEF Skip, Requests
          <6>2. j # i
            BY <4>1, <4>3, <5>4
          <6> QED
            BY <5>1, <6>1, <6>2 DEF Took
        <5> QED
          BY <5>3, <5>4
      <4> QED
        BY <2>1, <3>3, <4>1, <4>2, <4>3 DEF Fetching
    <3> HIDE DEF n, r
    <3> QED
      BY <2>1, <2>2, <2>3, <3>1, <3>3, <3>4, StepPreserves DEF r
  <2>5. CASE ReadFails(s)
    <3> DEFINE n == Skip(r, i)
               m == [n EXCEPT !.blurred = TRUE]
    <3>1. search' = [search EXCEPT ![s] = m]
      BY <1>0, <2>5 DEF ReadFails
    <3>2. n \in {Take(r, First(r)), Skip(r, First(r))}
      OBVIOUS
    <3>3. n \in Requests(indexed) /\ n.query = r.query /\ n.stage = "read" /\ InOrder(n)
      <4> HIDE DEF n, r
      <4> QED
        BY <1>0, <2>1, <2>2, <2>3, <3>2, NextEntry
    <3> HIDE DEF n
    <3>4. /\ m \in Requests(indexed) /\ m.query = n.query /\ m.stage = "read" /\ m.blurred
          /\ m.todo = n.todo /\ m.okIndexes = n.okIndexes /\ m.entries = n.entries
      BY <3>3 DEF Requests
    <3> HIDE DEF m
    <3>5. InOrder(m)
      BY <3>3, <3>4 DEF InOrder, Gathered
    <3>6. walk.on => Fetching(m)
      BY <1>0, <2>2, <3>3, <3>4 DEF WalkGoesOn, Fetching
    <3> HIDE DEF r
    <3> QED
      BY <2>1, <2>2, <3>1, <3>3, <3>4, <3>5, <3>6, StepPreserves DEF r
  <2> QED
    BY <1>4, <2>4, <2>5
<1> QED
  BY <1>1, <1>2, <1>3, <1>4 DEF SearchStep

-----------------------------------------------------------------------------
(* Rows are inserted and checkpoints published meanwhile.                  *)

LEMMA InsertPreserves ==
    ASSUME IInv, NEW i \in Indexes \ indexed, InsertRow(i), UNCHANGED pageVars
    PROVE  IInv'
<1>1. /\ indexed' = indexed \cup {i} /\ UNCHANGED <<log, published, search>>
      /\ UNCHANGED <<filters, State, pager, searching, walk>>
  BY DEF InsertRow, pageVars
<1>2. StateOK /\ ReadsOnePage /\ WalkGoesOn /\ SearchIsNeverLockedOut
  BY DEF IInv
<1>3. \A q : Found(q) \subseteq Found(q)'
  BY <1>1 DEF Found
<1>4. StateOK'
  <2>1. Requests(indexed) \subseteq Requests(indexed')
    <3>1. Seq(indexed) \subseteq Seq(indexed') /\ SUBSET indexed \subseteq SUBSET indexed'
      BY <1>1
    <3> QED
      BY <3>1 DEF Requests
  <2>2. search' \in [Searches -> {NoSearch} \cup [stage : {"failed"}, query : Asked]
                                            \cup Requests(indexed')]
    BY <1>1, <1>2, <2>1 DEF StateOK
  <2>3. walk \in {NoWalk} \cup [on : {TRUE}, owed : SUBSET (Found(Query(filters, 1))')]
    <3>1. CASE walk = NoWalk
      BY <3>1
    <3>2. CASE walk \in [on : {TRUE}, owed : SUBSET Found(Query(filters, 1))]
      <4>1. Found(Query(filters, 1)) \subseteq Found(Query(filters, 1))'
        BY <1>1, <1>3
      <4> QED
        BY <3>2, <4>1
    <3> QED
      BY <1>2, <3>1, <3>2 DEF StateOK
  <2>5. indexed' \subseteq Indexes
    BY <1>1, <1>2 DEF StateOK
  <2> QED
    BY <1>1, <1>2, <2>2, <2>3, <2>5 DEF StateOK
<1>5. ReadsOnePage'
  <2>1. \A n : InOrder(n)' <=> InOrder(n)
    BY <1>1 DEF InOrder
  <2>2. \A n : Complete(n)' <=> Complete(n)
    BY DEF Complete, Counted
  <2> QED
    BY <1>1, <1>2, <2>1, <2>2 DEF ReadsOnePage
<1>6. WalkGoesOn'
  <2> SUFFICES ASSUME walk.on PROVE WalkGoesOn'
    BY <1>1 DEF WalkGoesOn
  <2>1. ASSUME NEW page, page \in Nat, NEW q, OwedFrom(page, Found(q))
        PROVE  OwedFrom(page, Found(q))'
    <3>1. IsFiniteSet(Found(q)') /\ \A k \in Found(q)' : Rank(k, Found(q)', "desc") \in Nat
      <4>1. Found(q)' \in SUBSET indexed'
        BY DEF Found
      <4>2. IsFiniteSet(indexed)
        BY <1>2, RowsAreFinite
      <4>3. IsFiniteSet(indexed')
        BY <1>1, <4>2, FS_AddElement
      <4> QED
        BY <4>1, <4>3, FS_Subset, RankType
    <3>2. \A k \in Found(q) : Rank(k, Found(q), "desc") \in Nat
      BY <1>2, FoundIsIndexed, RowsAreFinite, RankType
    <3>3. \A k \in Found(q) : Rank(k, Found(q), "desc") <= Rank(k, Found(q)', "desc")
      BY <1>3, <3>1, RankGrows
    <3>4. (page - 1) * PageSize \in Int
      BY <2>1, PageSizePositive
    <3>5. ASSUME NEW k \in walk.owed
          PROVE  k \in Found(q)' /\ Rank(k, Found(q)', "desc") >= (page - 1) * PageSize
      <4>1. k \in Found(q) /\ Rank(k, Found(q), "desc") >= (page - 1) * PageSize
        BY <2>1 DEF OwedFrom
      <4> QED
        BY <1>3, <3>1, <3>2, <3>3, <3>4, <4>1
    <3> QED
      BY <1>1, <3>5 DEF OwedFrom
  <2>2. State.currentPage \in Nat /\ State.currentPage + 1 \in Nat
    BY <1>2 DEF StateOK
  <2>3. ASSUME NEW n, Fetching(n) PROVE Fetching(n)'
    <3>1. n.stage \in {"count", "select"} => OwedFrom(State.currentPage, Found(n.query))'
      BY <1>1, <2>1, <2>2, <2>3 DEF Fetching
    <3>2. n.counted \subseteq Found(n.query) => n.counted \subseteq Found(n.query)'
      BY <1>3
    <3>3. OwedFrom(State.currentPage, n.counted)' <=> OwedFrom(State.currentPage, n.counted)
      BY <1>1 DEF OwedFrom
    <3> QED
      BY <1>1, <2>3, <3>1, <3>2, <3>3 DEF Fetching, Counted
  <2>4. Idle => OwedFrom(State.currentPage + 1, Found(Query(filters, 1)))'
    BY <1>1, <1>2, <2>1, <2>2 DEF WalkGoesOn
  <2> QED
    BY <1>1, <1>2, <2>3, <2>4 DEF WalkGoesOn, Idle
<1>7. SearchIsNeverLockedOut'
  BY <1>1, <1>2 DEF SearchIsNeverLockedOut
<1> QED
  BY <1>4, <1>5, <1>6, <1>7 DEF IInv

\* Everything but the size of the published tree and the form stays.
LEMMA SameRequests ==
    ASSUME IInv, UNCHANGED <<log, indexed, search, State, pager, searching>>,
           filters' \in Filters, published' \in 0 .. MaxLog, published' >= published,
           \/ filters' = filters /\ walk' = walk
           \/ walk' = NoWalk
    PROVE  IInv'
<1>1. StateOK /\ ReadsOnePage /\ WalkGoesOn /\ SearchIsNeverLockedOut
  BY DEF IInv
<1>2. \A q : Found(q)' = Found(q)
  BY DEF Found
<1>3. StateOK'
  BY <1>1, <1>2 DEF StateOK
<1>4. ReadsOnePage'
  <2>1. \A n : InOrder(n)' <=> InOrder(n)
    BY DEF InOrder
  <2>2. \A n : Complete(n)' <=> Complete(n)
    BY DEF Complete, Counted
  <2> QED
    BY <1>1, <2>1, <2>2 DEF ReadsOnePage
<1>5. WalkGoesOn'
  <2> SUFFICES ASSUME filters' = filters, walk' = walk, walk.on PROVE WalkGoesOn'
    BY DEF WalkGoesOn, NoWalk
  <2>1. \A page, rows : OwedFrom(page, rows)' <=> OwedFrom(page, rows)
    BY DEF OwedFrom
  <2>2. \A n : Fetching(n)' <=> Fetching(n)
    BY <1>2, <2>1 DEF Fetching, Counted
  <2>3. \A i \in walk.owed : i < published'
    <3>1. walk.owed \subseteq Nat
      BY <1>1, WalkOwes, RowsAreFinite
    <3>2. published \in Nat /\ published' \in Nat
      BY <1>1, QueriesBounds DEF StateOK
    <3> QED
      BY <1>1, <3>1, <3>2 DEF WalkGoesOn
  <2>4. Idle => OwedFrom(State.currentPage + 1, Found(Query(filters, 1)))'
    BY <1>1, <1>2, <2>1 DEF WalkGoesOn
  <2> QED
    BY <1>1, <2>2, <2>3, <2>4 DEF WalkGoesOn, Idle
<1>6. SearchIsNeverLockedOut'
  BY <1>1 DEF SearchIsNeverLockedOut
<1> QED
  BY <1>3, <1>4, <1>5, <1>6 DEF IInv

-----------------------------------------------------------------------------
(* The page asks for a page of results.                                    *)

LEMMA FetchPreserves ==
    ASSUME IInv, NEW f \in Filters, NEW page \in Nat \ {0}, page = 1 \/ f = filters,
           Fetch(f, page), filters' = f,
           searching' \in BOOLEAN, searching' => searching \/ f # Blank
    PROVE  IInv'
<1>1. StateOK /\ ReadsOnePage /\ WalkGoesOn /\ SearchIsNeverLockedOut
  BY DEF IInv
<1> DEFINE q == Query(f, page)
           n == NewSearch(q)
<1>2. PICK s \in Searches : search[s] = NoSearch /\ search' = [search EXCEPT ![s] = n]
  BY DEF Fetch
<1>3. /\ State' = [State EXCEPT !.currentPage = page] /\ walk' = WalkOn(f, page)
      /\ UNCHANGED <<log, indexed, published, pager>>
  BY DEF Fetch
<1>4. /\ n \in [stage : {"failed"}, query : Asked] \cup Requests(indexed)
      /\ n.query = q /\ n.stage \in {"failed", "count"}
      /\ (n.stage = "count" => n.okIndexes = << >> /\ n.entries = << >>)
      /\ q \in Asked
  BY QueryIsAsked, NewRequest
<1> HIDE DEF n, q
<1>5. /\ search' \in [Searches ->
               {NoSearch} \cup [stage : {"failed"}, query : Asked] \cup Requests(indexed)]
      /\ search'[s] = n /\ \A t \in Searches \ {s} : search'[t] = search[t]
      /\ n # NoSearch
  <2>1. n # NoSearch
    BY <1>4 DEF NoSearch
  <2> QED
    BY <1>1, <1>2, <1>4, <2>1 DEF StateOK
<1>6. \A r : Found(r)' = Found(r)
  BY <1>3 DEF Found
<1>7. Found(Query(f, 1)) = Found(q)
  BY SameRows DEF q
<1>8. State' \in [currentPage : Nat \ {0}, totalCount : 0 .. MaxLog] /\ State'.currentPage = page
  BY <1>1, <1>3 DEF StateOK
\* What a walk under way owes.
<1>9. ASSUME walk'.on
      PROVE  /\ Idle /\ walk' \in [on : {TRUE}, owed : SUBSET Found(q)]
             /\ \A i \in walk'.owed : i < published
             /\ \A i \in walk'.owed : Rank(i, Found(q), "desc") >= (page - 1) * PageSize
  <2>1. CASE Idle /\ page = 1
    <3>1. walk' = [on |-> TRUE, owed |-> {i \in Found(Query(f, 1)) : i < published}]
      BY <1>3, <2>1 DEF WalkOn
    <3>2. walk'.owed = {i \in Found(q) : i < published}
      BY <1>7, <3>1
    <3>3. walk' \in [on : {TRUE}, owed : SUBSET Found(q)]
      BY <1>7, <3>1
    <3>4. (page - 1) * PageSize = 0
      BY <2>1, PageSizePositive
    <3>5. \A i \in walk'.owed : Rank(i, Found(q), "desc") >= 0
      <4>1. IsFiniteSet(Found(q))
        BY <1>1, FoundIsIndexed, RowsAreFinite
      <4>2. \A i \in Found(q) : Rank(i, Found(q), "desc") \in Nat
        BY <4>1, RankType
      <4> QED
        BY <3>2, <4>2
    <3> QED
      BY <2>1, <3>2, <3>3, <3>4, <3>5
  <2>2. CASE Idle /\ walk.on /\ page = State.currentPage + 1 /\ page # 1
    <3>1. walk' = walk /\ f = filters
      BY <1>3, <2>2 DEF WalkOn
    <3>2. walk' \in [on : {TRUE}, owed : SUBSET Found(q)]
      BY <1>1, <1>7, <2>2, <3>1, WalkOwes
    <3>3. /\ OwedFrom(State.currentPage + 1, Found(q))
          /\ \A i \in walk.owed : i < published
      BY <1>1, <1>7, <2>2, <3>1 DEF WalkGoesOn
    <3> QED
      BY <2>2, <3>1, <3>2, <3>3 DEF OwedFrom
  <2>3. CASE ~(Idle /\ page = 1) /\ ~(Idle /\ walk.on /\ page = State.currentPage + 1)
    BY <1>3, <1>9, <2>3 DEF WalkOn, NoWalk
  <2> QED
    BY <2>1, <2>2, <2>3
<1>10. walk' \in {NoWalk} \cup [on : {TRUE}, owed : SUBSET Found(q)]
  <2>1. CASE walk'.on
    BY <1>9, <2>1
  <2>2. CASE ~walk'.on
    BY <1>1, <1>3, <2>2, WalkOwes DEF WalkOn, NoWalk, StateOK
  <2> QED
    BY <2>1, <2>2
<1>11. StateOK'
  BY <1>1, <1>3, <1>5, <1>6, <1>7, <1>8, <1>10 DEF StateOK
<1>12. ReadsOnePage'
  <2>1. \A r : InOrder(r)' <=> InOrder(r)
    BY <1>3 DEF InOrder
  <2>2. \A r : Complete(r)' <=> Complete(r)
    BY DEF Complete, Counted
  <2> QED
    BY <1>1, <1>4, <1>5, <2>1, <2>2 DEF ReadsOnePage
<1>13. WalkGoesOn'
  <2> SUFFICES ASSUME walk'.on PROVE WalkGoesOn'
    BY DEF WalkGoesOn
  <2>1. ~Idle'
    BY <1>5 DEF Idle
  <2>2. \A t \in Searches : search'[t] # NoSearch => t = s
    BY <1>5, <1>9 DEF Idle
  <2>3. Fetching(n)'
    <3>1. OwedFrom(State.currentPage, Found(n.query))'
      BY <1>4, <1>6, <1>8, <1>9 DEF OwedFrom
    <3>2. n.query = Query(filters', State'.currentPage)
      BY <1>4, <1>8 DEF q
    <3> QED
      BY <1>4, <3>1, <3>2 DEF Fetching
  <2> QED
    BY <1>3, <1>5, <1>9, <2>1, <2>2, <2>3 DEF WalkGoesOn
<1>14. SearchIsNeverLockedOut'
  <2> SUFFICES ASSUME searching'
               PROVE  \E t \in Searches : search'[t] # NoSearch /\ ~SentAsLatest(search'[t].query)
    BY DEF SearchIsNeverLockedOut, SentAsLatest
  <2>1. CASE f # Blank
    BY <1>4, <1>5, <2>1, FormIsNotLatest DEF q
  <2>2. CASE searching
    <3>1. PICK t \in Searches : search[t] # NoSearch /\ ~SentAsLatest(search[t].query)
      BY <1>1, <2>2 DEF SearchIsNeverLockedOut
    <3> QED
      BY <1>2, <1>5, <3>1
  <2> QED
    BY <2>1, <2>2
<1> QED
  BY <1>11, <1>12, <1>13, <1>14 DEF IInv

LEMMA UserPreserves ==
    ASSUME IInv, User
    PROVE  IInv'
<1>1. filters \in Filters /\ State.currentPage \in Nat \ {0} /\ searching \in BOOLEAN
  BY DEF IInv, StateOK
<1>2. ASSUME NEW page \in Nat \ {0}, HandleSearch(page) PROVE IInv'
  <2>1. CASE filters = Blank /\ LoadInitialEvents(page)
    BY <1>1, <1>2, <2>1, FetchPreserves DEF LoadInitialEvents, HandleSearch
  <2>2. CASE filters # Blank /\ Fetch(filters, page) /\ searching' = TRUE
    BY <1>1, <1>2, <2>2, FetchPreserves DEF HandleSearch
  <2> QED
    BY <1>2, <2>1, <2>2 DEF HandleSearch
<1>3. CASE EditFilters
  <2>1. published \in 0 .. MaxLog /\ published >= published
    BY QueriesBounds DEF IInv, StateOK
  <2> QED
    BY <1>3, <2>1, SameRequests DEF EditFilters
<1>4. CASE ClickSearch \/ PressEnter
  BY <1>2, <1>4 DEF ClickSearch, PressEnter
<1>5. CASE ClearFilters
  BY <1>1, <1>5, FiltersHaveBlank, FetchPreserves DEF ClearFilters, LoadInitialEvents
<1>6. CASE PrevPage
  BY <1>1, <1>2, <1>6 DEF PrevPage
<1>7. CASE NextPage
  BY <1>1, <1>2, <1>7 DEF NextPage
<1> QED
  BY <1>3, <1>4, <1>5, <1>6, <1>7 DEF User

-----------------------------------------------------------------------------
(* The page gets an answer.                                                *)

LEMMA AnswerEnds ==
    ASSUME IInv, NEW s \in Searches, search[s] # NoSearch,
           search' = [search EXCEPT ![s] = NoSearch],
           UNCHANGED <<log, indexed, published, filters>>,
           State' \in [currentPage : Nat \ {0}, totalCount : 0 .. MaxLog],
           pager' \in [prev : BOOLEAN, next : BOOLEAN],
           searching' = StillSearching(s),
           walk' \in {NoWalk} \cup [on : {TRUE}, owed : SUBSET Found(Query(filters, 1))],
           walk'.on => /\ walk.on /\ walk'.owed \subseteq walk.owed
                       /\ OwedFrom(State.currentPage + 1, Found(Query(filters, 1)))'
                       /\ ~pager'.next => walk'.owed = {}
    PROVE  IInv'
<1>1. StateOK /\ ReadsOnePage /\ WalkGoesOn /\ SearchIsNeverLockedOut
  BY DEF IInv
<1>2. /\ search' \in [Searches ->
               {NoSearch} \cup [stage : {"failed"}, query : Asked] \cup Requests(indexed)]
      /\ search'[s] = NoSearch /\ \A t \in Searches \ {s} : search'[t] = search[t]
  BY <1>1 DEF StateOK
<1>3. \A q : Found(q)' = Found(q)
  BY DEF Found
<1>4. StateOK'
  <2>1. searching' \in BOOLEAN
    BY DEF StillSearching, SentAsLatest
  <2> QED
    BY <1>1, <1>2, <1>3, <2>1 DEF StateOK
<1>5. ReadsOnePage'
  <2>1. \A n : InOrder(n)' <=> InOrder(n)
    BY DEF InOrder
  <2>2. \A n : Complete(n)' <=> Complete(n)
    BY DEF Complete, Counted
  <2>3. NoSearch.stage \notin {"count", "select", "read"}
    BY DEF NoSearch
  <2> QED
    BY <1>1, <1>2, <2>1, <2>2, <2>3 DEF ReadsOnePage
<1>6. WalkGoesOn'
  <2> SUFFICES ASSUME walk'.on PROVE WalkGoesOn'
    BY DEF WalkGoesOn
  <2>1. \A t \in Searches : search'[t] = NoSearch
    BY <1>1, <1>2 DEF WalkGoesOn
  <2>2. \A i \in walk'.owed : i < published
    BY <1>1 DEF WalkGoesOn
  <2> QED
    BY <2>1, <2>2 DEF WalkGoesOn
<1>7. SearchIsNeverLockedOut'
  <2> SUFFICES ASSUME searching'
               PROVE  \E t \in Searches : search'[t] # NoSearch /\ ~SentAsLatest(search'[t].query)
    BY DEF SearchIsNeverLockedOut, SentAsLatest
  <2>1. searching /\ SentAsLatest(search[s].query)
    BY <1>1 DEF StillSearching, StateOK
  <2>2. PICK t \in Searches : search[t] # NoSearch /\ ~SentAsLatest(search[t].query)
    BY <1>1, <2>1 DEF SearchIsNeverLockedOut
  <2> QED
    BY <1>2, <2>1, <2>2
<1> QED
  BY <1>4, <1>5, <1>6, <1>7 DEF IInv

\* Rendering keeps the page number, and next tells whether it is the last.
LEMMA Rendered ==
    ASSUME StateOK, NEW shown, NEW total \in 0 .. MaxLog, Render(shown, total)
    PROVE  /\ State' \in [currentPage : Nat \ {0}, totalCount : 0 .. MaxLog]
           /\ pager' \in [prev : BOOLEAN, next : BOOLEAN]
           /\ State'.currentPage = State.currentPage
           /\ shown # << >> /\ ~pager'.next => total <= State.currentPage * PageSize
<1> DEFINE t == IF shown = << >> THEN 0 ELSE total
           prev == TotalPages(t) > 1 /\ State.currentPage > 1
           next == State.currentPage < TotalPages(t)
<1>1. t \in 0 .. MaxLog /\ total \in Nat
  BY QueriesBounds
<1>2. State' = [State EXCEPT !.totalCount = t] /\ pager' = [prev |-> prev, next |-> next]
  BY DEF Render
<1>3. prev \in BOOLEAN /\ next \in BOOLEAN
  OBVIOUS
<1>4. State \in [currentPage : Nat \ {0}, totalCount : 0 .. MaxLog]
  BY DEF StateOK
<1>5. shown # << >> /\ ~next => total <= State.currentPage * PageSize
  BY <1>1, <1>4, LastPage
<1> HIDE DEF t, prev, next
<1> QED
  BY <1>1, <1>2, <1>3, <1>4, <1>5

LEMMA ReceivePreserves ==
    ASSUME IInv, NEW s \in Searches, Receive(s)
    PROVE  IInv'
<1>1. StateOK /\ ReadsOnePage /\ WalkGoesOn
  BY DEF IInv
<1> DEFINE r == search[s]
           ok == r.okIndexes
           shown == RowsFromApiResponse(r)
           here == Found(Query(filters, 1))
           page == State.currentPage
<1>2. /\ r.stage = "read" /\ r.todo = {} /\ Render(shown, TotalCount(r))
      /\ searching' = StillSearching(s)
      /\ walk' = WalkSees(shown, ~r.blurred /\ shown # << >>)
      /\ search' = [search EXCEPT ![s] = NoSearch]
      /\ UNCHANGED <<log, indexed, published, filters>>
  BY DEF Receive, Answered
<1>3. r \in Requests(indexed) /\ r # NoSearch
  BY <1>1, <1>2, Stages
<1>4. InOrder(r)
  BY <1>1, <1>2 DEF ReadsOnePage
<1>5. /\ r.counted \in SUBSET indexed /\ ok \in Seq(indexed) /\ r.entries = ok
      /\ r.query.order = "desc" /\ r.query.limit = PageSize
  BY <1>3, <1>4, RequestTypes DEF InOrder
<1>6. TotalCount(r) \in 0 .. MaxLog
  BY <1>1, <1>5, RowsAreFinite DEF TotalCount
<1>7. /\ State' \in [currentPage : Nat \ {0}, totalCount : 0 .. MaxLog]
      /\ pager' \in [prev : BOOLEAN, next : BOOLEAN]
      /\ State'.currentPage = page
      /\ shown # << >> /\ ~pager'.next => TotalCount(r) <= page * PageSize
  <2> HIDE DEF shown, r, page
  <2> QED
    BY <1>1, <1>2, <1>6, Rendered DEF page
<1>8. {shown[k][2] : k \in DOMAIN shown} = {ok[k] : k \in DOMAIN ok}
  <2>1. shown = [k \in 1 .. Len(ok) |-> <<ok[k], ok[k]>>]
    BY <1>5 DEF RowsFromApiResponse, Zip
  <2>2. DOMAIN ok = 1 .. Len(ok)
    BY <1>5
  <2> HIDE DEF shown, ok
  <2>3. DOMAIN shown = DOMAIN ok /\ \A k \in DOMAIN ok : shown[k][2] = ok[k]
    BY <2>1, <2>2
  <2> QED
    BY <2>3
<1> DEFINE rest == walk.owed \ {ok[k] : k \in DOMAIN ok}
<1>9. walk'.on => /\ walk.on /\ ~r.blurred /\ shown # << >>
                  /\ walk' = [on |-> TRUE, owed |-> rest]
  <2> HIDE DEF shown, ok, r
  <2>1. walk' = IF walk.on /\ ~r.blurred /\ shown # << >>
                THEN [walk EXCEPT !.owed = walk.owed \ {shown[k][2] : k \in DOMAIN shown}]
                ELSE NoWalk
    BY <1>2 DEF WalkSees
  <2>2. ASSUME walk'.on PROVE walk.on /\ ~r.blurred /\ shown # << >>
    BY <2>1, <2>2 DEF NoWalk
  <2>3. ASSUME walk'.on PROVE walk' = [on |-> TRUE, owed |-> rest]
    BY <1>1, <1>8, <2>1, <2>2, <2>3, WalkOwes
  <2> QED
    BY <2>2, <2>3
<1>10. walk' \in {NoWalk} \cup [on : {TRUE}, owed : SUBSET here]
  <2> HIDE DEF shown, ok, r
  <2>1. CASE walk.on /\ ~r.blurred /\ shown # << >>
    <3>1. walk' = [on |-> TRUE, owed |-> rest]
      BY <1>1, <1>2, <1>8, <2>1, WalkOwes DEF WalkSees
    <3>2. rest \in SUBSET here
      BY <1>1, <2>1, WalkOwes
    <3> HIDE DEF rest, here
    <3> QED
      BY <3>1, <3>2
  <2>2. CASE ~(walk.on /\ ~r.blurred /\ shown # << >>)
    BY <1>2, <2>2 DEF WalkSees
  <2> QED
    BY <2>1, <2>2
<1>11. ASSUME walk'.on
       PROVE  /\ walk.on /\ walk'.owed = rest
              /\ \A i \in rest : i \in here /\ Rank(i, here, "desc") >= page * PageSize
              /\ ~pager'.next => rest = {}
  <2>1. walk.on /\ ~r.blurred /\ shown # << >> /\ walk'.owed = rest
    <3> HIDE DEF rest, shown, r
    <3> QED
      BY <1>9, <1>11
  <2>2. Fetching(r)
    BY <1>1, <1>3, <2>1 DEF WalkGoesOn
  <2>3. /\ r.query = Query(filters, page) /\ r.counted \subseteq Found(r.query)
        /\ OwedFrom(page, r.counted)
        /\ \A i \in walk.owed \cap Counted(r) : i \in r.todo \/ Took(r, i)
    BY <1>2, <2>1, <2>2 DEF Fetching
  <2>4. Found(r.query) = here
    BY <2>3, SameRows
  <2>5. /\ page \in Nat \ {0} /\ filters \in Filters
        /\ r.query.offset = (page - 1) * PageSize
    BY <1>1, <2>3, QueryIsAsked DEF StateOK
  <2>6. (page - 1) * PageSize + PageSize = page * PageSize /\ (page - 1) * PageSize \in Nat
    BY <2>5, PageSizePositive
  <2>7. ASSUME NEW i \in rest
        PROVE  i \in r.counted /\ Rank(i, r.counted, "desc") >= page * PageSize
    <3>1. i \in r.counted /\ Rank(i, r.counted, "desc") >= (page - 1) * PageSize
      BY <2>3 DEF OwedFrom
    <3>2. i \notin Counted(r)
      BY <1>2, <2>3 DEF Took
    <3>3. ~(Rank(i, r.counted, "desc") < (page - 1) * PageSize + PageSize)
      BY <1>5, <2>5, <3>1, <3>2, PageSizePositive DEF Counted, Page
    <3>4. Rank(i, r.counted, "desc") \in Nat
      BY <1>1, <1>5, RowsAreFinite, RankType
    <3> HIDE DEF page, r, rest
    <3> QED
      BY <2>6, <3>1, <3>3, <3>4, PageSizePositive
  <2>8. ASSUME NEW i \in rest PROVE i \in here /\ Rank(i, here, "desc") >= page * PageSize
    <3>1. IsFiniteSet(here) /\ r.counted \in SUBSET here
      BY <1>1, <2>3, <2>4, FoundIsIndexed, RowsAreFinite
    <3>2. /\ Rank(i, r.counted, "desc") <= Rank(i, here, "desc")
          /\ Rank(i, r.counted, "desc") \in Nat /\ Rank(i, here, "desc") \in Nat
      <4> HIDE DEF here, rest
      <4> QED
        BY <1>1, <1>5, <3>1, RowsAreFinite, RankType, RankGrows
    <3>3. i \in r.counted /\ Rank(i, r.counted, "desc") >= page * PageSize
      BY <2>7
    <3>4. page * PageSize \in Nat
      BY <2>5, PageSizePositive
    <3> HIDE DEF here, rest, page, r
    <3> QED
      BY <3>1, <3>2, <3>3, <3>4
  <2>9. ASSUME ~pager'.next, NEW i \in rest PROVE FALSE
    <3>1. i \in r.counted /\ Rank(i, r.counted, "desc") >= page * PageSize
      BY <2>7
    <3>2. Rank(i, r.counted, "desc") < TotalCount(r) /\ Rank(i, r.counted, "desc") \in Nat
      BY <1>1, <1>5, <3>1, RowsAreFinite, RankType, RankBelowCount DEF TotalCount
    <3>3. TotalCount(r) <= page * PageSize
      BY <1>7, <2>1, <2>9
    <3>4. page * PageSize \in Nat /\ TotalCount(r) \in Nat
      BY <1>6, <2>5, PageSizePositive, QueriesBounds
    <3> HIDE DEF rest, page, r
    <3> QED
      BY <3>1, <3>2, <3>3, <3>4
  <2> HIDE DEF rest, here, page
  <2> QED
    BY <2>1, <2>8, <2>9
<1>12. ASSUME walk'.on
       PROVE  /\ walk.on /\ walk'.owed \subseteq walk.owed
              /\ OwedFrom(page + 1, here)'
              /\ ~pager'.next => walk'.owed = {}
  <2>1. Found(Query(filters, 1))' = here
    BY <1>2 DEF Found
  <2>2. walk.on /\ walk'.owed = rest /\ (~pager'.next => walk'.owed = {})
    BY <1>11, <1>12
  <2>3. ((State.currentPage + 1) - 1)' = page
    BY <1>1, <1>7 DEF StateOK
  <2>4. \A i \in walk'.owed : i \in here /\ Rank(i, here, "desc") >= page * PageSize
    BY <1>11, <1>12, <2>2
  <2>5. OwedFrom(State.currentPage + 1, Found(Query(filters, 1)))'
    <3>1. (walk.owed \subseteq {i \in Found(Query(filters, 1)) :
              Rank(i, Found(Query(filters, 1)), "desc")
                  >= ((State.currentPage + 1) - 1) * PageSize})'
      <4> HIDE DEF here, page
      <4> QED
        BY <2>1, <2>3, <2>4
    <3> QED
      BY ONLY <3>1 DEF OwedFrom
  <2> QED
    BY <2>2, <2>5
<1> QED
  BY <1>2, <1>3, <1>7, <1>10, <1>12, AnswerEnds

LEMMA ReceiveErrorPreserves ==
    ASSUME IInv, NEW s \in Searches, ReceiveError(s)
    PROVE  IInv'
<1>1. StateOK /\ 0 \in 0 .. MaxLog
  BY QueriesBounds DEF IInv
<1>2. /\ search[s] # NoSearch /\ Render(<< >>, 0) /\ searching' = StillSearching(s)
      /\ walk' = NoWalk /\ search' = [search EXCEPT ![s] = NoSearch]
      /\ UNCHANGED <<log, indexed, published, filters>>
  BY DEF ReceiveError, WalkSees
<1>3. /\ State' \in [currentPage : Nat \ {0}, totalCount : 0 .. MaxLog]
      /\ pager' \in [prev : BOOLEAN, next : BOOLEAN]
  BY <1>1, <1>2, Rendered
<1> QED
  BY <1>2, <1>3, AnswerEnds DEF NoWalk

-----------------------------------------------------------------------------
(* The theorems.                                                           *)

LEMMA InitEstablishesIInv == Init => IInv
<1> SUFFICES ASSUME Init PROVE IInv
  OBVIOUS
<1> DEFINE n == NewSearch(Query(Blank, 1))
<1>1. PICK s \in Searches :
         search = [t \in Searches |-> IF t = s THEN n ELSE NoSearch]
  BY DEF Init
<1>2. /\ n \in [stage : {"failed"}, query : Asked] \cup Requests(indexed)
      /\ n.stage \in {"failed", "count"}
      /\ (n.stage = "count" => n.okIndexes = << >> /\ n.entries = << >>)
  BY FiltersHaveBlank, QueryIsAsked, NewRequest
<1> HIDE DEF n
<1>3. StateOK
  <2>1. 0 \in 0 .. MaxLog /\ 1 \in Nat \ {0} /\ {} \subseteq Indexes
    BY QueriesBounds
  <2>2. search \in [Searches ->
            {NoSearch} \cup [stage : {"failed"}, query : Asked] \cup Requests(indexed)]
    BY <1>1, <1>2
  <2> QED
    BY <2>1, <2>2, FiltersHaveBlank DEF Init, QueriesInit, StateOK
<1>4. ReadsOnePage
  <2>1. NoSearch.stage \notin {"count", "select", "read"}
    BY DEF NoSearch
  <2> QED
    BY <1>1, <1>2, <2>1 DEF ReadsOnePage
<1>5. WalkGoesOn
  BY DEF Init, NoWalk, WalkGoesOn
<1>6. SearchIsNeverLockedOut
  BY DEF Init, SearchIsNeverLockedOut
<1> QED
  BY <1>3, <1>4, <1>5, <1>6 DEF IInv

LEMMA NextPreservesIInv == IInv /\ [Next]_vars => IInv'
<1> SUFFICES ASSUME IInv, [Next]_vars PROVE IInv'
  OBVIOUS
<1>1. CASE User
  BY <1>1, UserPreserves
<1>2. ASSUME NEW s \in Searches, Receive(s) \/ ReceiveError(s) PROVE IInv'
  BY <1>2, ReceivePreserves, ReceiveErrorPreserves
<1>3. ASSUME NEW s \in Searches, SearchStep(s), UNCHANGED pageVars PROVE IInv'
  BY <1>3, SearchStepPreserves
<1>4. CASE Environment /\ UNCHANGED pageVars
  <2>1. ASSUME NEW i \in Indexes \ indexed, InsertRow(i) PROVE IInv'
    BY <1>4, <2>1, InsertPreserves
  <2>2. CASE PublishCheckpoint
    <3>1. published' \in 0 .. MaxLog /\ published' >= published /\ filters' \in Filters
      BY <1>4, <2>2, QueriesBounds DEF PublishCheckpoint, IInv, StateOK, pageVars
    <3> QED
      BY <1>4, <2>2, <3>1, SameRequests DEF PublishCheckpoint, pageVars
  <2> QED
    BY <1>4, <2>1, <2>2 DEF Environment
<1>5. CASE UNCHANGED vars
  <2>1. published' \in 0 .. MaxLog /\ published' >= published /\ filters' \in Filters
    BY <1>5, QueriesBounds DEF vars, IInv, StateOK
  <2> QED
    BY <1>5, <2>1, SameRequests DEF vars
<1> QED
  BY <1>1, <1>2, <1>3, <1>4, <1>5 DEF Next

LEMMA Invariance == Spec => []IInv
BY InitEstablishesIInv, NextPreservesIInv, PTL DEF Spec

\* The state is well formed, and the table never exceeds a page
\* (search.go:56-67, consult.html:159-176).
THEOREM TypeCorrect == Spec => []TypeOK
<1>1. IInv => TypeOK
  <2> SUFFICES ASSUME IInv PROVE TypeOK
    OBVIOUS
  <2>1. ASSUME NEW s \in Searches, Answered(s)
        PROVE  /\ search[s].okIndexes \in Seq(indexed)
               /\ Len(search[s].okIndexes) <= PageSize
    <3>1. search[s] \in Requests(indexed) /\ search[s].stage = "read" /\ search[s].todo = {}
      BY <2>1, Stages DEF Answered, IInv
    <3>2. search[s].okIndexes \in Seq(indexed)
      BY <3>1, RequestTypes
    <3>3. Gathered(search[s]) <= PageSize
      BY <3>1 DEF IInv, ReadsOnePage, InOrder
    <3>4. Cardinality(search[s].todo) = 0
      BY <3>1, FS_EmptySet
    <3>5. Gathered(search[s]) = Len(search[s].okIndexes)
      BY <3>2, <3>4 DEF Gathered
    <3> QED
      BY <3>2, <3>3, <3>5
  <2>2. State.currentPage \in Nat \ {0} /\ State.totalCount \in 0 .. MaxLog
    BY DEF IInv, StateOK
  <2> QED
    BY <2>1, <2>2 DEF IInv, StateOK, TypeOK
<1> QED
  BY <1>1, Invariance, PTL

\* The entries of an answer stay paired with their indexes, in the order asked
\* for, and match the filters, whatever could not be read (query.go:93-138).
THEOREM AnswersArePaired == Spec => []AnswersPairEntries
<1>1. IInv => AnswersPairEntries
  <2> SUFFICES ASSUME IInv, NEW s \in Searches, Answered(s)
               PROVE  LET r == search[s]
                      IN  /\ r.okIndexes = r.entries
                          /\ \A k \in DOMAIN r.entries : Matches(log[r.entries[k]], r.query)
                          /\ \A k, l \in DOMAIN r.entries :
                                 k < l => Before(r.entries[k], r.entries[l], r.query.order)
    BY DEF AnswersPairEntries
  <2>1. InOrder(search[s])
    BY DEF IInv, ReadsOnePage, Answered
  <2> QED
    BY <2>1 DEF InOrder
<1> QED
  BY <1>1, Invariance, PTL

\* An answer that says there is no more leaves out no row counted from its
\* page on, although rows are inserted between the steps of the search
\* (query.go:128, search.go:47-69).
THEOREM NoMoreIsAll == Spec => []NoMoreMeansAll
<1>1. IInv => NoMoreMeansAll
  <2> SUFFICES ASSUME IInv, NEW s \in Searches, Answered(s), ~HasMore(search[s]),
                      ~search[s].blurred, NEW i \in search[s].counted,
                      Rank(i, search[s].counted, search[s].query.order)
                          >= search[s].query.offset
               PROVE  \E k \in DOMAIN search[s].entries : search[s].entries[k] = i
    BY DEF NoMoreMeansAll
  <2> DEFINE r == search[s]
             offset == r.query.offset
             rest == {j \in r.counted : Rank(j, r.counted, r.query.order) >= offset}
  <2>1. StateOK /\ r.stage = "read" /\ r.todo = {} /\ r \in Requests(indexed)
    BY Stages DEF Answered, IInv
  <2>2. InOrder(r) /\ Complete(r)
    BY <2>1 DEF IInv, ReadsOnePage
  <2>3. /\ r.counted \in SUBSET indexed /\ r.okIndexes \in Seq(indexed)
        /\ r.query.limit = PageSize /\ offset \in Nat
    BY <2>1, RequestTypes
  <2>4. r.counted \in SUBSET Nat /\ IsFiniteSet(r.counted) /\ Cardinality(r.counted) \in Nat
    BY <2>1, <2>3, RowsAreFinite, FS_CardinalityType
  <2>5. IsFiniteSet(rest) /\ offset + Cardinality(rest) <= Cardinality(r.counted)
    <3>1. rest # {}
      OBVIOUS
    <3> HIDE DEF r, offset
    <3> QED
      BY <2>3, <2>4, <3>1, OffsetIsSkipped
  <2>6. Counted(r) \in SUBSET rest
    BY DEF Counted, Page
  <2>7. Gathered(r) = Len(r.okIndexes)
    <3>1. Cardinality(r.todo) = 0
      BY <2>1, FS_EmptySet
    <3> QED
      BY <2>3, <3>1 DEF Gathered
  <2>8. Cardinality(r.counted) <= offset + Len(r.okIndexes)
    BY <2>3, <2>4 DEF HasMore, TotalCount
  <2>9. /\ Cardinality(Counted(r)) <= Cardinality(rest)
        /\ Cardinality(rest) = Cardinality(Counted(r)) => rest = Counted(r)
        /\ Cardinality(Counted(r)) \in Nat /\ Cardinality(rest) \in Nat
    <3> HIDE DEF rest
    <3> QED
      BY <2>5, <2>6, FS_Subset, FS_CardinalityType
  <2>10. Gathered(r) <= Cardinality(Counted(r))
    BY <2>2 DEF Complete
  <2>11. Cardinality(Counted(r)) = Cardinality(rest) /\ Gathered(r) = Cardinality(rest)
    <3> HIDE DEF rest, r, offset
    <3> QED
      BY <2>3, <2>4, <2>5, <2>7, <2>8, <2>9, <2>10
  <2>12. i \in Counted(r)
    BY <2>9, <2>11
  <2>13. Took(r, i)
    <3>1. ~(Gathered(r) < Cardinality(Counted(r)))
      BY <2>9, <2>11
    <3> QED
      BY <2>1, <2>2, <2>12, <3>1 DEF Complete
  <2> QED
    BY <2>2, <2>13 DEF InOrder, Took
<1> QED
  BY <1>1, Invariance, PTL

\* A walk from the first page to the last shows every published entry that
\* matched when it began, although pages shift under it
\* (consult.html:159-176, 358-366, search.go:56-67).
THEOREM NothingIsMissed == Spec => []WalkMissesNothing
<1>1. IInv => WalkMissesNothing
  BY DEF IInv, WalkGoesOn, WalkMissesNothing
<1> QED
  BY <1>1, Invariance, PTL

\* The search button is disabled only while a search that releases it is under
\* way (consult.html:343-355).
THEOREM NeverLockedOut == Spec => []SearchIsNeverLockedOut
<1>1. IInv => SearchIsNeverLockedOut
  BY DEF IInv
<1> QED
  BY <1>1, Invariance, PTL
=============================================================================
