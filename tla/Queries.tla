------------------------------ MODULE Queries ------------------------------
(***************************************************************************)
(* GET /entries (server/internal/api/query.go, index/search.go): a paged   *)
(* search of the index, followed by a read of every entry found from the   *)
(* published log. Nothing makes the COUNT, the SELECT and the reads one    *)
(* step: rows are inserted and checkpoints published between them.         *)
(*                                                                         *)
(* The rows describe the entries at their log indexes (RowsMirrorLog of    *)
(* NotaryServer), so the index is the set of the log indexes that have a   *)
(* row. Rows are never removed.                                            *)
(***************************************************************************)
EXTENDS Integers, Sequences, FiniteSets

CONSTANTS
    Searches,       \* requests in flight, at most
    Events,         \* what entries can be: [doc_id, issuer, recorded_at]
    DayLength,      \* instants in a day
    Faults,         \* which failures may happen
    MaxLog          \* bound: length of the log

ASSUME QueriesFaults == Faults \subseteq {"db", "read", "network"}
ASSUME QueriesBounds == MaxLog \in Nat /\ DayLength \in Nat \ {0}

VARIABLES
    log,            \* the entries, sequenced so far or later
    indexed,        \* log indexes that have a row in notary_index
    published,      \* size of the published tree
    search          \* each request: its handler's locals and its answer

serverVars == <<log, indexed, published>>

Indexes == 0 .. MaxLog - 1

-----------------------------------------------------------------------------
(* Parameters. A blank text and the zero time filter nothing.              *)

NoText == ""
NoDay == 0          \* time.Time{}, which 0001-01-01 parses to as well

\* Bad values of order, offset and limit, and an inverted range of dates.
\* A limit of 0 stands for no limit given.
ParseFails(q) ==
    \/ q.order \notin {"asc", "desc"}
    \/ q.offset < 0 \/ q.limit < 0
    \/ q.date_from # NoDay /\ q.date_to # NoDay /\ q.date_from > q.date_to

FromInclusive(q) == q.date_from * DayLength
ToExclusive(q) == (q.date_to + 1) * DayLength

Matches(event, q) ==
    /\ q.doc_id \in {NoText, event.doc_id}
    /\ q.issuer \in {NoText, event.issuer}
    /\ q.date_from # NoDay => event.recorded_at >= FromInclusive(q)
    /\ q.date_to # NoDay => event.recorded_at < ToExclusive(q)

\* The rows the WHERE clause selects now.
Found(q) == {i \in indexed : Matches(log[i], q)}

Before(i, j, order) == IF order = "desc" THEN i > j ELSE i < j
Rank(i, rows, order) == Cardinality({j \in rows : Before(j, i, order)})

\* A slip: the limit is bound only together with an offset.
PageUnlimited(rows, q) ==
    {i \in rows : LET r == Rank(i, rows, q.order)
                  IN  q.offset <= r /\ (q.offset > 0 => r < q.offset + q.limit)}

\* ORDER BY log_index LIMIT limit OFFSET offset
Page(rows, q) ==
    {i \in rows : LET r == Rank(i, rows, q.order)
                  IN  q.offset <= r /\ (q.limit > 0 => r < q.offset + q.limit)}

-----------------------------------------------------------------------------
(* A search: the locals of SearchEntries. "counted" holds the rows that    *)
(* SELECT COUNT counted (the program keeps their number only); "blurred"   *)
(* is a history variable: the SELECT found a row the COUNT had not, or a   *)
(* published entry could not be read.                                      *)

NoSearch == [stage |-> "none"]

Failed(q) == [stage |-> "failed", query |-> q]

NewSearch(q) ==
    IF ParseFails(q) THEN Failed(q)
    ELSE [stage |-> "count", query |-> q, counted |-> {}, blurred |-> FALSE,
          todo |-> {}, okIndexes |-> << >>, entries |-> << >>]

TotalCount(r) == Cardinality(r.counted)

First(r) == CHOOSE i \in r.todo : Rank(i, r.todo, r.query.order) = 0

\* A slip: the index of an entry that could not be read is answered.
SkipOnlyEntry(r, i) == [r EXCEPT !.todo = @ \ {i}, !.okIndexes = Append(@, i)]

\* An entry that cannot be read is left out of the answer, with its index.
Skip(r, i) == [r EXCEPT !.todo = @ \ {i}]

\* An entry is known by its place in the log.
Take(r, i) ==
    [r EXCEPT !.todo = @ \ {i}, !.okIndexes = Append(@, i),
              !.entries = Append(@, i)]

Answered(s) == search[s].stage = "read" /\ search[s].todo = {}
Refused(s) == search[s].stage = "failed"

\* A slip: has_more compares with the last row of the page to come.
HasMoreBeyondNext(r) ==
    r.query.offset + Len(r.okIndexes) + 1 < TotalCount(r)

HasMore(r) == r.query.offset + Len(r.okIndexes) < TotalCount(r)

-----------------------------------------------------------------------------
QueriesInit ==
    /\ log \in [Indexes -> Events]
    /\ indexed = {}
    /\ published = 0

\* AddEvent inserts rows in any order, before or after the publication.
InsertRow(i) ==
    /\ indexed' = indexed \cup {i}
    /\ UNCHANGED <<log, published, search>>

PublishCheckpoint ==
    /\ published < MaxLog
    /\ published' = published + 1
    /\ UNCHANGED <<log, indexed, search>>

Count(s) ==
    /\ search[s].stage = "count"
    /\ search' = [search EXCEPT ![s].stage = "select",
                                ![s].counted = Found(search[s].query)]
    /\ UNCHANGED serverVars

Select(s) ==
    LET q == search[s].query
    IN  /\ search[s].stage = "select"
        /\ search' = [search EXCEPT ![s].stage = "read",
                                    ![s].todo = Page(Found(q), q),
                                    ![s].blurred = Found(q) # search[s].counted]
        /\ UNCHANGED serverVars

QueryFails(s) ==
    /\ "db" \in Faults
    /\ search[s].stage \in {"count", "select"}
    /\ search' = [search EXCEPT ![s] = Failed(@.query)]
    /\ UNCHANGED serverVars

\* Each entry is read from the log as it is published by then.
ReadEntry(s) ==
    LET i == First(search[s])
    IN  /\ search[s].stage = "read" /\ search[s].todo # {}
        /\ search' = [search EXCEPT ![s] = IF i < published THEN Take(@, i)
                                                            ELSE Skip(@, i)]
        /\ UNCHANGED serverVars

ReadFails(s) ==
    /\ "read" \in Faults
    /\ search[s].stage = "read" /\ search[s].todo # {}
    /\ search' = [search EXCEPT ![s] = [Skip(@, First(@)) EXCEPT !.blurred = TRUE]]
    /\ UNCHANGED serverVars

SearchStep(s) ==
    Count(s) \/ Select(s) \/ QueryFails(s) \/ ReadEntry(s) \/ ReadFails(s)

Environment == (\E i \in Indexes \ indexed : InsertRow(i)) \/ PublishCheckpoint

-----------------------------------------------------------------------------
(* Properties of an answer. *)

\* Entries and indexes stay paired although unreadable entries are left out,
\* come in the requested order, and each matches the filters.
AnswersPairEntries ==
    \A s \in Searches : Answered(s) =>
        LET r == search[s]
        IN  /\ r.okIndexes = r.entries
            /\ \A k \in DOMAIN r.entries : Matches(log[r.entries[k]], r.query)
            /\ \A k, l \in DOMAIN r.entries :
                   k < l => Before(r.entries[k], r.entries[l], r.query.order)

\* When an answer says there is no more, every row counted that is ranked on
\* the page or after it has been answered, unless a row slipped in between
\* the COUNT and the SELECT or a read failed (query.go:128, search.go:47-69).
NoMoreMeansAll ==
    \A s \in Searches : Answered(s) /\ ~HasMore(search[s]) =>
        LET r == search[s]
        IN  r.blurred \/
            \A i \in r.counted : Rank(i, r.counted, r.query.order) >= r.query.offset
                                    => \E k \in DOMAIN r.entries : r.entries[k] = i
=============================================================================
