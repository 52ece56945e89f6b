----------------------------- MODULE NotaryIndex -----------------------------
(***************************************************************************)
(* The SQLite table notary_index beside the log (server/internal/index):   *)
(* its rows, keyed by log_index, the insert with its two uniqueness        *)
(* constraints, the lookups AddEvent and the queries use, and the check    *)
(* of the table against the log that runs at startup.                      *)
(*                                                                         *)
(* A table is a function from the set of its log indexes to the other      *)
(* columns. Log indexes are the code's: the entry at index i is the        *)
(* (i+1)-th of the sequence.                                               *)
(***************************************************************************)
EXTENDS AddRequest, Sequences, FiniteSets

CONSTANT TailCount      \* startupTailCheckCount, 10 in the code

ASSUME TailCountAssumption == TailCount \in Nat

EmptyTable == [i \in {} |-> None]

\* SHA-256 is a free constructor: equal digests have equal preimages.
LeafHash(ev) == [sha256 |-> ev]

\* The metadata columns AddEvent hands to AddEntry for an event.
RowFor(ev) ==
    [doc |-> Trim(ev.doc), event_id |-> Trim(ev.id), entity |-> Trim(ev.entity),
     doc_hash |-> Trim(DocHash(ev)), leaf_hash |-> LeafHash(ev),
     recorded_at |-> ev.recorded_at]

-----------------------------------------------------------------------------
(* Insert. *)

\* A slip: the UNIQUE on doc_id instead of event_id.
UniqueDocID(table, i, row) ==
    \/ i \in DOMAIN table
    \/ \E j \in DOMAIN table : table[j].doc = row.doc

\* PRIMARY KEY on log_index, UNIQUE on event_id.
ViolatesConstraint(table, i, row) ==
    \/ i \in DOMAIN table
    \/ \E j \in DOMAIN table : table[j].event_id = row.event_id

WithRow(table, i, row) ==
    [j \in DOMAIN table \cup {i} |-> IF j = i THEN row ELSE table[j]]

\* The column for the recording time is computed from its text, which has to
\* parse before the row is tried.
HasReadableTime(row) == ParsesAsTime(FormatUTC(row.recorded_at))

AddEntry(table, i, row) ==
    IF HasReadableTime(row) /\ ~ViolatesConstraint(table, i, row)
    THEN WithRow(table, i, row) ELSE table

-----------------------------------------------------------------------------
(* Lookups. The WHERE clause selects a set of indexes; ORDER BY ... DESC   *)
(* LIMIT 1 picks the greatest.                                             *)

\* A slip: LIMIT 1 without the ORDER BY.
IsAny(i, S) == i \in S
IsGreatest(i, S) == i \in S /\ \A j \in S : j <= i

IndexesByDocID(table, doc) == {i \in DOMAIN table : table[i].doc = doc}

\* sql.ErrNoRows: the document has no indexed event.
NoLatestIndex(table, doc) == IndexesByDocID(table, doc) = {}
IsLatestIndexByDocID(table, doc, i) == IsGreatest(i, IndexesByDocID(table, doc))

-----------------------------------------------------------------------------
(* Startup check. *)

\* validateIndexedRowAgainstEntry, column by column.
RowMatchesEntry(row, ev) ==
    /\ Trim(row.doc) = Trim(ev.doc)
    /\ Trim(row.event_id) = Trim(ev.id)
    /\ Trim(row.entity) = Trim(ev.entity)
    /\ FixCase(Trim(row.doc_hash)) = DocHash(ev)
    /\ row.leaf_hash = LeafHash(ev)

CheckRowCount(table, size) == Cardinality(DOMAIN table) = size

\* A slip: the tail begins one entry late.
TailStartLate(size) == IF size < TailCount THEN 0 ELSE size - TailCount + 1
TailStart(size) == IF size < TailCount THEN 0 ELSE size - TailCount

\* A slip: the loop runs to size inclusive.
CheckTailInclusive(table, entries, size) ==
    \A i \in TailStart(size) .. size :
        i \in DOMAIN table /\ RowMatchesEntry(table[i], entries[i + 1])
CheckTailEntries(table, entries, size) ==
    \A i \in TailStart(size) .. size - 1 :
        i \in DOMAIN table /\ RowMatchesEntry(table[i], entries[i + 1])

\* ValidateAlignedWithLog against a published tree of the given size.
ValidateAlignedWithLog(table, entries, size) ==
    /\ CheckRowCount(table, size)
    /\ size # 0 => CheckTailEntries(table, entries, size)
=============================================================================
