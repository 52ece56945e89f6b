---------------------------- MODULE DetailsPage ----------------------------
(***************************************************************************)
(* The details page (client/details.html) beside the running server: it    *)
(* asks for the entry it is opened on, for the indexes of that entry's     *)
(* document, then for all those entries at once, sorts them into a history *)
(* and says whether the entry is the document's latest. Each answer is     *)
(* computed from the server's state of that moment (GET /get-entry,        *)
(* GET /get-indexes), while requests, inserts and publications go on.      *)
(*                                                                         *)
(* An entry is known by its log index: entries never change.               *)
(***************************************************************************)
EXTENDS NotaryServer, SequencesExt

VARIABLE page       \* the page's locals

pageVars == <<vars, page>>

\* "known" is a history variable, the receipts given before the page opened;
\* "wanted" are the indexes asked for, "got" the entries that have arrived.
NoPage == [stage |-> "closed", current |-> None, known |-> {},
           wanted |-> {}, got |-> {}, ordered |-> << >>]

PageFailed == page' = [page EXCEPT !.stage = "failed"]

-----------------------------------------------------------------------------
(* sortHistory. *)

HasPrev(i) == EntryAt(i).prev \notin {None, Blank}

Unpreceded(history) == {i \in history : ~HasPrev(i)}
Creates1st(history) == {i \in Unpreceded(history) : EntryAt(i).type = Create}

\* The answer lists indexes in ascending order, and find takes the first.
Roots(history) ==
    IF Creates1st(history) # {} THEN {Min(Creates1st(history))}
    ELSE IF Unpreceded(history) # {} THEN {Min(Unpreceded(history))} ELSE {}

Forked(history) ==
    \E i, j \in history : i # j /\ HasPrev(i) /\ EntryAt(i).prev = EntryAt(j).prev

Successors(history, i) == {j \in history : EntryAt(j).prev = EntryAt(i).id}

\* The k-th event of the walk along nextByPrev, as a set of at most one.
Walk(history) ==
    LET step[k \in 1 .. Cardinality(history)] ==
            IF k = 1 THEN Roots(history)
            ELSE UNION {Successors(history, i) : i \in step[k - 1]}
    IN  step

Walked(history) == UNION {Walk(history)[k] : k \in DOMAIN Walk(history)}

EarlierVersion(i, j) ==
    \/ EntryAt(i).ver < EntryAt(j).ver
    \/ EntryAt(i).ver = EntryAt(j).ver /\ i < j

ByVersion(history) ==
    CHOOSE s \in [1 .. Cardinality(history) -> history] :
        \A k, l \in DOMAIN s : k < l => EarlierVersion(s[k], s[l])

ByLinks(history) ==
    [k \in 1 .. Cardinality(Walked(history)) |-> CHOOSE i \in Walk(history)[k] : TRUE]

\* A slip: events the walk does not reach are not noticed.
SortWalkedOnly(history) ==
    IF Roots(history) = {} \/ Forked(history)
    THEN ByVersion(history) ELSE ByLinks(history)

\* Without a root, with a fork, or with an event out of the walk's reach the
\* order is that of versions, then of indexes.
SortHistory(history) ==
    IF Roots(history) = {} \/ Forked(history) \/ Walked(history) # history
    THEN ByVersion(history) ELSE ByLinks(history)

-----------------------------------------------------------------------------
(* loadDetails. *)

\* The page of an index found in a receipt, a search or a link.
Open(i) ==
    /\ page.stage \in {"closed", "shown", "failed"}
    /\ page' = [NoPage EXCEPT !.stage = "entry", !.current = i, !.known = receipts]
    /\ UNCHANGED vars

\* GET /get-entry answers with the entry.
EntryAnswered(i) == Serving /\ Readable(i)
EntryRefused(i) == ~EntryAnswered(i) \/ "read" \in Faults

FetchCurrent ==
    /\ page.stage = "entry"
    /\ \/ /\ EntryAnswered(page.current)
          /\ page' = [page EXCEPT !.stage = "indexes"]
       \/ /\ EntryRefused(page.current)
          /\ PageFailed
    /\ UNCHANGED vars

GetIndexesByDocID(doc) == IndexesByDocID(table, Trim(doc))

\* GET /get-indexes?doc_id answers with the indexes; no row at all is a 404.
IndexesAnswered(found) == Serving /\ found # {}
IndexesRefused(found) == ~IndexesAnswered(found) \/ "lookup" \in Faults

FetchIndexes ==
    LET found == GetIndexesByDocID(EntryAt(page.current).doc)
    IN  /\ page.stage = "indexes"
        /\ \/ /\ IndexesAnswered(found)
              /\ page' = [page EXCEPT !.stage = "entries", !.wanted = found]
           \/ /\ IndexesRefused(found)
              /\ PageFailed
        /\ UNCHANGED vars

\* A slip: an entry that is refused is left out (Promise.allSettled).
LeaveOut(i) == page' = [page EXCEPT !.wanted = @ \ {i}]

\* Promise.all rejects with the first promise that rejects.
Reject(i) == PageFailed

\* The entries arrive in any order.
FetchVersion(i) ==
    /\ page.stage = "entries"
    /\ i \in page.wanted \ page.got
    /\ \/ EntryAnswered(i) /\ page' = [page EXCEPT !.got = @ \cup {i}]
       \/ EntryRefused(i) /\ Reject(i)
    /\ UNCHANGED vars

SameDoc(i) == EntryAt(i).doc = EntryAt(page.current).doc

Show ==
    LET history == {i \in page.got : SameDoc(i)}
    IN  /\ page.stage = "entries"
        /\ page.got = page.wanted
        /\ IF history = {} THEN PageFailed
           ELSE page' = [page EXCEPT !.stage = "shown", !.ordered = SortHistory(history)]
        /\ UNCHANGED vars

\* The header's claim: this is the most recent and valid document.
SaysLatest == page.stage = "shown" /\ page.current = Last(page.ordered)

PageStep ==
    \/ \E i \in 0 .. MaxLog - 1 : Open(i)
    \/ FetchCurrent
    \/ FetchIndexes
    \/ \E i \in page.wanted : FetchVersion(i)
    \/ Show

PageInit == Init /\ page = NoPage
PageNext == (Next /\ UNCHANGED page) \/ PageStep
PageSpec == PageInit /\ [][PageNext]_pageVars

-----------------------------------------------------------------------------
(* Properties. *)

\* The history shown is every row the answer of GET /get-indexes listed, each
\* once, and an event stands before every event that names it as its
\* predecessor, whatever forks two racing requests made (sortHistory).
HistoryIsWhole ==
    page.stage = "shown" =>
        /\ ToSet(page.ordered) = page.wanted
        /\ Len(page.ordered) = Cardinality(page.wanted)
        /\ \A k, l \in DOMAIN page.ordered :
              EntryAt(page.ordered[l]).prev = EntryAt(page.ordered[k]).id => k < l

\* An entry is called the latest only if no receipt the server had given
\* when the page was opened names a later version of its document:
\* unless a row was lost, a notarized update is never shown as absent
\* (add.go:69-86, details.html:232-237, 263-270).
LatestCoversReceipts ==
    SaysLatest =>
        \A r \in page.known :
            r.event.doc = EntryAt(page.current).doc =>
                r.event.ver <= EntryAt(page.current).ver

\* details.html, the comment over the parallel fetch, "in parallelo, con
\* fallback se qualche fetch fallisce": once the indexes are known, the page
\* does not fail because one entry of the history cannot be fetched.
FailedFetchHasFallback == page.stage = "failed" => page.wanted = {}

-----------------------------------------------------------------------------
(* The inductive invariant, beside that of NotaryServer. *)

\* A predecessor is the version before, of the same document.
VersionsFollow ==
    \A i \in 0 .. Len(log) - 1 : HasPrev(i) =>
        \E j \in 0 .. i - 1 :
            /\ EntryAt(i).prev = EntryAt(j).id
            /\ EntryAt(i).doc = EntryAt(j).doc
            /\ EntryAt(i).ver = EntryAt(j).ver + 1

\* No insert fails, nor is any event recorded at a time that cannot be read
\* back, as may happen in dev mode.
InsertsSucceed ==
    /\ "insert" \notin Faults
    /\ \A t \in RecordingTimes : ParsesAsTime(FormatUTC(t))

\* No row is lost unless an insert failed.
RowsKept ==
    InsertsSucceed =>
        /\ \A r \in receipts : r.index \in DOMAIN table
        /\ \A w \in Workers : work[w].code = 200 => work[w].idx \in DOMAIN table

Page(indexes) ==
    [stage : {"closed", "entry", "indexes", "entries", "shown", "failed"},
     current : Nat \cup {None}, known : SUBSET receipts, wanted : SUBSET indexes,
     got : SUBSET indexes, ordered : Seq(indexes)]

Fetched == page.stage \in {"entries", "shown"}

PageOK ==
    /\ page \in Page(0 .. Len(log) - 1)
    /\ page.stage \in {"entry", "indexes"} => page.current \in Nat /\ page.got = {}
    /\ page.stage = "indexes" \/ Fetched => page.current \in 0 .. Len(log) - 1
    /\ Fetched =>
           /\ page.got \subseteq page.wanted
           /\ \A i \in page.wanted : SameDoc(i)
           /\ InsertsSucceed =>
                 \A r \in page.known :
                    r.event.doc = EntryAt(page.current).doc => r.index \in page.wanted
    /\ page.stage = "shown" =>
           /\ HistoryIsWhole
           /\ \A i \in page.wanted : EntryAt(i).ver <= EntryAt(Last(page.ordered)).ver

PageInv == IInv /\ VersionsFollow /\ RowsKept /\ PageOK
=============================================================================
