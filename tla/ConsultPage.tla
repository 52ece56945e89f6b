---------------------------- MODULE ConsultPage ----------------------------
(***************************************************************************)
(* The search page (client/consult.html) on top of GET /entries: a form, a *)
(* table, a page number, and requests whose answers arrive in any order.   *)
(* The table is only written: "walk" records what the user has seen of it. *)
(***************************************************************************)
EXTENDS Queries, SequencesExt

CONSTANTS
    Filters,        \* what the form can hold, blank included
    PageSize        \* Config.PAGE_SIZE

ASSUME PageSizePositive == PageSize \in Nat \ {0}

VARIABLES
    filters,        \* the form
    State,          \* currentPage, totalCount
    pager,          \* which of btnPrevPage and btnNextPage are enabled
    searching,      \* btnSearch is disabled
    walk            \* history: a user reading page after page, see below

pageVars == <<filters, State, pager, searching, walk>>
vars == <<log, indexed, published, search,
          filters, State, pager, searching, walk>>

Blank == [doc_id |-> NoText, issuer |-> NoText, date_from |-> NoDay, date_to |-> NoDay]

ASSUME FiltersHaveBlank == Blank \in Filters
ASSUME FiltersAreForms ==
    \A f \in Filters : f = [doc_id |-> f.doc_id, issuer |-> f.issuer,
                            date_from |-> f.date_from, date_to |-> f.date_to]

Query(f, page) ==
    [doc_id |-> f.doc_id, issuer |-> f.issuer, date_from |-> f.date_from,
     date_to |-> f.date_to, order |-> "desc", limit |-> PageSize,
     offset |-> (page - 1) * PageSize]

\* Sent by loadInitialEvents, not by handleSearch: no filter is set.
SentAsLatest(q) == q = Query(Blank, q.offset \div PageSize + 1)

\* A slip: the number of the last page, counted from 0.
LastPageFromZero(total) == (total - 1) \div PageSize

TotalPages(total) == (total + PageSize - 1) \div PageSize

Idle == \A s \in Searches : search[s] = NoSearch

-----------------------------------------------------------------------------
(* A walk: the user asks for a first page, waits, and goes on to the next  *)
(* page as long as there is one. "owed" are the rows that matched when the *)
(* walk began, with their entries published, and that the table has not    *)
(* shown since. The walk is over when the user edits the form or asks      *)
(* again before the answer is there, when a row was inserted between COUNT *)
(* and SELECT, when a page came back without a row, and when a request or  *)
(* a read failed.                                                          *)

NoWalk == [on |-> FALSE]

WalkOn(f, page) ==
    IF Idle /\ page = 1
    THEN [on |-> TRUE, owed |-> {i \in Found(Query(f, 1)) : i < published}]
    ELSE IF Idle /\ walk.on /\ page = State.currentPage + 1 THEN walk ELSE NoWalk

WalkSees(shown, undisturbed) ==
    IF walk.on /\ undisturbed
    THEN [walk EXCEPT !.owed = @ \ {shown[k][2] : k \in DOMAIN shown}]
    ELSE NoWalk

-----------------------------------------------------------------------------
\* fetchSearchPage; the last query is read again as soon as it is stored.
Fetch(f, page) ==
    /\ \E s \in Searches :
          /\ search[s] = NoSearch
          /\ search' = [search EXCEPT ![s] = NewSearch(Query(f, page))]
    /\ State' = [State EXCEPT !.currentPage = page]
    /\ walk' = WalkOn(f, page)
    /\ UNCHANGED <<log, indexed, published, pager>>

\* The search button is left alone.
LoadInitialEvents(page) == Fetch(Blank, page) /\ UNCHANGED searching

\* The form is taken as it is now, for a change of page as well.
HandleSearch(page) ==
    /\ \/ filters = Blank /\ LoadInitialEvents(page)
       \/ filters # Blank /\ Fetch(filters, page) /\ searching' = TRUE
    /\ UNCHANGED filters

EditFilters ==
    /\ filters' \in Filters \ {filters}
    /\ walk' = NoWalk
    /\ UNCHANGED <<log, indexed, published, search, State, pager, searching>>

ClickSearch == ~searching /\ HandleSearch(1)
PressEnter == HandleSearch(1)

ClearFilters == filters' = Blank /\ LoadInitialEvents(1)

\* The buttons are as the last answer left them; changePage checks the page
\* number against the total as it is now.
PagesNow == IF State.totalCount > 0 THEN TotalPages(State.totalCount) ELSE 1

PrevPage ==
    /\ pager.prev /\ State.currentPage - 1 \in 1 .. PagesNow
    /\ HandleSearch(State.currentPage - 1)

NextPage ==
    /\ pager.next /\ State.currentPage + 1 \in 1 .. PagesNow
    /\ HandleSearch(State.currentPage + 1)

\* renderTable and renderPagination: without rows there is no paging bar,
\* whatever total_count is.
Render(shown, total) ==
    LET t == IF shown = << >> THEN 0 ELSE total
    IN  /\ State' = [State EXCEPT !.totalCount = t]
        /\ pager' = [prev |-> TotalPages(t) > 1 /\ State.currentPage > 1,
                     next |-> State.currentPage < TotalPages(t)]

\* A slip: the button is released only when the search succeeds.
SearchingUnlessAnswered(s) ==
    searching /\ (SentAsLatest(search[s].query) \/ ~Answered(s))

\* The finally clause of handleSearch; loadInitialEvents has none.
StillSearching(s) == searching /\ SentAsLatest(search[s].query)

RowsFromApiResponse(r) == Zip(r.okIndexes, r.entries)

Receive(s) ==
    LET r == search[s]
        shown == RowsFromApiResponse(r)
    IN  /\ Answered(s)
        /\ Render(shown, TotalCount(r))
        /\ searching' = StillSearching(s)
        /\ walk' = WalkSees(shown, ~r.blurred /\ shown # << >>)
        /\ search' = [search EXCEPT ![s] = NoSearch]
        /\ UNCHANGED <<log, indexed, published, filters>>

\* showTableError, for an answer other than 200 or none at all.
ReceiveError(s) ==
    /\ search[s] # NoSearch
    /\ Refused(s) \/ "network" \in Faults
    /\ Render(<< >>, 0)
    /\ searching' = StillSearching(s)
    /\ walk' = WalkSees(<< >>, FALSE)
    /\ search' = [search EXCEPT ![s] = NoSearch]
    /\ UNCHANGED <<log, indexed, published, filters>>

-----------------------------------------------------------------------------
\* App.init asks for the latest events.
Init ==
    /\ QueriesInit
    /\ \E s \in Searches :
           search = [t \in Searches |-> IF t = s THEN NewSearch(Query(Blank, 1))
                                                 ELSE NoSearch]
    /\ filters = Blank
    /\ State = [currentPage |-> 1, totalCount |-> 0]
    /\ pager = [prev |-> FALSE, next |-> FALSE]
    /\ searching = FALSE
    /\ walk = NoWalk

User ==
    EditFilters \/ ClickSearch \/ PressEnter \/ ClearFilters \/ PrevPage \/ NextPage

Next ==
    \/ User
    \/ \E s \in Searches : Receive(s) \/ ReceiveError(s)
    \/ (\E s \in Searches : SearchStep(s)) /\ UNCHANGED pageVars
    \/ Environment /\ UNCHANGED pageVars

Spec == Init /\ [][Next]_vars

-----------------------------------------------------------------------------
(* Properties. *)

\* The state is well formed, and the table never exceeds a page.
TypeOK ==
    /\ indexed \subseteq Indexes
    /\ published \in 0 .. MaxLog
    /\ filters \in Filters
    /\ State.currentPage \in Nat \ {0} /\ State.totalCount \in 0 .. MaxLog
    /\ pager \in [prev : BOOLEAN, next : BOOLEAN]
    /\ searching \in BOOLEAN
    /\ \A s \in Searches : Answered(s) =>
           /\ search[s].okIndexes \in Seq(indexed)
           /\ Len(search[s].okIndexes) <= PageSize

\* A user who goes from the first page to the last, waiting for each answer,
\* has been shown every published entry that matched when the walk began,
\* although rows were inserted and checkpoints published all along and shifted
\* the pages (consult.html:159-176, 358-366, search.go:56-67).
WalkMissesNothing ==
    walk.on /\ Idle /\ ~pager.next => walk.owed = {}

\* The search button is disabled only while a search that will release it is
\* under way, whatever failed and in whatever order answers arrived
\* (consult.html:343-355).
SearchIsNeverLockedOut ==
    searching => \E s \in Searches :
        search[s] # NoSearch /\ ~SentAsLatest(search[s].query)

-----------------------------------------------------------------------------
(* The inductive invariant. *)

Asked ==
    [doc_id : {f.doc_id : f \in Filters}, issuer : {f.issuer : f \in Filters},
     date_from : {f.date_from : f \in Filters}, date_to : {f.date_to : f \in Filters},
     order : {"desc"}, limit : {PageSize}, offset : Nat]

Requests(rows) ==
    [stage : {"count", "select", "read"}, query : Asked, counted : SUBSET rows,
     blurred : BOOLEAN, todo : SUBSET rows, okIndexes : Seq(rows), entries : Seq(rows)]

StateOK ==
    /\ log \in [Indexes -> Events]
    /\ indexed \subseteq Indexes /\ published \in 0 .. MaxLog
    /\ search \in [Searches ->
          {NoSearch} \cup [stage : {"failed"}, query : Asked] \cup Requests(indexed)]
    /\ filters \in Filters
    /\ State \in [currentPage : Nat \ {0}, totalCount : 0 .. MaxLog]
    /\ pager \in [prev : BOOLEAN, next : BOOLEAN]
    /\ searching \in BOOLEAN
    /\ walk \in {NoWalk} \cup [on : {TRUE}, owed : SUBSET Found(Query(filters, 1))]

Took(r, i) == \E k \in DOMAIN r.okIndexes : r.okIndexes[k] = i
Gathered(r) == Len(r.okIndexes) + Cardinality(r.todo)
Counted(r) == Page(r.counted, r.query)

\* What has been gathered and what is still to do are one page, in order.
InOrder(r) ==
    LET ok == r.okIndexes
    IN  /\ r.entries = ok
        /\ \A i \in r.todo : Matches(log[i], r.query)
        /\ \A k \in DOMAIN ok : Matches(log[ok[k]], r.query)
        /\ \A k, l \in DOMAIN ok : k < l => Before(ok[k], ok[l], r.query.order)
        /\ \A k \in DOMAIN ok, i \in r.todo : Before(ok[k], i, r.query.order)
        /\ Gathered(r) <= PageSize

\* The page of the rows counted: a row left out is missing from the number too.
Complete(r) ==
    /\ Gathered(r) <= Cardinality(Counted(r))
    /\ \A i \in Counted(r) :
           i \in r.todo \/ Took(r, i) \/ Gathered(r) < Cardinality(Counted(r))

ReadsOnePage ==
    \A s \in Searches :
        /\ search[s].stage \in {"count", "select"} =>
               search[s].okIndexes = << >> /\ search[s].entries = << >>
        /\ search[s].stage = "read" =>
               InOrder(search[s]) /\ (search[s].blurred \/ Complete(search[s]))

\* Every row owed is ranked on page number "page" of "rows" or later.
OwedFrom(page, rows) ==
    walk.owed \subseteq {i \in rows : Rank(i, rows, "desc") >= (page - 1) * PageSize}

\* The request of a walk: no row owed is on an earlier page than the one
\* asked for, and none of that page is dropped.
Fetching(r) ==
    /\ r.query = Query(filters, State.currentPage)
    /\ r.stage \in {"count", "select"} => OwedFrom(State.currentPage, Found(r.query))
    /\ r.stage = "read" =>
           \/ r.blurred
           \/ /\ r.counted \subseteq Found(r.query)
              /\ OwedFrom(State.currentPage, r.counted)
              /\ \A i \in walk.owed \cap Counted(r) : i \in r.todo \/ Took(r, i)

WalkGoesOn ==
    walk.on =>
        /\ \A i \in walk.owed : i < published
        /\ Idle => OwedFrom(State.currentPage + 1, Found(Query(filters, 1)))
        /\ Idle /\ ~pager.next => walk.owed = {}
        /\ \A s \in Searches : search[s] # NoSearch =>
               Fetching(search[s]) /\ \A t \in Searches \ {s} : search[t] = NoSearch

IInv == StateOK /\ ReadsOnePage /\ WalkGoesOn /\ SearchIsNeverLockedOut
=============================================================================
