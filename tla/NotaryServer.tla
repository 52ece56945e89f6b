---------------------------- MODULE NotaryServer ----------------------------
(***************************************************************************)
(* The notary server: HTTP workers running AddEvent concurrently against   *)
(* the Tessera appender and the SQLite index, the appender's publication   *)
(* of checkpoints, and the process's life: start, alignment check, crash.  *)
(* server/internal/api/add.go, server/main.go, server/internal/eventread,  *)
(* server/internal/logread; Tessera is external.                           *)
(*                                                                         *)
(* AddEvent is cut where it waits for another component: the index lookup, *)
(* the read of the document's head, the append, the insert, the answer.    *)
(* Nothing holds a lock from one step to the next.                         *)
(***************************************************************************)
EXTENDS NotaryIndex

CONSTANTS
    Workers,        \* goroutines serving POST /add
    Requests,       \* the decoded requests clients send
    DevMode,        \* the --dev-mode flag
    Faults,         \* which of the failures below may happen
    MaxLog          \* bound: no request is taken that could outgrow it

ASSUME FaultsAssumption ==
    Faults \subseteq {"lookup", "read", "append", "insert", "crash"}
ASSUME MaxLogAssumption == MaxLog \in Nat

\* Decoding has been done: requests are in the normal form it leaves.
ASSUME RequestsAreDecoded ==
    \A req \in Requests :
        /\ req.type = FixCase(Trim(req.type))
        /\ req.doc = Trim(req.doc)
        /\ req.prev = TrimOptional(req.prev)
        /\ req.entity = Trim(req.entity)

\* What uuid.NewString returns: version 4, in its canonical spelling.
EventIDs == {Plain(u) : u \in UUIDv4s}

ASSUME NoneIsNoID == None \notin EventIDs

VARIABLES
    log,            \* entries sequenced by Tessera, durable
    published,      \* tree size of the public checkpoint, durable
    table,          \* notary_index, durable
    mode,           \* "down", "starting" or "up"
    work,           \* each worker's locals
    receipts        \* history: the 200 answers sent

vars == <<log, published, table, mode, work, receipts>>
durable == <<log, published, table>>

EntryAt(i) == log[i + 1]

\* A worker's locals; seen is a history variable, the indexes that had a row
\* when the worker looked the document up.
IdleWork == [pc |-> "idle", req |-> None, seen |-> {}, latest |-> None,
             ver |-> 0, ev |-> None, idx |-> None, code |-> 0]

Answer(code) == [IdleWork EXCEPT !.pc = "respond", !.code = code]

Indexing(ev, i) == [IdleWork EXCEPT !.pc = "index", !.ev = ev, !.idx = i]
AnswerOK(ev, i) == [Answer(200) EXCEPT !.ev = ev, !.idx = i]

InitWork == [w \in Workers |-> IdleWork]
Goto(w, locals) == work' = [work EXCEPT ![w] = locals]

Init ==
    /\ log = << >>
    /\ published = 0
    /\ table = EmptyTable
    /\ mode = "down"
    /\ work = InitWork
    /\ receipts = {}

-----------------------------------------------------------------------------
(* AddEvent. *)

\* A slip: the listener opens before the check.
ServingBeforeCheck == mode # "down"

\* Handlers run only once the alignment check has passed.
Serving == mode = "up"

\* Requests that may still append an entry.
Pending == {w \in Workers : work[w].pc \in {"read", "append"}}
RoomInLog == Len(log) + Cardinality(Pending) < MaxLog

\* A slip: the document is not looked up.
OpensAgain(req) == req.doc # Blank /\ req.type = Create

\* The two ways past the lookup: a CREATE of a document without rows, and
\* another event of a document that has some.
Opens(req) ==
    req.doc # Blank /\ req.type = Create /\ NoLatestIndex(table, req.doc)
Extends(req) ==
    req.doc # Blank /\ req.type \in Extensions /\ ~NoLatestIndex(table, req.doc)

\* The body is read and decoded and the document looked up in the index.
Lookup(w, req) ==
    LET next == [IdleWork EXCEPT !.req = req, !.seen = DOMAIN table]
    IN  /\ Serving
        /\ work[w].pc = "idle"
        /\ RoomInLog
        /\ \/ /\ Opens(req)
              /\ Goto(w, [next EXCEPT !.pc = "append", !.ver = 1])
           \/ /\ Extends(req)
              /\ \E i \in DOMAIN table :
                    /\ IsLatestIndexByDocID(table, req.doc, i)
                    /\ Goto(w, [next EXCEPT !.pc = "read", !.latest = i])
           \/ /\ ~Opens(req) /\ ~Extends(req)
              /\ Goto(w, Answer(400))
        /\ UNCHANGED <<durable, mode, receipts>>

LookupFails(w) ==
    /\ "lookup" \in Faults
    /\ Serving
    /\ work[w].pc = "idle"
    /\ Goto(w, Answer(400))
    /\ UNCHANGED <<durable, mode, receipts>>

\* A slip: entries are read before publication.
ReadableUnpublished(i) == i < Len(log)

\* The entry at index i as ReadEventByIndex finds it: nothing beyond the
\* published tree size is read.
Readable(i) == i < published

\* The head found by the lookup must decode and be the request's predecessor.
ExtendsHead(req, i) ==
    /\ FitsInt64(EntryAt(i).leaf)
    /\ EntryAt(i).doc = req.doc
    /\ req.prev # None
    /\ Trim(req.prev) = Trim(EntryAt(i).id)

ReadHead(w) ==
    LET req == work[w].req
        i   == work[w].latest
    IN  /\ work[w].pc = "read"
        /\ IF Readable(i) /\ ExtendsHead(req, i)
           THEN Goto(w, [work[w] EXCEPT !.pc = "append", !.ver = EntryAt(i).ver + 1])
           ELSE Goto(w, Answer(400))
        /\ UNCHANGED <<durable, mode, receipts>>

ReadHeadFails(w) ==
    /\ "read" \in Faults
    /\ work[w].pc = "read"
    /\ Goto(w, Answer(400))
    /\ UNCHANGED <<durable, mode, receipts>>

\* Ids of the events in the log.
UsedIDs == {log[k].id : k \in DOMAIN log}

\* The request is validated only now, the event prepared, appended, and the
\* future awaited: Tessera sequences the entry at the end of the log.
AppendEntry(w) ==
    LET req == work[w].req
    IN  /\ work[w].pc = "append"
        /\ \E now \in Times, id \in EventIDs \ UsedIDs :
              LET ev == PreparedEvent(req, work[w].ver, id,
                                      ComputeRecordedAt(req, now, DevMode))
              IN  /\ Admissible(req, now, DevMode)
                  /\ log' = Append(log, ev)
                  /\ Goto(w, Indexing(ev, Len(log)))
        /\ UNCHANGED <<published, table, mode, receipts>>

PrepareRefuses(w) ==
    /\ work[w].pc = "append"
    /\ \E now \in Times : ~Admissible(work[w].req, now, DevMode)
    /\ Goto(w, Answer(400))
    /\ UNCHANGED <<durable, mode, receipts>>

\* The future resolves to an error; the entry was not sequenced.
AppendFails(w) ==
    /\ "append" \in Faults
    /\ work[w].pc = "append"
    /\ Goto(w, Answer(500))
    /\ UNCHANGED <<durable, mode, receipts>>

\* A slip: the row takes the last index of the log.
IndexFromLogSize(w) == Len(log) - 1

\* The log_index of a row comes from the worker's own future.
IndexFromFuture(w) == work[w].idx

\* The row is inserted; an error is logged and otherwise ignored.
IndexEntry(w) ==
    LET ev == work[w].ev
    IN  /\ work[w].pc = "index"
        /\ \/ table' = AddEntry(table, IndexFromFuture(w), RowFor(ev))
           \/ "insert" \in Faults /\ UNCHANGED table
        /\ Goto(w, AnswerOK(ev, work[w].idx))
        /\ UNCHANGED <<log, published, mode, receipts>>

\* The answer leaves: log_index and notarized_json, or an error.
Respond(w) ==
    /\ work[w].pc = "respond"
    /\ receipts' = IF work[w].code = 200
                   THEN receipts \cup {[index |-> work[w].idx, event |-> work[w].ev]}
                   ELSE receipts
    /\ Goto(w, IdleWork)
    /\ UNCHANGED <<durable, mode>>

AddEventStep(w) ==
    \/ \E req \in Requests : Lookup(w, req)
    \/ LookupFails(w)
    \/ ReadHead(w) \/ ReadHeadFails(w)
    \/ AppendEntry(w) \/ PrepareRefuses(w) \/ AppendFails(w)
    \/ IndexEntry(w)
    \/ Respond(w)

-----------------------------------------------------------------------------
(* The process and its appender. *)

\* Tessera integrates and publishes behind the handlers' back, from the
\* moment NewAppender returns.
PublishCheckpoint ==
    /\ mode # "down"
    /\ published' \in published + 1 .. Len(log)
    /\ UNCHANGED <<log, table, mode, work, receipts>>

\* main up to the alignment check: the appender exists, no handler does.
Start ==
    /\ mode = "down"
    /\ mode' = "starting"
    /\ UNCHANGED <<durable, work, receipts>>

\* ValidateAlignedWithLog, then ListenAndServe, or log.Fatal.
CheckAlignment ==
    /\ mode = "starting"
    /\ mode' = IF ValidateAlignedWithLog(table, log, published)
               THEN "up" ELSE "down"
    /\ UNCHANGED <<durable, work, receipts>>

\* The process ends at any point; the deferred shutdown does not run.
Crash ==
    /\ "crash" \in Faults
    /\ mode # "down"
    /\ mode' = "down"
    /\ work' = InitWork
    /\ UNCHANGED <<durable, receipts>>

Next ==
    \/ \E w \in Workers : AddEventStep(w)
    \/ PublishCheckpoint
    \/ Start
    \/ CheckAlignment
    \/ Crash

Spec == Init /\ [][Next]_vars

\* net/http gives every accepted request a goroutine of its own, which the
\* scheduler keeps running; Tessera publishes every second while it runs.
\* Clients, crashes and whoever restarts the server promise nothing.
Fairness ==
    /\ \A w \in Workers :
        WF_vars(ReadHead(w) \/ AppendEntry(w) \/ PrepareRefuses(w)
                \/ IndexEntry(w) \/ Respond(w))
    /\ WF_vars(PublishCheckpoint)

-----------------------------------------------------------------------------
(* Properties. *)

\* Events as PreparedEvent builds them from the requests that are admitted.
Admitted == {req \in Requests : ValidateAddEventRequest(req)}
RecordingTimes ==
    IF DevMode THEN {Instant(req.issued) : req \in Admitted} ELSE Times
Event ==
    [schema : {EventSchema}, type : {req.type : req \in Admitted},
     doc : {req.doc : req \in Admitted}, prev : {req.prev : req \in Admitted},
     leaf : {CanonicalLeaf(req) : req \in Admitted},
     entity : {req.entity : req \in Admitted}, name : {req.name : req \in Admitted},
     title : {req.title : req \in Admitted},
     description : {req.description : req \in Admitted},
     notes : {req.notes : req \in Admitted},
     issued : {CanonicalIssuedAt(req) : req \in Admitted},
     hash : {CanonicalPayloadHash(req) : req \in Admitted},
     id : EventIDs, ver : Nat \ {0}, recorded_at : RecordingTimes]

Work ==
    [pc : {"idle", "read", "append", "index", "respond"},
     req : Requests \cup {None}, seen : SUBSET Nat, latest : Nat \cup {None},
     ver : Nat, ev : Event \cup {None}, idx : Nat \cup {None},
     code : {0, 200, 400, 500}]

\* The state is well formed: the log holds prepared events, the public tree
\* is a prefix of it, workers only have locals while the server is up.
TypeOK ==
    /\ log \in Seq(Event)
    /\ published \in 0 .. Len(log)
    /\ mode \in {"down", "starting", "up"}
    /\ work \in [Workers -> Work]
    /\ mode # "up" => work = InitWork
    /\ receipts \subseteq [index : Nat, event : Event]
    /\ DOMAIN table \subseteq Nat

\* A row always describes the entry at its own log_index, whatever the order
\* in which futures resolve and rows are inserted, and whatever crashed in
\* between: add.go:58-81.
RowsMirrorLog ==
    \A i \in DOMAIN table : i < Len(log) /\ table[i] = RowFor(EntryAt(i))

\* What a worker knows of the document it is extending stays true while it
\* waits: rows and entries seen are never taken back.
SawUpTo(w, i) ==
    \A j \in work[w].seen : EntryAt(j).doc = work[w].req.doc => j <= i

Extending(w) ==
    LET req == work[w].req
        i   == work[w].latest
    IN  /\ req.type \in Extensions
        /\ i \in 0 .. Len(log) - 1
        /\ EntryAt(i).doc = req.doc
        /\ SawUpTo(w, i)

WorkerOK(w) ==
    /\ \A j \in work[w].seen : j < Len(log)
    /\ work[w].pc = "read" => work[w].req \in Requests /\ Extending(w)
    /\ work[w].pc = "append" =>
          /\ work[w].req \in Requests
          /\ \/ /\ work[w].req.type = Create
                /\ work[w].ver = 1
                /\ SawUpTo(w, -1)
             \/ /\ Extending(w)
                /\ Readable(work[w].latest)
                /\ work[w].req.prev # None
                /\ work[w].req.prev = EntryAt(work[w].latest).id
                /\ work[w].ver = EntryAt(work[w].latest).ver + 1
    /\ work[w].pc = "index" \/ work[w].code = 200 =>
          /\ work[w].idx \in 0 .. Len(log) - 1
          /\ work[w].ev = EntryAt(work[w].idx)

\* Event ids are unique, and every event follows an earlier one or is a
\* CREATE without a predecessor.
ChainsLinked ==
    \A i \in 0 .. Len(log) - 1 :
        /\ \A j \in 0 .. Len(log) - 1 : EntryAt(i).id = EntryAt(j).id => i = j
        /\ \/ EntryAt(i).type = Create /\ EntryAt(i).prev \in {None, Blank}
           \/ /\ EntryAt(i).type \in Extensions
              /\ \E j \in 0 .. i - 1 : EntryAt(i).prev = EntryAt(j).id

\* A receipt names the entry at its index for ever.
ReceiptsHold ==
    \A r \in receipts : r.index \in 0 .. Len(log) - 1 /\ EntryAt(r.index) = r.event

\* The inductive invariant: everything above, together.
IInv ==
    /\ TypeOK
    /\ RowsMirrorLog
    /\ \A w \in Workers : WorkerOK(w)
    /\ ChainsLinked
    /\ ReceiptsHold

\* Two events that cannot both belong to one linear history.
Diverge(e, f) ==
    /\ e.doc = f.doc
    /\ e.prev = f.prev \/ {e.type, f.type} = {Create}

\* An append never diverges from an event whose row its own lookup could
\* see: forks come only from events not yet, or never, indexed (the race
\* the comment at add.go:37 concedes, and rows lost at add.go:77-81).
ForksOnlyPastUnindexedEvents ==
    [][\A w \in Workers : work[w].pc = "append" /\ log' # log /\ work'[w] # work[w] =>
          \A i \in work[w].seen : ~Diverge(EntryAt(i), log'[Len(log')])]_vars

\* The startup check never refuses an index that holds exactly the rows of
\* the published entries: alignment.go:24-185 against the rows AddEntry
\* wrote.
AlignedIndexIsAdmitted ==
    DOMAIN table = 0 .. published - 1 =>
        ValidateAlignedWithLog(table, log, published)

\* While the published log is no longer than the tail, the check admits
\* only such an index: alignment.go:49-73.
ShortLogIsCheckedExactly ==
    published <= TailCount /\ ValidateAlignedWithLog(table, log, published) =>
        DOMAIN table = 0 .. published - 1

\* server/README.md:49, "DB/log alignment is checked; a mismatch blocks
\* startup", for logs of any length.
MismatchBlocksStartup ==
    [][mode = "starting" /\ mode' = "up" => DOMAIN table = 0 .. published - 1]_vars

\* The server implements the abstract transparency log.
Abstract == INSTANCE TransparencyLog
                WITH ledger <- log, OpeningTypes <- {Create}
RefinesTransparencyLog == Abstract!Spec
=============================================================================
