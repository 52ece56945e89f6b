# Verification of the PA notary

This directory holds TLA+ specifications of the notary in this repository:
what its server does when requests race, fail and are cut short, what its index
and its anchor file hold afterwards, what it promises its clients, and what its
pages and tools make of its answers. TLC
checks the specifications on small instances; TLAPS proves all that they say of
safety for every instance.

## 1. The system

| Component | Code | State | Operations |
|---|---|---|---|
| `POST /add` | `server/internal/api/add.go` | the locals of each handler goroutine | `AddEvent`, `resolveDocumentVersion` |
| Event preparation | `server/internal/event`, `hashutil`, `internal/notaryapi` | none | decode, normalise, validate, recording time, canonical form, document hash |
| Index | `server/internal/index` | the SQLite table `notary_index` | `AddEntry`, lookups, search, `ValidateAlignedWithLog` |
| Log reading | `server/internal/logread`, `eventread` | none | published size, entry by index, event by index |
| Process | `server/main.go` | down, starting, serving | start, alignment check, serve, end |
| Anchor worker | `server/internal/anchor`, `api/anchor.go` | `lastHash`, a mutex, the anchor file | `Run`'s ticks, `PublishNow`, `LatestPublishedCheckpoint` |
| Query handlers | `api/query.go`, `api/entry.go`, `index/search.go` | none | by document hash, leaf hash, document id; paged search; entry by index |
| Proof service | `proofsvc`, `api/proof.go` | none | inclusion and consistency proofs against the published size |
| Web client | `client/` | per page | search, details, notarize, recover and verify proofs |
| Load generator | `hammer/` | two channels, a wait group, counters | a pool of workers posting to `/add` |
| Sample data | `seed_log/` | what it knows of each document, the summary | CREATEs, then UPDATEs of a few, one at a time; files |
| Tessera | external (`go.mod`) | the log on disk | append with a future, integrate, publish a checkpoint every second |

**Interaction.** A handler looks the document up in the index, reads the
document's head from the published log, prepares the event, appends it and
waits for the future, inserts the row, answers. No lock spans two of these
steps (the comment at `add.go:37` says so). Tessera publishes behind the
handlers' back. At startup the index is compared with the published log, and
the process refuses to serve on a mismatch. The anchor worker copies the
published checkpoint to a file, on a ticker and on request, under one mutex;
`GET /anchor/latest` reads the file without it. A reader of entries or proofs
takes the published size first and then asks for files of that size, while
Tessera writes wider ones and deletes the old. The details page asks for an
entry, then for the indexes of its document, then for all those entries at
once. The sample data generator sends each request after the answer to the one
before; the load generator sends many at once from a pool.

**What is hard.** Requests on one document between lookup and insert; futures
resolving out of order; an insert that fails, or a process that ends, after the
append; entries indexed and not yet published; the startup check, which looks
at a count and a tail only; anchor publications that fail half way and restarts
that forget what was anchored; readers whose several reads see several states
of the server; answers that never come. The list with the lines is under `hazards` in
`PROJECT.json`.

**What makes each part correct.**

- *Add*: a row describes the entry at its own index; event ids are unique and
  every event links to an earlier one; a receipt stays true; forks come only
  from events the request could not have found; what is sequenced is published
  and found in the end.
- *Preparation*: white space around a member and letter case in the type and
  the digest change no member of the event that is hashed; an event that is
  sent back becomes itself, or is refused for one of two reasons; each type has
  the predecessor and digest it needs.
- *Startup check*: admits what the server itself wrote completely, admits
  nothing else while the log fits the tail.
- *Search*: an answer pairs each entry with its index; whoever reads page after
  page misses nothing that was there when he began, unless a row slipped in
  between the COUNT and the SELECT or a page had nothing readable.
- *Proofs*: the browser accepts the proof service's proofs and no others.
- *Anchor*: whole records are ordered by tree size; a process's tick never
  repeats a checkpoint; the last record read is the last one published, and
  never an older one, whenever it is read; every checkpoint, or a later one, is
  anchored.
- *Log reading*: what the published tree holds is found, and what is found is
  what was asked for, however the tree grows in between.
- *Details page*: the history is whole, predecessors first, whatever forked; an
  entry is called the latest only if no later version had been acknowledged.
- *Sample data*: the summary agrees with the log, and the log holds nothing
  else of the run but the request whose answer did not come.
- *Load generator*: each job is posted once, each result counted, and the
  program ends.

## 2. The modules

| Module | Models | Correspondence |
|---|---|---|
| `AddRequest` | `prepare.go`, `hash.go` | one operator per function; a JSON string is its core characters with three marks: white space around it, non-canonical letter case, the prefix `hex:`; a timestamp is what a wall clock reads, its zone's offset and how it is written; an event has all the members that are hashed |
| `PrepareEvent` | the path of one body through `AddRequest`, and of its event sent back | `body`, `now`, `devMode` (inputs), `outcome` (the event, or none) |
| `NotaryIndex` | `index/write.go`, `lookup.go`, `alignment.go` | a table is a function from log indexes to rows; one operator per method |
| `NotaryServer` | `api/add.go`, `main.go`, the guards of `logread`, `eventread` | variables `log`, `published`, `table` (durable), `mode`, `work` (the handlers' locals), `receipts` (history) |
| `TransparencyLog` | abstract: what clients are promised | no workers, no index, no restarts |
| `SeedLog` | `seed_log/main.go`, on top of `NotaryServer` | `seed`: the plan, what the tool knows of each document, the summary; its requests go through the handlers' own actions |
| `DetailsPage` | `client/details.html`, `GET /get-entry`, `GET /get-indexes`, on top of `NotaryServer` | `page`: the locals of `loadDetails`; one action per answer |
| `Anchor` | `anchor/worker.go`, `file_publisher.go`, `api/anchor.go` | variables `file` (durable), `lastHash`, `mu`, each caller's place in `publishCheckpoint`, a reader of the latest record |
| `LogRead` | `logread/helpers.go`, `eventread/reader.go`, the tile fetcher of `proofsvc/service.go` | `files` on disk, the sizes sequenced, integrated and published, one reader's locals |
| `Queries` | `api/query.go` (`SearchEntries`), `index/search.go` | the index is the set of log indexes with a row (a row describes its entry: `RowsMirrorLog`); each request's handler locals; COUNT, SELECT and each read are steps of their own |
| `ConsultPage` | `client/consult.html`, on top of `Queries` | form, page number, total, paging buttons, search button; one action per event handler and per answer |
| `MerkleProofs` | `proofsvc/service.go`, `api/proof.go`, the hashes of `client/crypto.js` | RFC 6962 trees and Tessera's proofs (external) as recursive functions of a subtree's height, first leaf and number of leaves; the service's guards |
| `InclusionPage` | `client/verify.js` | `r`, `idx`, `n`, `pi` of `verifyInclusionRFC6962`; one action per level of the tree |
| `ConsistencyPage` | `client/verify_consistency.html` | `fn`, `sn`, `fr`, `sr` of `verifyConsistency` and the nodes used (its `idx`); one action per round of its three loops, but the rounds on a node on the old border, which are cut at their inner loop |
| `Hammer` | `hammer/main.go` | each worker's place, the channels (what was sent, how much of it received, which are closed), the feeder, the counters |
| `NotaryServerProofs`, `AnchorProofs`, `LogReadProofs`, `HammerProofs`, `PrepareEventProofs`, `ConsultPageProofs` | the proofs about the module each is named after | |
| `ClientProofs` | the proofs about `DetailsPage` and `SeedLog`, both on top of `NotaryServerProofs` | |
| `VerificationProofs` | the proofs about `InclusionPage` and `ConsistencyPage`, and the lemmas on trees they rest on | |
| `MCNotaryServer`, `MCSeedLog`, `MCDetailsPage`, `MCAddRequest`, `MCAnchor`, `MCConsultPage`, `MCLogRead`, `MCMerkleProofs` | instances for TLC | |

`AddRequest` is extended by `PrepareEvent` and by `NotaryIndex`, and that by
`NotaryServer`, which `SeedLog` and `DetailsPage` extend;
`NotaryServer` instantiates `TransparencyLog` with its log as the ledger. An
operator whose comment begins with "A slip" is a wrong variant of the operator
after it; no specification uses it. It exists to show that the properties
notice the difference.

**Actions of `NotaryServer`.**

| Action | Code |
|---|---|
| `Lookup`, `LookupFails` | `add.go:25-43`, `95-112`: decode, look the document up |
| `ReadHead`, `ReadHeadFails` | `add.go:114-128`, `logread/helpers.go:36-39`: read the head, if published, and compare |
| `AppendEntry`, `PrepareRefuses`, `AppendFails` | `add.go:45-66`: validate, prepare, append, wait for the future |
| `IndexEntry` | `add.go:69-81`: insert; an error is logged and ignored |
| `Respond` | `add.go:83-86` and the error answers |
| `PublishCheckpoint` | Tessera, from `NewAppender` on |
| `Start`, `CheckAlignment`, `Crash` | `main.go:40-66`, `95-99`; the process may end at any point |

A request is taken up only while `RoomInLog` holds: `MaxLog` bounds the log
without stopping a request half way. `seen` in a worker's locals is a history
variable: the rows its lookup could see. SHA-256 is a free constructor; a UUID
is fresh when it is made.

**Actions of `Anchor`.** `Lock` (a tick or a forced publication enters
`publishCheckpoint`), `ReadCheckpoint`, `SkipOldCheckpoint`, `WritePart` (part
of the line is in the file, visible to readers), `PublishCheckpoint` (all of it
is), `RememberHash`, `ReadFails`, `PublishFails` (nothing or part of a line
written), `AskLatest` and `AnswerLatest` (a request for the latest record,
which takes no lock), `Crash`, `Restart`, `GrowCheckpoint` (Tessera). A
checkpoint is its tree size: the log only grows and the signature is
deterministic, so equal sizes have equal bytes. A line is its number of fields,
its size field, whether its version and size can be parsed, whether its hashes
are whole and whether it ends in a newline; writing after a torn line joins the
two. A write can stop in each of the six fields, or before the newline; a cut
between two fields counts as one at the start of the second. Two torn writes can
make up six fields, with the right tree size and wrong hashes; so can a record
cut in its last hash and joined to a cut timestamp.

**Actions of `LogRead`.** `Sequence`, `Integrate`, `Publish` and
`CollectGarbage` are Tessera's; `Ask`, `ReadSize`, `ReadFile`, `ReadFullFile`
and `Answer` are one reader's: of an entry, or of any one tile of a proof. The
entry at index i is i itself, a file a range of them. `Width` is a constant (256
in the code), and `Span` the powers of it.

**Actions of `DetailsPage`.** `Open`, `FetchCurrent`, `FetchIndexes`,
`FetchVersion` (the answers of `Promise.all`, in any order), `Show`
(`sortHistory` and the label). `known` is a history variable: the receipts given
before the page was opened.

**Actions of `SeedLog`.** `Post` (the server takes the request up),
`PostRefused`, `ReceiveAnswer`, `GiveUp` (the client's timeout), `WriteSummary`;
the server and another client go on in `ServerStep`, even after the tool has
panicked.

**Actions of `Hammer`.** `TakeJob` (an unbuffered send and its receipt), `Post`,
`SendResult`, `WorkerDone`; `CloseJobs`, `CloseResults` of the
feeder; `Collect`, `PrintReport` of main.

**Actions of `InclusionPage`.** `VerifyInclusion` is the click, up to the loop;
`TakeSibling`, `ProofTooShort` and `MoveUp` are the branches of a round, `Compare`
what follows the loop. **Of `ConsistencyPage`:** `VerifyConsistency` is the click,
with everything that needs no hash (`FirstOutcome`); `StartHigher` is a round of the
first loop, `Begin` the choice of the first hashes; `NoLevelLeft`, `TakeShared` and
`TakeNew` are the branches of a round of the second loop, `ShiftEven` and `EndShift`
the inner loop and the halving after it; `CompareRoots` is the last line. Each click
runs on locals of its own, so one verification is all there is to a page.

**Actions of `ConsultPage`.** `ClickSearch`, `PressEnter`, `ClearFilters`,
`PrevPage`, `NextPage`, `EditFilters` are the user's; `HandleSearch` and
`LoadInitialEvents` are the functions they call. `Count`, `Select`,
`ReadEntry` are the handler's steps, `Receive` and `ReceiveError` what the page
does with the answer. `walk` is a history variable: the entries owed to a user
who reads from the first page to the last and not shown yet. Of the server's
other handlers only their effect is there: rows appear, and checkpoints.

## 3. The runs

| Run | Instance | What it shows |
|---|---|---|
| `Concurrent` | 2 workers, 2 documents, CREATE, UPDATE and refused requests, 4 event ids, every fault and crash, log of 4, tail of 2 | state well formed; rows mirror the log; the inductive invariant; forks only past events without rows; the startup check on complete and incomplete indexes; refinement of `TransparencyLog` |
| `SeedLog` | the tool with two documents and two updates of one of them, another client, failed lookups, reads and appends, crashes; log of 5, fair | the summary agrees with the log; every sequenced entry is published and indexed |
| `Mismatch` | two documents, every fault, log of 3, tail of 1 | **violated**: the startup check lets a mismatch through |
| `Details` | 2 workers, 1 document, log of 4 | the history is whole and in order; the latest is the latest |
| `DetailsFallback` | as `Details`, log of 3 | **violated**: one refused entry fails the page |
| `AnchorTorn` | ticker and 2 forced publications, a reader, every fault, fair | ordered records, a latest record that is the last one and never goes back, ticks that never repeat, every checkpoint anchored |
| `AnchorUnreadable` | torn writes | **violated**: a published record cannot be read back |
| `AddRequest` | about 13,000 bodies, each at three times of the clock, in and out of dev mode | spelling makes no difference to the event, an event sent back becomes itself or is refused as stated, an event fits its type |
| `ConsultPage` | 2 searches in flight, logs of 3 entries on two days, pages of 1, every fault, a refused range of dates | a walk through the pages misses nothing; an answer without `has_more` hides nothing; answers pair entries with indexes; the search button comes back |
| `LogRead` | files of width 3, two levels of tiles, logs of up to 7 entries, I/O errors | published entries and tiles are found, and are the right ones |
| `MerkleProofs` | one of the two pages open; every tree of up to 8 entries; proofs that fit, are cut, grown or swapped; the right document or another one; logs rewritten from any index | inclusion and consistency verification is exact |
| `Hammer` | 3 workers, 4 requests, fair | jobs posted once, sends never block, a complete report, in the end |

**Why the bounds are enough.** A race on a document needs two handlers and two
events after its CREATE at most, so a log of 4 contains every pair of
interleaved requests with an event before and after them. A tail of 2 gives logs
shorter than, as long as and longer than the tail, rows before and inside it
and rows beyond the published size. Two documents are enough to see rows cross
over; event ids number the log's length, so none runs out. One of the tool's two documents
gets three versions, so that a version is computed from one that was computed.
A history of 4 has chains, second CREATEs, and forks at the first and at a later
version. It has no holes and no missing root: an event is only chained to one
that has a row, so the code's fallback for them is out of the server's reach. For
the anchor, two forced publications
and a ticker make every pair race; two sizes and four lines make a torn line, a
line joined to it, and one after both. A body's timestamps are read by clocks in
three zones, at the first, a middle and the last reading a year of four digits
has and at one beyond either end; these readings, an exact range up to 2 and int64s up to 5 have each boundary
of the widths, and a number on either side of it. The server's runs keep to one
reading and small numbers, as `AddRequest` shows what becomes of the others. Files of width 3 and 7 entries have
partial files at three widths that grow by one or by several, full files
beside a partial one, and a tile of a second level, a partial one: a full tile of
the second level would take 9 entries and differs from a full bundle in its name
only. Three workers and four
requests have a worker with no job left, one waiting and one working.
Three entries on pages of one give a first, a middle and a last page, rows
inserted on either side of the page being read, and rows that push others to
the next page. Trees of up to 8 leaves have every
shape in which a node has no sibling at one or two levels, four levels of nodes,
and old sizes that are powers of two and others.
Symmetry is used for workers, event ids and searches in runs without liveness
properties; `SeedLog`, `AnchorTorn` and `Hammer` use none. `SeedLog` has a state
constraint instead, `DrawnInOrder`: event ids are drawn in a fixed order. No action
tells one unused id from another, so every behaviour is one of those that are
left with its ids renamed, and neither property names an id.

**Deadlock** is checked except where the instance really stops: `SeedLog` (the
plan is done, the log full), `Hammer` (the program has ended), `AddRequest` (one
step) and `MerkleProofs` (the page shows its verdict).

**Fairness.** `NotaryServer`: weak fairness of each handler's own steps, since
`net/http` runs a goroutine per request and none of these steps waits for
another handler, and of publication, which Tessera does every second. Nothing
is assumed of clients, the tool, restarts or crashes. `Anchor`: weak fairness
inside `publishCheckpoint`, strong fairness of the ticker's lock, because
`sync.Mutex` hands the lock to a waiter after a millisecond and the ticker ticks
for ever. `Hammer`: weak fairness of each worker, the feeder and main, since a
request ends at its timeout at the latest and goroutines are scheduled.

**What the violated runs say.**

- `Mismatch`: `server/README.md:48` says "a mismatch blocks startup".
  `checkRowCount` compares a count and `checkTailEntries` the last ten rows. A
  row lost before the tail is balanced by the row of an entry that is sequenced
  but not published, and the server starts. `ShortLogIsCheckedExactly` says
  where this cannot happen.
- `AnchorUnreadable`: the comment at `worker.go:95` says the most recent
  published checkpoint is returned. A record written after a torn line is
  part of that line.
- `DetailsFallback`: the comment at `details.html:231` promises a fallback if a
  fetch fails. `Promise.all` has none: while the newest event of a document is
  indexed and not yet published, about a second, its details page fails.

**What the properties leave out, and why.** `LatestUnlessTorn` and
`CheckpointsGetAnchored` except a file with a torn line, where the record that
follows is lost with it and remembered as published. `PublishedIsFound` excepts
a disk that failed: an I/O error on a partial bundle falls back to the full one,
which a small log does not have, so that the answer is "not found".
`LatestCoversReceipts` is checked and proved where inserts succeed, and every
recording time can be read (`InsertsSucceed`): an entry whose row was
lost is missing from the history, and its document shows an older version as
the latest one. The label it speaks of says "più recente e valido" of a REVOKE
or EXPIRE event as well. `TicksPublishOnlyNew` is about one process: after a
restart the first tick writes the last checkpoint again.
`CanonicalFormIsStable` names the two cases in which an event that was admitted
is refused when it is sent back: `issued_at` is within the years 0000 to 9999 in
its own zone and not in UTC, and `prev_event_leaf` is rounded beyond an int64.
In the first case `time.Parse` cannot read what was written, in dev mode not the
recording time either, and the index refuses the row (`HasReadableTime`); in the
second the server cannot decode the event when it is its document's head
(`ExtendsHead`). Both are beyond what clients of this notary send.
`SummaryMatchesLog` holds although an UPDATE sent right after its predecessor's
answer may be refused, because that event is not yet published: the tool then
panics, and writes no summary at all.

**What `WalkMissesNothing` leaves out, and why.** Both exceptions in it are
needed; without either one TLC finds a walk that misses an entry. A row
inserted between `SELECT COUNT` and `SELECT log_index` of the last page pushes
the last row to a page that the count does not announce. And a page whose
entries are all indexed but not yet published renders as "no document found"
with total 0, so the paging bar disappears while older entries match. Answers
that overtake each other are part of the model too: the page then shows one
page's rows under another page's number; nothing in the code claims otherwise.

## 4. The proofs

Every theorem holds for all values of the constants that satisfy the named
assumptions beside their declarations:

- `AddRequest`, `NotaryServer`: times, offsets and widths are integers, UTC is one
  of the zones, no UUID is the empty string,
  an absent id is not an id, and the requests of the handlers have been decoded;
- `PrepareEvent`: a body is what `encoding/json` fills a struct with, and an
  absent member is unlike every string and number;
- `SeedLog`: there are finitely many handlers, the tool's documents are
  distinct (the run prefix is random), no more of them are updated than there
  are, and what the tool sends is among what clients send
  (`SeedRequestsAssumption`);
- `ConsultPage`: the forms have the form's four fields and one of them is
  blank; pages, days and logs have sizes;
- `Anchor`: the ticker is not one of the handlers and `None` is no number;
- `LogRead`: widths and spans are positive;
- `MerkleProofs`, `InclusionPage`, `ConsistencyPage`: logs and proofs are sequences,
  and no document has the hash that stands for a missing one;
- `Hammer`: the pool is finite and there is a request to make, which `main`
  checks.

TLC evaluates all of them on every run that reaches them.

| Theorem | States |
|---|---|
| `NotaryServerProofs!Invariance`, `TypeCorrect`, `RowsNeverLie` | `IInv`, and its conjuncts `TypeOK`, `RowsMirrorLog` |
| `NotaryServerProofs!ForksNeedUnindexedEvents` | `ForksOnlyPastUnindexedEvents`, an action property |
| `NotaryServerProofs!CheckAdmitsAlignedIndex`, `CheckIsExactOnShortLogs` | the startup check |
| `NotaryServerProofs!Refinement` | the server implements `TransparencyLog` |
| `PrepareEventProofs!SpellingMakesNoDifference`, `CanonicalFormIsFixed`, `EventsFit` | `SpellingIsImmaterial`, `CanonicalFormIsStable`, `EventFitsItsType` |
| `AnchorProofs!Invariance`, `TypeCorrect`, `NeverOutOfOrder`, `FreshLatest` | `IInv`, `TypeOK`, `RecordsOrdered`, `LatestIsFresh` |
| `AnchorProofs!LatestIsTheLast` | `LatestUnlessTorn` |
| `AnchorProofs!TicksNeverRepeat` | `TicksPublishOnlyNew`, an action property |
| `LogReadProofs!Invariance`, `TypeCorrect`, `NothingPublishedIsMissing`, `DeliveryIsRight` | `IInv`, `TypeOK`, `PublishedIsFound`, `DeliversWhatWasAsked` |
| `ConsultPageProofs!TypeCorrect`, `AnswersArePaired`, `NoMoreIsAll` | `TypeOK`, `AnswersPairEntries`, `NoMoreMeansAll` |
| `ConsultPageProofs!NothingIsMissed`, `NeverLockedOut` | `WalkMissesNothing`, `SearchIsNeverLockedOut` |
| `ClientProofs!PageInvariance`, `HistoryShownWhole` | `PageInv`, `HistoryIsWhole` |
| `ClientProofs!LatestIsHonest` | `LatestCoversReceipts`, where inserts succeed |
| `ClientProofs!SeedInvariance`, `SummaryIsTrue` | `SeedInv`, `SummaryMatchesLog` |
| `VerificationProofs!InclusionInvariance`, `InclusionExactness` | `InclusionInv`, `InclusionIsExact` |
| `VerificationProofs!ConsistencyInvariance`, `ConsistencyExactness` | `ConsistencyInv`, `ConsistencyIsExact` |
| `HammerProofs!Invariance`, `TypeCorrect`, `PostedOnce`, `NeverBlocked`, `CompleteReport` | `IInv`, `TypeOK`, `JobsPostedOnce`, `SendsNeverBlock`, `ReportIsComplete` |

Every inductive invariant below was checked by TLC on the instance of its
component's run before it was proved (those of the two verification pages with
trees of up to 7 entries); only that of `NotaryServer` is a property of
a run, the others lie beside the properties they imply.

**`NotaryServer`.** `RowsMirrorLog` is not inductive: a row is written from the
handler's locals, long after the append. `IInv` adds `WorkerOK`: a handler about
to insert holds the entry at its index (log entries never change:
`AppendKeepsEntries`), a handler about to append holds a published predecessor
of its document with the id the request names, and no row it saw at its lookup
is of a later entry of the document. The last part is what the fork theorem
needs: the greatest index among the rows seen is the head, so an event that
diverges from the new one was not among them. For the startup check, the row a
handler inserts passes every column comparison (`OwnRowMatches`), and a table
with as many rows as a short log and all its tail rows has nothing else
(a counting argument on finite sets). Refinement maps `AppendEntry` to
`Notarize`, `Respond` to `GiveReceipt`, publication to `Publish` and everything
else to a stutter.

**`PrepareEvent`.** One step, so the weight is in the operators. Two decoded
requests share an outcome if they agree in every member but in how hash and time
are written and in what rounding makes of a number (`SayTheSame`, `OneFate`). A
request and its tidy form do: trimming and folding are idempotent, in either
order (`SpelledOnce`, `TidyDecodes`), and a hash is looked at through its algorithm
and its parsed digest only (`TidyHash`). So do a request and its event, sent back
(`StableOutcome`): a digest written with its prefix parses as itself
(`DigestParsesBack`), a rounded number is not rounded again
(`CanonicalLeafIsFixed`), and an instant written in UTC is read as itself within
the years that can be read, and not at all beyond them (`InstantReadsBack`), which
is why the theorem's two exceptions are exact.

**`Anchor`.** `RecordsOrdered` needs what the mutex protects: `Inside`, that
nothing in the file, in `lastHash` or published is newer than the checkpoint of
the caller that holds it, also when part of its line is already there (`Base`).
Two lemmas on `Written` carry the file: a line not older than the rest keeps it
bounded and ordered, torn or joined or not (`WrittenFits`), and whatever torn
lines precede it, a last line of up to six fields is not older than the last
record (`WrittenDecodes`, `RecordDecodes`): a record takes six fields and shares at
most one of them with what was there before, so such a line has nothing older in
it. `LatestIsFresh` follows with `FloorHolds`, and
`TicksPublishOnlyNew` with `Remembered`: what a process has published is not
newer than the hash it remembers. `LatestUnlessTorn` rests on `LastIsRecorded`:
a file without a torn line ends in the record of the last publication, or, while
a line is being written, did so before it (`LastWritten`).

**`LogRead`.** The invariant says that the files of the sequenced, integrated
and published trees are there (`Retained`) and that the file a reader is after
is there under its own name or in full (`Within`). A partial file is deleted only
when the published tree has the full one (lemmas on how the name of a file
changes as a tree grows), and the published tree only grows.

**`Queries` and `ConsultPage`.** A row's rank is the number of rows before it. An
insertion leaves every rank or raises it, so a row owed to the reader never slips
to a page he has turned: `OwedFrom` says that all of them are ranked on the page
under way or later, and `Fetching` carries it through the request, from the form
to the rows counted, selected and read. `ReadsOnePage` relates what a handler has
gathered to the page of the rows it counted: in order, paired, and short of the
whole page only when a row was left out (`Complete`). The counting lemmas, that the
rows of a page are as many as the ranks it spans, are proved by well-founded
induction on finite sets. The walk theorem adds that `has_more` is false only when
no rank lies beyond the page.

**`DetailsPage`.** `sortHistory` has two orders, and both put predecessors first.
By version: a predecessor is the version before, of the same document
(`VersionsFollow`, from `WorkerOK` of `NotaryServer`), so the rank of an event
among those of earlier versions, or of the same version at an earlier index, is
above that of its predecessor; ranks of n events are the numbers up to n. By
links: the code's loop is a recursive function, which is shown to exist and to
satisfy its equation; if no event forks, each step finds one event at most, and
the walk that reaches all of them passes each once. `LatestIsHonest` then needs
that a receipt implies a row where no insert fails (`RowsKept`), that the answer to
`GET /get-indexes` came after the page was opened, that a failed fetch ends the
page, and that the last event of either order has the greatest version.

**`SeedLog`.** The tool's rows agree with the log because nobody else extends its
documents (`OthersKeepOff`) and because what it knows of a document is its last
row (`LastRow`): the version it computes is then the one the server gives
(`Expected`). The one entry it may not know of is that of the handler whose answer
is under way, or will never come (`Accounted`). `AppendStep` and `TakeAnswerStep`
are the two steps in which log and summary change; every other step is shown to
change neither (`QuietStep`).

**`Hammer`.** A count: results sent and jobs held add up to the jobs handed out
(`AllHandedOut`), hence the buffer of `requests` places never fills before
the last result; the results channel is closed when nobody is left to send
(`Shutdown`).

**`MerkleProofs`.** The tree hash and the proof are functions that call themselves
at one height less. TLAPS knows nothing of such a function until one is shown to
exist: `Pow2Equation`, `HashesEquation` and `SiblingsEquation` build it from its
stages, and what follows uses the equations only. A level of a tree is then spoken
of by height and position: `At` is the first leaf of a node, `HashAt` its hash,
`ListAt` its part of the proof, and a node either has two children (`PairedNode`)
or is the last of its level and the same as its child (`AloneNode`). Two subtrees of
one shape have equal hashes exactly when their leaves are equal (`HashIsInjective`),
which is all that is taken from SHA-256.

**`InclusionPage`.** Exactness is an equivalence, and so is the invariant
(`Climbed`): after k levels the page's hash is that of the node of height k around
the leaf if and only if the event is the log's and the siblings used are the proof's
first ones. It has to be carried in both directions through every level, and the
number of siblings used must be the length of the node's part of the proof, or a
cut or grown proof could not be told from a whole one. A loop that pairs by the
parity of a position and the size of a level (`idx`, `n`) is thereby shown to follow
the tree that RFC 6962 divides at the largest power of two.

**`ConsistencyPage`.** The same on the path of the old tree's last leaf, for both
roots at once: at height k the two hashes are the node's in the old and in the new
tree if and only if the nodes used are the proof's and the logs agree on the leaves
below it (`RootsRight`). It starts at the old tree's last full subtree. That no node
further up ends where the old tree does (`Indivisible`) is what makes the rest of
the proof the plain list of siblings; without it the invariant is not inductive.
While the inner loop runs, the hashes are one node ahead of the height it has
reached; the invariant then speaks of their right halves. A proof that is used up
below the top is too short, because every node below it has a sibling to come
(`MoreToCome`), and one with nodes left at the top is too long. An old tree that is a power of two has no first node in
its proof, and the page asks the size, not the proof: both conditions are carried up
from the last leaf together.

**Induction.** No theorem of the library that takes an operator can be used, so
the arguments by induction either take a least counterexample (a set of naturals
that is not empty has a least element, and a finite one a greatest: `Least`,
`Greatest`, from the well-foundedness of strict inclusion among finite sets) or
speak of the set of numbers for which a formula holds: one that has 0 and, with
each number, the next is all of `Nat` (`AllNaturals`).

**Only model-checked.** Liveness, which is out of the prover's reach:
`CheckpointsGetAnchored`, `SequencedIsEventuallyServed`, `HammerReports`. The
three violated properties are refuted by their runs.

## 5. Not modelled

- Lookups by document hash and leaf hash: single reads of the table, of which
  no modelled client makes use; the first answers the last of several rows, as
  a TODO in `lookup.go:10` says.
- The proof builder is Tessera's and is modelled by the RFC 6962 definitions.
- Dates outside 1678-2262, whose `UnixNano` is undefined.
- The SQLite connection that all handlers share: `SearchIndexes` closes its
  rows before the first entry is read, so no handler holds it while it waits.
- Web client: the pages that send one request after the other and show or
  download the answer; layout everywhere. The files a verification page reads
  are taken as parsed, and the consistency page's second mode, with roots typed in
  for checkpoints, is left out.
- Routes, CORS and cache headers, flags, key loading: no state to speak of.
- `seed_log`: the PDFs, and the times it spreads over past days; its
  `event/*.json` are indented anew and are not the bytes of the log's entries.
- `hammer`: latencies and percentiles, the contents of its requests.
- JSON, UUID and RFC 3339 parsing are modelled by which inputs they accept. Of the
  float64s above 2^53 the canonicalizer writes, the gap of two is modelled, not that
  it doubles with every power of two.

## 6. Order of work

`AddRequest`, `NotaryIndex`, `TransparencyLog` and `NotaryServer` with its proofs
came first, as everything else reads what they write; then the readers `Queries`
with `ConsultPage`, `MerkleProofs`, `LogRead`, `DetailsPage`; then `Anchor`,
`SeedLog` and `Hammer`; and the proofs of `Hammer`, `LogRead` and `Anchor`, of
`ConsultPage`, of `DetailsPage` and `SeedLog` on top of that of `NotaryServer`, and
of `PrepareEvent`; last the two verification pages, level by level, and their proofs.
What would come next: the recovery page's requests in flight while the user picks
another document.
