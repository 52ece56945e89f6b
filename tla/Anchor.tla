------------------------------- MODULE Anchor -------------------------------
(***************************************************************************)
(* The anchor worker and its file (server/internal/anchor): a ticker and   *)
(* POST /anchor/force handlers copy the log's published checkpoint to the  *)
(* end of a text file, the fake blockchain; GET /anchor/latest handlers    *)
(* read its last line back without taking the worker's mutex, whatever a   *)
(* write has put there by then.                                            *)
(*                                                                         *)
(* A checkpoint is its tree size: the log only grows and its signature is  *)
(* deterministic, so equal sizes have equal bytes and equal hashes.        *)
(***************************************************************************)
EXTENDS Integers, Sequences

CONSTANTS
    None,
    Ticker,         \* the goroutine running Worker.Run
    Forcers,        \* handlers of POST /anchor/force
    Faults,         \* which failures may happen
    MaxSize,        \* bound: the published tree grows no further
    MaxLines,       \* bound: no forced publication starts on a longer file
    MaxFailures     \* bound: failed reads and writes, and crashes

ASSUME AnchorFaults == Faults \subseteq {"read", "write", "torn", "crash"}
ASSUME AnchorBounds == MaxSize \in Nat /\ MaxLines \in Nat /\ MaxFailures \in Nat
ASSUME AnchorNone == None \notin Nat
ASSUME TickerIsNoForcer == Ticker \notin Forcers /\ None \notin Forcers \cup {Ticker}

Callers == Forcers \cup {Ticker}

VARIABLES
    size,           \* the published checkpoint, external
    file,           \* the anchor file's non-blank lines, durable
    lastHash,       \* Worker.lastHash
    mu,             \* Worker.mu: its holder, or None
    pc,             \* where each caller is in publishCheckpoint
    cp,             \* the checkpoint each caller has read
    before,         \* the file without the part that a write has added so far
    reader,         \* a handler of GET /anchor/latest and its last answer
    up,             \* the process runs
    session,        \* history: checkpoints this process has published
    recorded,       \* history: the last checkpoint any process published
    failures        \* history: failed reads and writes, crashes

workerVars == <<lastHash, mu, pc, cp>>
history == <<session, recorded, failures>>
vars == <<size, file, workerVars, before, reader, up, history>>

-----------------------------------------------------------------------------
(* Lines. A record has six space-separated fields, the timestamp, the      *)
(* domain, the version, the tree size and two hashes, and ends in a        *)
(* newline. A write that is cut short leaves some fields, the last one     *)
(* incomplete unless "whole", and no newline: the next record continues on *)
(* the same line. "numbers" says that nothing got mixed into the version   *)
(* and the tree size, so that both can be parsed.                          *)

Line == [fields : Nat, size : Nat, numbers : BOOLEAN, whole : BOOLEAN, ended : BOOLEAN]

Record(n) ==
    [fields |-> 6, size |-> n, numbers |-> TRUE, whole |-> TRUE, ended |-> TRUE]

\* A torn write stops in any of the fields, or just before the newline. A
\* cut between two fields counts as one at the start of the second.
TornAt(n, k) ==
    [fields |-> k, size |-> n, numbers |-> TRUE, whole |-> FALSE, ended |-> FALSE]
TornRecords(n) ==
    {TornAt(n, k) : k \in 1 .. 6}
        \cup {[Record(n) EXCEPT !.ended = FALSE]}

\* The text of line b written right after the text of line a. Only the
\* timestamp, the domain and the hashes, which are never parsed, may absorb
\* another text.
Joined(a, b) ==
    [fields  |-> a.fields + b.fields - 1,
     size    |-> IF a.fields = 1 THEN b.size ELSE a.size,
     numbers |-> \/ a.fields = 1 /\ b.numbers
                 \/ a.fields \in {5, 6} /\ a.numbers,
     whole   |-> a.fields = 1 /\ b.whole,
     ended   |-> b.ended]

\* One write(2) on a descriptor opened with O_APPEND.
Written(f, line) ==
    IF f # << >> /\ ~f[Len(f)].ended
    THEN [f EXCEPT ![Len(f)] = Joined(@, line)]
    ELSE Append(f, line)

\* LatestCheckpoint: the last line, if it has six fields and parseRecordLine
\* can read the two numbers; the two hashes are taken as they stand.
NothingPublished == [err |-> "no published checkpoint"]
Undecodable == [err |-> "decode anchor record"]
\* A slip: the first line instead of the last.
FirstCheckpoint(f) ==
    IF f = << >> THEN NothingPublished
    ELSE IF f[1].fields # 6 \/ ~f[1].numbers THEN Undecodable
    ELSE [size |-> f[1].size, whole |-> f[1].whole, block |-> Len(f)]
\* A slip: a line that cannot be parsed is passed over.
LastParsedCheckpoint(f) ==
    LET parsed == {i \in 1 .. Len(f) : f[i].fields = 6 /\ f[i].numbers}
        last == CHOOSE i \in parsed : \A j \in parsed : j <= i
    IN  IF parsed = {} THEN NothingPublished
        ELSE [size |-> f[last].size, whole |-> f[last].whole, block |-> Len(f)]
LatestCheckpoint(f) ==
    IF f = << >> THEN NothingPublished
    ELSE IF f[Len(f)].fields # 6 \/ ~f[Len(f)].numbers THEN Undecodable
    ELSE [size |-> f[Len(f)].size, whole |-> f[Len(f)].whole, block |-> Len(f)]

-----------------------------------------------------------------------------
\* "floor" is a history variable: the last checkpoint published when the
\* request arrived.
NoRequest == [asked |-> FALSE, floor |-> None, answer |-> None]

Init ==
    /\ size = 0
    /\ file = << >>
    /\ lastHash = None
    /\ mu = None
    /\ pc = [c \in Callers |-> "idle"]
    /\ cp = [c \in Callers |-> None]
    /\ before = << >>
    /\ reader = NoRequest
    /\ up = TRUE
    /\ session = {}
    /\ recorded = None
    /\ failures = 0

\* Tessera publishes a larger tree, at any moment the process runs.
GrowCheckpoint ==
    /\ up
    /\ size < MaxSize
    /\ size' = size + 1
    /\ UNCHANGED <<file, workerVars, before, reader, up, history>>

\* A slip: the mutex is not taken.
NoMutex == TRUE

\* publishCheckpoint holds the mutex from before the read to the return.
MutexFree == mu = None
\* A slip: an early return without the unlock.
KeepLocked(c) ==
    /\ UNCHANGED mu
    /\ pc' = [pc EXCEPT ![c] = "idle"]
    /\ cp' = [cp EXCEPT ![c] = None]
Unlock(c) ==
    /\ mu' = None
    /\ pc' = [pc EXCEPT ![c] = "idle"]
    /\ cp' = [cp EXCEPT ![c] = None]

\* A tick, the first one at startup, or a forced publication.
Lock(c) ==
    /\ up
    /\ pc[c] = "idle"
    /\ MutexFree
    /\ c = Ticker \/ Len(file) < MaxLines
    /\ mu' = c
    /\ pc' = [pc EXCEPT ![c] = "read"]
    /\ UNCHANGED <<size, file, lastHash, cp, before, reader, up, history>>

\* An unforced publication of the checkpoint published last returns early.
NotNew(c) == c = Ticker /\ size = lastHash

\* A slip: the hash is remembered before the file is written.
RememberBeforePublishing(c) ==
    /\ pc[c] = "read"
    /\ ~NotNew(c)
    /\ cp' = [cp EXCEPT ![c] = size]
    /\ pc' = [pc EXCEPT ![c] = "publish"]
    /\ lastHash' = size
    /\ UNCHANGED <<size, file, mu, before, reader, up, history>>
ReadCheckpoint(c) ==
    /\ pc[c] = "read"
    /\ ~NotNew(c)
    /\ cp' = [cp EXCEPT ![c] = size]
    /\ pc' = [pc EXCEPT ![c] = "publish"]
    /\ UNCHANGED <<size, file, lastHash, mu, before, reader, up, history>>

SkipOldCheckpoint(c) ==
    /\ pc[c] = "read"
    /\ NotNew(c)
    /\ Unlock(c)
    /\ UNCHANGED <<size, file, lastHash, before, reader, up, history>>

\* Part of the line is in the file, where a reader can see it.
WritePart(c) ==
    /\ pc[c] = "publish"
    /\ \E line \in TornRecords(cp[c]) : file' = Written(file, line)
    /\ before' = file
    /\ pc' = [pc EXCEPT ![c] = "writing"]
    /\ UNCHANGED <<size, lastHash, mu, cp, reader, up, history>>

\* The whole record is on disk; the mutex is still held.
PublishCheckpoint(c) ==
    /\ \/ pc[c] = "publish" /\ file' = Written(file, Record(cp[c]))
       \/ pc[c] = "writing" /\ file' = Written(before, Record(cp[c]))
    /\ before' = << >>
    /\ pc' = [pc EXCEPT ![c] = "published"]
    /\ session' = session \cup {cp[c]}
    /\ recorded' = cp[c]
    /\ UNCHANGED <<size, lastHash, mu, cp, reader, up, failures>>

\* A slip: a forced publication does not remember its hash.
TickHashOnly(c) == IF c = Ticker THEN cp[c] ELSE lastHash

\* lastHash is set only after the publisher reported success.
NewHash(c) == cp[c]
RememberHash(c) ==
    /\ pc[c] = "published"
    /\ lastHash' = NewHash(c)
    /\ Unlock(c)
    /\ UNCHANGED <<size, file, before, reader, up, history>>

CountFailure ==
    /\ failures < MaxFailures
    /\ failures' = failures + 1

ReadFails(c) ==
    /\ "read" \in Faults
    /\ pc[c] = "read"
    /\ CountFailure
    /\ Unlock(c)
    /\ UNCHANGED <<size, file, lastHash, before, reader, up, session, recorded>>

\* The publisher returns an error: nothing was written, or part of a line.
PublishFails(c) ==
    /\ \/ "write" \in Faults /\ pc[c] = "publish"
       \/ "torn" \in Faults /\ pc[c] = "writing"
    /\ before' = << >>
    /\ CountFailure
    /\ Unlock(c)
    /\ UNCHANGED <<size, file, lastHash, reader, up, session, recorded>>

\* GET /anchor/latest arrives, and is answered. The file only grows, so what
\* the scan has read when it meets the end of the file is the file then.
AskLatest ==
    /\ up
    /\ ~reader.asked
    /\ reader' = [asked |-> TRUE, floor |-> recorded, answer |-> None]
    /\ UNCHANGED <<size, file, workerVars, before, up, history>>

AnswerLatest ==
    /\ reader.asked
    /\ reader' = [reader EXCEPT !.asked = FALSE, !.answer = LatestCheckpoint(file)]
    /\ UNCHANGED <<size, file, workerVars, before, up, history>>

\* The worker's memory goes with the process.
Crash ==
    /\ "crash" \in Faults
    /\ up
    /\ CountFailure
    /\ up' = FALSE
    /\ lastHash' = None
    /\ mu' = None
    /\ pc' = [c \in Callers |-> "idle"]
    /\ cp' = [c \in Callers |-> None]
    /\ before' = << >>
    /\ reader' = NoRequest
    /\ session' = {}
    /\ UNCHANGED <<size, file, recorded>>

Restart ==
    /\ ~up
    /\ up' = TRUE
    /\ UNCHANGED <<size, file, workerVars, before, reader, history>>

Step(c) ==
    \/ ReadCheckpoint(c) \/ SkipOldCheckpoint(c)
    \/ WritePart(c) \/ PublishCheckpoint(c) \/ RememberHash(c)
    \/ ReadFails(c) \/ PublishFails(c)

Next ==
    \/ GrowCheckpoint
    \/ \E c \in Callers : Lock(c) \/ Step(c)
    \/ AskLatest \/ AnswerLatest
    \/ Crash
    \/ Restart

Spec == Init /\ [][Next]_vars

\* The ticker ticks for ever, and sync.Mutex hands a waiter the lock within
\* a millisecond: it is not starved by forced publications. A caller inside
\* publishCheckpoint does not stop there. Nobody has to restart the process.
FairSpec ==
    /\ Spec
    /\ SF_vars(Lock(Ticker))
    /\ \A c \in Callers : WF_vars(Step(c))

-----------------------------------------------------------------------------
(* Properties. *)

LatestAnswer ==
    {None, NothingPublished, Undecodable} \cup
        [size : Nat, whole : BOOLEAN, block : Nat]

\* The state is well formed; the mutex holder is the one caller inside
\* publishCheckpoint, and nobody is while the process is down.
TypeOK ==
    /\ size \in 0 .. MaxSize
    /\ file \in Seq(Line)
    /\ lastHash \in Nat \cup {None}
    /\ mu \in Callers \cup {None}
    /\ pc \in [Callers -> {"idle", "read", "publish", "writing", "published"}]
    /\ cp \in [Callers -> Nat \cup {None}]
    /\ before \in Seq(Line)
    /\ reader \in [asked : BOOLEAN, floor : Nat \cup {None}, answer : LatestAnswer]
    /\ up \in BOOLEAN
    /\ session \subseteq Nat
    /\ recorded \in Nat \cup {None}
    /\ failures \in Nat
    /\ \A c \in Callers : pc[c] # "idle" <=> mu = c
    /\ ~up => mu = None

\* Whole records stand in the file in the order of their tree sizes, even
\* when a tick and forced publications race and the tree grows between a
\* read and its write: a reader of the chain never sees the log shrink.
Ordered(f) ==
    \A i, j \in 1 .. Len(f) :
        i < j /\ f[i].whole /\ f[j].whole => f[i].size <= f[j].size

RecordsOrdered == Ordered(file)

\* Within one process a tick never writes a checkpoint the process has
\* already published, by a tick or by force (worker.go:112-115).
TicksPublishOnlyNew ==
    [][pc[Ticker] # pc'[Ticker] /\ pc'[Ticker] = "published" =>
           cp[Ticker] \notin session]_vars

Torn == \E i \in 1 .. Len(file) : ~file[i].whole \/ ~file[i].ended

\* worker.go:95-96, "returns the most recent published checkpoint recorded by
\* the configured publisher": GET /anchor/latest gives the record of the last
\* successful publication whenever none is under way.
LatestIsLastPublished ==
    mu = None /\ recorded # None =>
        /\ "size" \in DOMAIN LatestCheckpoint(file)
        /\ LatestCheckpoint(file).size = recorded
        /\ LatestCheckpoint(file).whole

\* While no write has been cut short the latest record read back is the last
\* one any process published, across failed attempts, races and restarts
\* (file_publisher.go:58-109).
LatestUnlessTorn == ~Torn => LatestIsLastPublished

\* GET /anchor/latest, answered without the mutex and even in the middle of a
\* write, never reports an older tree than the last one published when the
\* request arrived, nor one the log has not published: a client that compares
\* it with a proof's tree size does not see the anchor go back
\* (file_publisher.go:58-109 beside 35-56).
LatestIsFresh ==
    reader.answer # None /\ reader.floor # None =>
        /\ reader.answer # NothingPublished
        /\ "size" \in DOMAIN reader.answer => reader.answer.size \in reader.floor .. size

\* A published checkpoint, or a later one, is eventually anchored, however
\* many attempts fail first, as long as they stop failing, the process is not
\* down and no write was cut short: the record that follows a torn line is lost
\* with it, and remembered as published.
CheckpointsGetAnchored ==
    \A n \in 0 .. MaxSize :
        size = n ~> \/ \E i \in 1 .. Len(file) : file[i].whole /\ file[i].size >= n
                    \/ ~up
                    \/ mu = None /\ Torn

-----------------------------------------------------------------------------
(* The inductive invariant. What the mutex protects: while a caller is     *)
(* between its read and its return, nothing older than the log and nothing *)
(* newer than its checkpoint is in the file, in lastHash or recorded.      *)

AtMost(last, n) == last # None => last <= n

Bounded(f, n) == \A i \in 1 .. Len(f) : f[i].size <= n

\* A last line of six fields or fewer holds at most one record, the last one,
\* and pieces of records that were written after it: a record takes six fields
\* and shares at most one of them. So what decodes is not older than the last
\* record, even where two torn writes make up the six fields.
Decodable(f, last) ==
    /\ \A i \in 1 .. Len(f) : f[i].fields >= 1
    /\ last # None =>
          /\ f # << >>
          /\ f[Len(f)].fields <= 6 => f[Len(f)].size >= last

\* The file, without what a write in progress has added.
Base(c) == IF pc[c] = "writing" THEN before ELSE file

Inside(c) ==
    /\ pc[c] \in {"publish", "writing"} =>
          /\ cp[c] \in 0 .. size
          /\ AtMost(lastHash, cp[c]) /\ AtMost(recorded, cp[c])
          /\ c = Ticker => cp[c] # lastHash
          /\ Bounded(Base(c), cp[c]) /\ Ordered(Base(c)) /\ Decodable(Base(c), recorded)
    /\ pc[c] = "published" =>
          cp[c] \in 0 .. size /\ \A n \in session : n <= cp[c]

\* What this process has published is not newer than the hash it remembers.
Remembered ==
    (\A c \in Callers : pc[c] # "published") =>
        \A n \in session : lastHash # None /\ n <= lastHash

\* A whole last line is the record of the last publication: a line that begins
\* with a torn one is whole only if all it took over was a timestamp.
LastIsRecorded ==
    recorded # None =>
        /\ file # << >>
        /\ file[Len(file)].whole /\ file[Len(file)].ended =>
              /\ file[Len(file)].fields = 6 /\ file[Len(file)].numbers
              /\ file[Len(file)].size = recorded

FloorHolds ==
    reader.asked /\ reader.floor # None => recorded # None /\ reader.floor <= recorded

IInv ==
    /\ TypeOK
    /\ Bounded(file, size) /\ Ordered(file) /\ Decodable(file, recorded)
    /\ AtMost(lastHash, size) /\ AtMost(recorded, size)
    /\ \A c \in Callers : Inside(c)
    /\ Remembered
    /\ FloorHolds
    /\ LatestIsFresh
=============================================================================
