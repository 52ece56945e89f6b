------------------------------- MODULE LogRead -------------------------------
(***************************************************************************)
(* Reading the log while it grows (server/internal/logread/helpers.go,     *)
(* eventread/reader.go, proofsvc/service.go). The log lies in files of a   *)
(* fixed width: bundles of entries and, level by level, tiles of hashes.   *)
(* The last file of a level is partial and is named by its width; as the   *)
(* tree grows wider files appear beside it, in the end the full one, and   *)
(* then the partial ones may be deleted. A reader takes the size of the    *)
(* published tree first, asks for the file that tree had, and if it is not *)
(* there for the full one. Storage is Tessera's, hence external.           *)
(*                                                                         *)
(* The entry at index i is i itself; a file holds a range of indexes.      *)
(***************************************************************************)
EXTENDS Integers, FiniteSets

CONSTANTS
    Width,          \* layout.EntryBundleWidth and layout.TileWidth, 256
    Span,           \* for each level of tiles, the entries under one of its
                    \* hashes: the powers of Width
    MaxEntries,     \* bound: the log does not outgrow it
    Faults          \* {"io"} if a read may fail

Levels == DOMAIN Span

ASSUME WidthAssumption == Width \in Nat \ {0}
ASSUME SpanAssumption == Levels \subseteq Nat /\ \A l \in Levels : Span[l] \in Nat \ {0}
ASSUME MaxEntriesAssumption == MaxEntries \in Nat
ASSUME ReadFaultsAssumption == Faults \subseteq {"io"}

VARIABLES
    sequenced,      \* entries sequenced
    integrated,     \* tree size
    published,      \* tree size of the public checkpoint
    files,          \* the files on disk
    reader          \* one handler's locals

vars == <<sequenced, integrated, published, files, reader>>
storage == <<sequenced, integrated, published, files>>

-----------------------------------------------------------------------------
(* Layout. *)

Entries == -1                   \* the "level" of entry bundles
AllLevels == {Entries} \cup Levels

\* How many entries, or hashes, a level has in a tree.
SizeAt(level, size) == IF level = Entries THEN size ELSE size \div Span[level]

\* layout.PartialTileSize: 0 for a file that is full in the tree.
PartialTileSize(level, index, size) ==
    IF index < SizeAt(level, size) \div Width
    THEN 0 ELSE SizeAt(level, size) % Width

File(level, index, p) == [level |-> level, index |-> index, p |-> p]
FileOf(level, index, size) == File(level, index, PartialTileSize(level, index, size))

\* The indexes of the files a level has in a tree.
IndexesOf(level, size) ==
    {i \in 0 .. MaxEntries : i * Width < SizeAt(level, size)}

FilesOf(level, size) == {FileOf(level, i, size) : i \in IndexesOf(level, size)}

WidthOf(file) == IF file.p = 0 THEN Width ELSE file.p

-----------------------------------------------------------------------------
(* Storage, which grows by batches. *)

Sequence ==
    /\ sequenced' \in sequenced + 1 .. MaxEntries
    /\ files' = files \cup FilesOf(Entries, sequenced')
    /\ UNCHANGED <<integrated, published, reader>>

Integrate ==
    /\ integrated < sequenced
    /\ integrated' = sequenced
    /\ files' = files \cup UNION {FilesOf(l, integrated') : l \in Levels}
    /\ UNCHANGED <<sequenced, published, reader>>

Publish ==
    /\ published < integrated
    /\ published' = integrated
    /\ UNCHANGED <<sequenced, integrated, files, reader>>

\* Partial files go, one by one, once the published tree has the full one.
Superseded(file) ==
    file.p # 0 /\ file.index < SizeAt(file.level, published) \div Width

CollectGarbage ==
    /\ \E file \in files : Superseded(file) /\ files' = files \ {file}
    /\ UNCHANGED <<sequenced, integrated, published, reader>>

-----------------------------------------------------------------------------
(* A reader. *)

NoReader == [stage |-> "idle", ask |-> "entry", idx |-> 0, size |-> 0, level |-> Entries,
             index |-> 0, failed |-> FALSE, width |-> 0, entry |-> 0]

Finish(stage) == reader' = [reader EXCEPT !.stage = stage]

\* GET /get-entry/<idx>, and every other reader of entries; or a proof,
\* GET /get-inclusion/<idx>, which reads tiles (GET /get-consistency reads them
\* in the same way).
Ask(what, idx) ==
    /\ reader.stage = "idle"
    /\ reader' = [NoReader EXCEPT !.stage = "size", !.ask = what, !.idx = idx]
    /\ UNCHANGED storage

\* The file that holds an entry. Of the tiles of a proof each is read on its
\* own, so that one, any one, stands for all.
Wanted(size) ==
    IF reader.ask = "entry" THEN {FileOf(Entries, reader.idx \div Width, size)}
    ELSE UNION {FilesOf(l, size) : l \in Levels}

\* A slip: an index equal to the size passes.
BeyondSize(idx, size) == idx > size
OutOfRange(idx, size) == idx >= size

\* The published size is read, once, and all else follows from it.
ReadSize ==
    /\ reader.stage = "size"
    /\ \/ /\ OutOfRange(reader.idx, published)
          /\ reader' = [reader EXCEPT !.stage = "notfound", !.size = published]
       \/ /\ ~OutOfRange(reader.idx, published)
          /\ \E file \in Wanted(published) :
                reader' = [reader EXCEPT !.stage = "read", !.size = published,
                                         !.level = file.level, !.index = file.index]
       \/ "io" \in Faults /\ Finish("error")
    /\ UNCHANGED storage

\* A slip: the offset is taken in the partial bundle.
OffsetInPartial(idx, size) ==
    IF size % Width = 0 THEN idx % Width ELSE idx % (size % Width)
Offset(idx, size) == idx % Width

\* What a file that was found gives: the entry at the offset, or the tile.
Deliver(file) ==
    LET offset == Offset(reader.idx, reader.size)
    IN  IF reader.ask = "entry" /\ offset >= WidthOf(file)
        THEN Finish("notfound")
        ELSE reader' = [reader EXCEPT !.stage = "delivered", !.width = WidthOf(file),
                                      !.entry = file.index * Width + offset]

SnapshotFile == FileOf(reader.level, reader.index, reader.size)
FullFile == File(reader.level, reader.index, 0)

\* A slip: there is no second try.
NoFallback == FALSE
\* Whatever the error, a partial file has the full one to fall back on.
FallsBack == SnapshotFile.p # 0

\* What a failed first read leads to.
TryAgain(stage, failed) ==
    reader' = [reader EXCEPT !.stage = IF FallsBack THEN "full" ELSE stage, !.failed = failed]

ReadFile ==
    /\ reader.stage = "read"
    /\ \/ SnapshotFile \in files /\ Deliver(SnapshotFile)
       \/ SnapshotFile \notin files /\ TryAgain("notfound", FALSE)
       \/ "io" \in Faults /\ TryAgain("error", TRUE)
    /\ UNCHANGED storage

ReadFullFile ==
    /\ reader.stage = "full"
    /\ \/ FullFile \in files /\ Deliver(FullFile)
       \/ FullFile \notin files /\ Finish("notfound")
       \/ "io" \in Faults /\ Finish("error")
    /\ UNCHANGED storage

Answer ==
    /\ reader.stage \in {"delivered", "notfound", "error"}
    /\ reader' = NoReader
    /\ UNCHANGED storage

Init ==
    /\ sequenced = 0 /\ integrated = 0 /\ published = 0
    /\ files = {}
    /\ reader = NoReader

Next ==
    \/ Sequence \/ Integrate \/ Publish \/ CollectGarbage
    \/ \E what \in {"entry", "proof"}, idx \in 0 .. MaxEntries : Ask(what, idx)
    \/ ReadSize \/ ReadFile \/ ReadFullFile \/ Answer

Spec == Init /\ [][Next]_vars

-----------------------------------------------------------------------------
(* Properties. *)

Reader ==
    [stage : {"idle", "size", "read", "full", "delivered", "notfound", "error"},
     ask : {"entry", "proof"}, idx : Nat, size : Nat, level : AllLevels,
     index : Nat, failed : BOOLEAN, width : Nat, entry : Nat]

\* A file has been chosen.
Reading == reader.stage \in {"read", "full", "delivered"}

\* The state is well formed, and a file is only asked for if the tree whose
\* size was read has it, and has the entry.
TypeOK ==
    /\ sequenced \in 0 .. MaxEntries
    /\ integrated \in 0 .. sequenced
    /\ published \in 0 .. integrated
    /\ reader \in Reader
    /\ Reading => reader.size <= published /\ reader.idx < reader.size
    /\ Reading => reader.index \in IndexesOf(reader.level, reader.size)
    /\ Reading /\ reader.ask = "entry" =>
          reader.level = Entries /\ reader.index = reader.idx \div Width

\* What the published tree holds is found: however the tree grows and whatever
\* partial files are deleted between the reader's steps, an answer "not found"
\* means that the index is beyond the published size it took, unless the disk
\* failed (helpers.go:36-62, service.go:93-116).
PublishedIsFound ==
    reader.stage = "notfound" => reader.idx >= reader.size \/ reader.failed

\* An entry delivered is the one asked for, and a tile holds at least what
\* the tree of the checkpoint in the proof had of it (helpers.go:42-62).
DeliversWhatWasAsked ==
    reader.stage = "delivered" =>
        /\ reader.ask = "entry" => reader.entry = reader.idx
        /\ reader.width >= WidthOf(SnapshotFile)

\* The inductive invariant: the files of the trees that are being made public
\* stay, and the file a reader is after is there, under its name or in full.
Retained ==
    /\ FilesOf(Entries, sequenced) \subseteq files
    /\ \A l \in AllLevels :
          FilesOf(l, integrated) \subseteq files /\ FilesOf(l, published) \subseteq files

Within ==
    /\ reader.stage = "read" => SnapshotFile \in files \/ FullFile \in files
    /\ reader.stage = "full" => FullFile \in files \/ reader.failed

IInv ==
    TypeOK /\ Retained /\ Within /\ PublishedIsFound /\ DeliversWhatWasAsked
=============================================================================
