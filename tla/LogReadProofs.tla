---------------------------- MODULE LogReadProofs ----------------------------
(***************************************************************************)
(* Proofs about LogRead for files of any width, any levels of tiles and    *)
(* logs of any length.                                                     *)
(***************************************************************************)
EXTENDS LogRead, TLAPS

-----------------------------------------------------------------------------
(* Arithmetic of the layout. *)

LEMMA DivMod ==
    ASSUME NEW a \in Nat, NEW n \in Nat \ {0}
    PROVE  /\ a \div n \in Nat
           /\ a % n \in 0 .. n - 1
           /\ a = (n * (a \div n)) + (a % n)
OBVIOUS

LEMMA DivGrows ==
    ASSUME NEW a \in Nat, NEW b \in Nat, NEW n \in Nat \ {0}, a <= b
    PROVE  a \div n <= b \div n
OBVIOUS

LEMMA DivShrinks ==
    ASSUME NEW a \in Nat, NEW n \in Nat \ {0}
    PROVE  a \div n <= a
OBVIOUS

\* Files before the last one begin within the level.
LEMMA DivBelow ==
    ASSUME NEW i \in Nat, NEW a \in Nat, NEW n \in Nat \ {0}, i < a \div n
    PROVE  i * n < a
OBVIOUS

\* An element lies in the file of its quotient, whether that is full or the
\* last one.
LEMMA DivPlace ==
    ASSUME NEW i \in Nat, NEW a \in Nat, NEW n \in Nat \ {0}, i < a
    PROVE  /\ (i \div n) * n <= i
           /\ i \div n <= i
           /\ i \div n < a \div n \/ (i \div n = a \div n /\ i % n < a % n)
<1>1. i = (n * (i \div n)) + (i % n) /\ i % n \in 0 .. n - 1 /\ i \div n \in Nat
  BY DivMod
<1>2. a = (n * (a \div n)) + (a % n) /\ a % n \in 0 .. n - 1 /\ a \div n \in Nat
  BY DivMod
<1>3. i \div n <= a \div n
  BY DivGrows
<1>4. i \div n = a \div n => i % n < a % n
  BY <1>1, <1>2
<1>5. (i \div n) * n <= i /\ i \div n <= i
  BY <1>1
<1> QED
  BY <1>1, <1>2, <1>3, <1>4, <1>5

\* The size of a level grows with the tree.
LEMMA SizeGrows ==
    ASSUME NEW l \in AllLevels, NEW s \in Nat, NEW t \in Nat, s <= t
    PROVE  SizeAt(l, s) \in Nat /\ SizeAt(l, t) \in Nat /\ SizeAt(l, s) <= SizeAt(l, t)
<1>1. CASE l = Entries
  BY <1>1 DEF SizeAt
<1>2. CASE l # Entries
  <2>1. Span[l] \in Nat \ {0}
    BY <1>2, SpanAssumption DEF AllLevels
  <2> QED
    BY <1>2, <2>1, DivMod, DivGrows DEF SizeAt
<1> QED
  BY <1>1, <1>2

\* A file that is full in a tree is one of its files, and stays full.
LEMMA FullStays ==
    ASSUME NEW l \in AllLevels, NEW s \in Nat, NEW t \in Nat, s <= t, t <= MaxEntries,
           NEW i \in Nat, i < SizeAt(l, s) \div Width
    PROVE  /\ i < SizeAt(l, t) \div Width
           /\ File(l, i, 0) \in FilesOf(l, t)
<1>1. /\ SizeAt(l, s) \in Nat /\ SizeAt(l, t) \in Nat
      /\ SizeAt(l, s) <= SizeAt(l, t)
  BY SizeGrows
<1>2. i < SizeAt(l, t) \div Width
  <2>1. SizeAt(l, s) \div Width <= SizeAt(l, t) \div Width
    BY <1>1, DivGrows, WidthAssumption
  <2> QED
    BY <2>1, <1>1, DivMod, WidthAssumption
<1>3. SizeAt(l, t) <= t
  <2>1. CASE l = Entries
    BY <2>1 DEF SizeAt
  <2>2. CASE l # Entries
    <3>1. Span[l] \in Nat \ {0}
      BY <2>2, SpanAssumption DEF AllLevels
    <3>2. t \div Span[l] <= t
      BY <3>1, DivShrinks
    <3> QED
      BY <2>2, <3>2 DEF SizeAt
  <2> QED
    BY <2>1, <2>2
<1>4. i * Width < SizeAt(l, t)
  BY <1>1, <1>2, DivBelow, WidthAssumption
<1>5. i \in IndexesOf(l, t)
  <2>1. i <= i * Width
    BY WidthAssumption
  <2>2. i * Width \in Nat
    BY WidthAssumption
  <2> QED
    BY <1>1, <1>3, <1>4, <2>1, <2>2, MaxEntriesAssumption DEF IndexesOf
<1>6. FileOf(l, i, t) = File(l, i, 0)
  BY <1>2 DEF FileOf, PartialTileSize
<1> QED
  BY <1>2, <1>5, <1>6 DEF FilesOf

\* No file of a tree at least as large as the published one is superseded.
LEMMA LargerTreesStay ==
    ASSUME TypeOK, NEW l \in AllLevels, NEW t \in Nat, published <= t, t <= MaxEntries,
           NEW file \in FilesOf(l, t)
    PROVE  ~Superseded(file)
<1> SUFFICES ASSUME Superseded(file) PROVE FALSE
  OBVIOUS
<1>1. PICK i \in IndexesOf(l, t) : file = FileOf(l, i, t)
  BY DEF FilesOf
<1>2. i \in Nat /\ published \in Nat
  BY <1>1, MaxEntriesAssumption DEF IndexesOf, TypeOK
<1>3. file.level = l /\ file.index = i /\ file.p = PartialTileSize(l, i, t)
  BY <1>1 DEF FileOf, File
<1>4. i < SizeAt(l, published) \div Width
  BY <1>3 DEF Superseded
<1>5. i < SizeAt(l, t) \div Width
  BY <1>2, <1>4, FullStays
<1> QED
  BY <1>3, <1>5 DEF Superseded, PartialTileSize

\* Where the file of a reader is and how wide: the last part says that a
\* bundle holds the entry asked for.
LEMMA FileOfReader ==
    ASSUME TypeOK, Reading
    PROVE  /\ reader.level \in AllLevels /\ reader.index \in Nat
           /\ reader.size \in 0 .. published /\ reader.idx \in Nat
           /\ SnapshotFile \in FilesOf(reader.level, reader.size)
           /\ SnapshotFile.p \in 0 .. Width - 1
           /\ WidthOf(SnapshotFile) \in Nat /\ WidthOf(SnapshotFile) <= Width
           /\ reader.ask = "entry" => Offset(reader.idx, reader.size) < WidthOf(SnapshotFile)
<1>1. /\ reader.level \in AllLevels /\ reader.index \in Nat
      /\ reader.size \in 0 .. published /\ reader.idx \in Nat
      /\ reader.idx < reader.size
      /\ reader.index \in IndexesOf(reader.level, reader.size)
      /\ reader.ask = "entry" => reader.level = Entries /\ reader.index = reader.idx \div Width
  BY DEF TypeOK, Reader
<1>2. published \in Nat /\ reader.size \in Nat
  BY <1>1, MaxEntriesAssumption DEF TypeOK
<1>3. SizeAt(reader.level, reader.size) \in Nat
  BY <1>1, <1>2, SizeGrows
<1>4. SnapshotFile.p = PartialTileSize(reader.level, reader.index, reader.size)
  BY DEF SnapshotFile, FileOf, File
<1>5. SnapshotFile.p \in 0 .. Width - 1
  BY <1>3, <1>4, DivMod, WidthAssumption DEF PartialTileSize
<1>6. WidthOf(SnapshotFile) \in Nat /\ WidthOf(SnapshotFile) <= Width
  BY <1>5, WidthAssumption DEF WidthOf
<1>7. ASSUME reader.ask = "entry" PROVE Offset(reader.idx, reader.size) < WidthOf(SnapshotFile)
  <2>1. SizeAt(reader.level, reader.size) = reader.size /\ reader.index = reader.idx \div Width
    BY <1>1, <1>7 DEF SizeAt
  <2>2. \/ reader.index < reader.size \div Width
        \/ reader.index = reader.size \div Width /\ reader.idx % Width < reader.size % Width
    BY <1>1, <1>2, <2>1, DivPlace, WidthAssumption
  <2>3. reader.idx % Width \in 0 .. Width - 1 /\ reader.size % Width \in 0 .. Width - 1
    BY <1>1, <1>2, DivMod, WidthAssumption
  <2>4. CASE reader.index < reader.size \div Width
    BY <1>4, <2>1, <2>3, <2>4, WidthAssumption DEF PartialTileSize, WidthOf, Offset
  <2>5. CASE reader.index = reader.size \div Width /\ reader.idx % Width < reader.size % Width
    <3>1. SnapshotFile.p = reader.size % Width
      BY <1>2, <1>4, <2>1, <2>5, DivMod, WidthAssumption DEF PartialTileSize
    <3> QED
      BY <3>1, <2>3, <2>5, WidthAssumption DEF WidthOf, Offset
  <2> QED
    BY <2>2, <2>4, <2>5
<1>8. SnapshotFile \in FilesOf(reader.level, reader.size)
  BY <1>1 DEF SnapshotFile, FilesOf
<1> QED
  BY <1>1, <1>5, <1>6, <1>7, <1>8

-----------------------------------------------------------------------------
(* The invariant. *)

LEMMA InitEstablishesIInv == Init => IInv
<1> SUFFICES ASSUME Init PROVE IInv
  OBVIOUS
<1>1. NoReader \in Reader
  BY DEF NoReader, Reader, AllLevels
<1>2. TypeOK
  BY <1>1, MaxEntriesAssumption DEF Init, TypeOK, Reading, NoReader
<1>3. \A l \in AllLevels : FilesOf(l, 0) = {}
  <2> SUFFICES ASSUME NEW l \in AllLevels PROVE IndexesOf(l, 0) = {}
    BY DEF FilesOf
  <2>1. SizeAt(l, 0) = 0
    <3>1. CASE l = Entries
      BY <3>1 DEF SizeAt
    <3>2. CASE l # Entries
      <4>1. Span[l] \in Nat \ {0}
        BY <3>2, SpanAssumption DEF AllLevels
      <4>2. 0 \div Span[l] <= 0 /\ 0 \div Span[l] \in Nat
        BY <4>1, DivShrinks, DivMod
      <4> QED
        BY <3>2, <4>2 DEF SizeAt
    <3> QED
      BY <3>1, <3>2
  <2> QED
    BY <2>1, WidthAssumption, MaxEntriesAssumption DEF IndexesOf
<1>4. Retained
  BY <1>3 DEF Init, Retained, AllLevels
<1>5. Within /\ PublishedIsFound /\ DeliversWhatWasAsked
  BY DEF Init, NoReader, Within, PublishedIsFound, DeliversWhatWasAsked
<1> QED
  BY <1>2, <1>4, <1>5 DEF IInv

\* The log grows, files are added and the reader does nothing.
LEMMA GrowthPreserves ==
    ASSUME IInv, Sequence \/ Integrate \/ Publish
    PROVE  IInv'
<1>1. UNCHANGED reader /\ files \subseteq files' /\ published <= published'
  BY MaxEntriesAssumption DEF Sequence, Integrate, Publish, IInv, TypeOK
<1>2. TypeOK'
  BY <1>1, MaxEntriesAssumption
     DEF Sequence, Integrate, Publish, IInv, TypeOK, Reading, Reader
<1>3. Retained'
  <2>1. CASE Sequence
    BY <2>1 DEF Sequence, IInv, Retained
  <2>2. CASE Integrate
    BY <2>2 DEF Integrate, IInv, Retained, AllLevels
  <2>3. CASE Publish
    BY <2>3 DEF Publish, IInv, Retained
  <2> QED
    BY <2>1, <2>2, <2>3
<1>4. SnapshotFile' = SnapshotFile /\ FullFile' = FullFile
  BY <1>1 DEF SnapshotFile, FullFile
<1>5. Within' /\ PublishedIsFound' /\ DeliversWhatWasAsked'
  BY <1>1, <1>4 DEF IInv, Within, PublishedIsFound, DeliversWhatWasAsked
<1> QED
  BY <1>2, <1>3, <1>5 DEF IInv

\* A partial file is only deleted when the full one has taken its place.
LEMMA GarbagePreserves ==
    ASSUME IInv, CollectGarbage
    PROVE  IInv'
<1>1. PICK gone \in files : Superseded(gone) /\ files' = files \ {gone}
  BY DEF CollectGarbage
<1>2. UNCHANGED <<sequenced, integrated, published, reader>>
  BY DEF CollectGarbage
<1>3. TypeOK /\ TypeOK'
  BY <1>2 DEF IInv, TypeOK, Reading
<1>4. ASSUME NEW l \in AllLevels, NEW t \in Nat, published <= t, t <= MaxEntries,
             FilesOf(l, t) \subseteq files
      PROVE  FilesOf(l, t) \subseteq files'
  BY <1>1, <1>3, <1>4, LargerTreesStay
<1>5. Retained'
  <2>1. /\ sequenced \in Nat /\ integrated \in Nat /\ published \in Nat
        /\ published <= integrated /\ integrated <= sequenced /\ sequenced <= MaxEntries
    BY <1>3, MaxEntriesAssumption DEF TypeOK
  <2>2. Entries \in AllLevels
    BY DEF AllLevels
  <2>3. FilesOf(Entries, sequenced) \subseteq files'
    BY <1>4, <2>1, <2>2 DEF IInv, Retained
  <2>4. ASSUME NEW l \in AllLevels
        PROVE  FilesOf(l, integrated) \subseteq files' /\ FilesOf(l, published) \subseteq files'
    <3>1. FilesOf(l, integrated) \subseteq files /\ FilesOf(l, published) \subseteq files
      BY DEF IInv, Retained
    <3>2. integrated <= MaxEntries /\ published <= MaxEntries /\ published <= published
      BY <2>1, MaxEntriesAssumption
    <3>3. FilesOf(l, integrated) \subseteq files'
      BY <1>4, <2>1, <3>1, <3>2
    <3>4. FilesOf(l, published) \subseteq files'
      BY <1>4, <2>1, <3>1, <3>2
    <3> QED
      BY <3>3, <3>4
  <2> QED
    BY <1>2, <2>3, <2>4 DEF Retained
<1>6. SnapshotFile' = SnapshotFile /\ FullFile' = FullFile
  BY <1>2 DEF SnapshotFile, FullFile
<1>7. FullFile \in files => FullFile \in files'
  BY <1>1 DEF Superseded, FullFile, File
<1>8. Within'
  <2>1. ASSUME reader.stage = "read", SnapshotFile \in files, SnapshotFile \notin files'
        PROVE  FullFile \in files'
    <3>1. gone = SnapshotFile
      BY <1>1, <2>1
    <3>2. gone.level = reader.level /\ gone.index = reader.index
      BY <3>1 DEF SnapshotFile, FileOf, File
    <3>3. reader.level \in AllLevels /\ reader.index \in Nat
      BY <1>3, <2>1, FileOfReader DEF Reading
    <3>4. reader.index < SizeAt(reader.level, published) \div Width
      BY <1>1, <3>2 DEF Superseded
    <3>5. published \in Nat /\ published <= MaxEntries
      BY <1>3, MaxEntriesAssumption DEF TypeOK
    <3>6. FullFile \in FilesOf(reader.level, published)
      BY <3>3, <3>4, <3>5, FullStays DEF FullFile
    <3> QED
      BY <1>7, <3>3, <3>6 DEF IInv, Retained
  <2> QED
    BY <1>2, <1>6, <1>7, <2>1 DEF IInv, Within
<1>9. PublishedIsFound' /\ DeliversWhatWasAsked'
  BY <1>2, <1>6 DEF IInv, PublishedIsFound, DeliversWhatWasAsked
<1> QED
  BY <1>3, <1>5, <1>8, <1>9 DEF IInv

-----------------------------------------------------------------------------
(* The reader's steps. *)

\* A step of the reader leaves what is said of the storage as it is.
LEMMA ReaderStep ==
    ASSUME IInv, UNCHANGED storage
    PROVE  /\ Retained'
           /\ sequenced' \in 0 .. MaxEntries
           /\ integrated' \in 0 .. sequenced'
           /\ published' \in 0 .. integrated'
BY DEF storage, IInv, Retained, TypeOK

\* Steps that end in a stage without a file.
LEMMA RestingStep ==
    ASSUME IInv, UNCHANGED storage, reader' \in Reader,
           reader'.stage \in {"idle", "size", "notfound", "error"},
           reader'.stage = "notfound" => reader'.idx >= reader'.size \/ reader'.failed
    PROVE  IInv'
<1>1. ~Reading'
  BY DEF Reading
<1>2. TypeOK'
  BY <1>1, ReaderStep DEF TypeOK
<1>3. Within' /\ PublishedIsFound' /\ DeliversWhatWasAsked'
  BY DEF Within, PublishedIsFound, DeliversWhatWasAsked
<1> QED
  BY <1>2, <1>3, ReaderStep DEF IInv

\* Delivering from the file of the tree that was read, or from the full one.
LEMMA DeliverStep ==
    ASSUME IInv, Reading, UNCHANGED storage, NEW file,
           file \in {SnapshotFile, FullFile}, Deliver(file)
    PROVE  IInv'
<1>1. TypeOK
  BY DEF IInv
<1>2. /\ reader \in Reader /\ reader.index \in Nat /\ reader.idx \in Nat
      /\ SnapshotFile.p \in 0 .. Width - 1
      /\ WidthOf(SnapshotFile) \in Nat /\ WidthOf(SnapshotFile) <= Width
      /\ reader.ask = "entry" => Offset(reader.idx, reader.size) < WidthOf(SnapshotFile)
  BY <1>1, FileOfReader DEF TypeOK
<1>3. file.index = reader.index
  BY DEF SnapshotFile, FullFile, FileOf, File
<1>4. WidthOf(file) \in Nat /\ WidthOf(file) >= WidthOf(SnapshotFile)
  BY <1>2, WidthAssumption DEF FullFile, File, WidthOf
<1>5. Offset(reader.idx, reader.size) \in 0 .. Width - 1
  BY <1>2, DivMod, WidthAssumption DEF Offset
<1>6. ~(reader.ask = "entry" /\ Offset(reader.idx, reader.size) >= WidthOf(file))
  BY <1>2, <1>4, <1>5, WidthAssumption
<1>7. reader' = [reader EXCEPT !.stage = "delivered", !.width = WidthOf(file),
                   !.entry = reader.index * Width + Offset(reader.idx, reader.size)]
  BY <1>3, <1>6 DEF Deliver
<1>8. reader.index * Width + Offset(reader.idx, reader.size) \in Nat
  BY <1>2, <1>5, WidthAssumption
<1>9. /\ reader' \in Reader /\ reader'.stage = "delivered"
      /\ reader'.width = WidthOf(file)
      /\ reader'.entry = reader.index * Width + Offset(reader.idx, reader.size)
      /\ reader'.ask = reader.ask /\ reader'.idx = reader.idx
      /\ reader'.size = reader.size /\ reader'.level = reader.level
      /\ reader'.index = reader.index
  BY <1>2, <1>4, <1>7, <1>8 DEF Reader
<1>10. published' = published
  BY DEF storage
<1>11. TypeOK'
  BY <1>1, <1>9, <1>10, ReaderStep DEF TypeOK, Reading
<1>12. SnapshotFile' = SnapshotFile
  BY <1>9 DEF SnapshotFile
<1>13. reader.ask = "entry" => reader'.entry = reader.idx
  <2> SUFFICES ASSUME reader.ask = "entry" PROVE reader'.entry = reader.idx
    OBVIOUS
  <2>1. reader.index = reader.idx \div Width
    BY <1>1 DEF TypeOK
  <2>2. reader.idx = (Width * (reader.idx \div Width)) + (reader.idx % Width)
    BY <1>2, DivMod, WidthAssumption
  <2> QED
    BY <1>2, <1>9, <2>1, <2>2, WidthAssumption DEF Offset
<1>14. DeliversWhatWasAsked'
  BY <1>4, <1>9, <1>12, <1>13 DEF DeliversWhatWasAsked
<1>15. Within' /\ PublishedIsFound'
  BY <1>9 DEF Within, PublishedIsFound
<1> QED
  BY <1>11, <1>14, <1>15, ReaderStep DEF IInv

LEMMA AskPreserves ==
    ASSUME IInv, NEW what \in {"entry", "proof"}, NEW idx \in 0 .. MaxEntries, Ask(what, idx)
    PROVE  IInv'
<1>1. NoReader \in Reader
  BY DEF NoReader, Reader, AllLevels
<1>2. reader' = [NoReader EXCEPT !.stage = "size", !.ask = what, !.idx = idx] /\ idx \in Nat
  BY MaxEntriesAssumption DEF Ask
<1>3. reader' \in Reader
  BY <1>1, <1>2 DEF Reader
<1>4. reader'.stage = "size"
  BY <1>2 DEF NoReader
<1> QED
  BY <1>3, <1>4, RestingStep DEF Ask

LEMMA AnswerPreserves ==
    ASSUME IInv, Answer
    PROVE  IInv'
<1>1. reader' \in Reader /\ reader'.stage = "idle"
  BY DEF Answer, NoReader, Reader, AllLevels
<1> QED
  BY <1>1, RestingStep DEF Answer

LEMMA ReadSizePreserves ==
    ASSUME IInv, ReadSize
    PROVE  IInv'
<1>1. /\ TypeOK /\ reader \in Reader /\ reader.stage = "size" /\ UNCHANGED storage
      /\ published \in Nat /\ published <= MaxEntries /\ reader.idx \in Nat
  <2>1. reader \in Reader /\ TypeOK
    BY DEF IInv, TypeOK
  <2>2. reader.idx \in Nat
    BY <2>1 DEF Reader
  <2>3. published \in Nat /\ published <= MaxEntries
    BY <2>1, MaxEntriesAssumption DEF TypeOK
  <2>4. reader.stage = "size" /\ UNCHANGED storage
    BY DEF ReadSize
  <2> QED
    BY <2>1, <2>2, <2>3, <2>4
<1>2. CASE /\ OutOfRange(reader.idx, published)
           /\ reader' = [reader EXCEPT !.stage = "notfound", !.size = published]
  <2>1. /\ reader' \in Reader /\ reader'.stage = "notfound"
        /\ reader'.idx >= reader'.size
    BY <1>1, <1>2 DEF Reader, OutOfRange
  <2> QED
    BY <1>1, <2>1, RestingStep
<1>3. CASE "io" \in Faults /\ Finish("error")
  <2>1. reader' \in Reader /\ reader'.stage = "error"
    BY <1>1, <1>3 DEF Reader, Finish
  <2> QED
    BY <1>1, <2>1, RestingStep
<1>4. ASSUME ~OutOfRange(reader.idx, published),
             NEW file \in Wanted(published),
             reader' = [reader EXCEPT !.stage = "read", !.size = published,
                                      !.level = file.level, !.index = file.index]
      PROVE  IInv'
  <2>1. reader.idx < published
    BY <1>1, <1>4 DEF OutOfRange
  <2>10. PICK l \in AllLevels :
            \E i \in IndexesOf(l, published) :
                /\ file = FileOf(l, i, published)
                /\ reader.ask = "entry" => l = Entries /\ i = reader.idx \div Width
    <3>1. CASE reader.ask = "entry"
      <4>1. file = FileOf(Entries, reader.idx \div Width, published)
        BY <1>4, <3>1 DEF Wanted
      <4>2. /\ reader.idx \div Width \in Nat
            /\ (reader.idx \div Width) * Width <= reader.idx
            /\ reader.idx \div Width <= reader.idx
        BY <1>1, <2>1, DivMod, DivPlace, WidthAssumption
      <4>3. (reader.idx \div Width) * Width \in Nat
        BY <4>2, WidthAssumption
      <4>4. reader.idx \div Width \in IndexesOf(Entries, published)
        BY <1>1, <2>1, <4>2, <4>3, MaxEntriesAssumption DEF IndexesOf, SizeAt
      <4>5. Entries \in AllLevels
        BY DEF AllLevels
      <4> QED
        BY <4>1, <4>4, <4>5
    <3>2. CASE reader.ask # "entry"
      <4>1. PICK l \in Levels : file \in FilesOf(l, published)
        BY <1>4, <3>2 DEF Wanted
      <4>2. l \in AllLevels
        BY DEF AllLevels
      <4> QED
        BY <3>2, <4>1, <4>2 DEF FilesOf
    <3> QED
      BY <3>1, <3>2
  <2>2. PICK i \in IndexesOf(l, published) :
            /\ file = FileOf(l, i, published)
            /\ reader.ask = "entry" => l = Entries /\ i = reader.idx \div Width
    BY <2>10
  <2>3. i \in Nat
    BY MaxEntriesAssumption DEF IndexesOf
  <2>4. /\ reader' \in Reader /\ reader'.stage = "read" /\ reader'.size = published
        /\ reader'.level = l /\ reader'.index = i
        /\ reader'.idx = reader.idx /\ reader'.ask = reader.ask
    BY <1>1, <1>4, <2>2, <2>3 DEF Reader, FileOf, File
  <2>5. published' = published /\ files' = files
    BY <1>1 DEF storage
  <2>6. TypeOK'
    BY <1>1, <2>1, <2>2, <2>4, <2>5, ReaderStep DEF TypeOK, IndexesOf, SizeAt
  <2>7. SnapshotFile' = file
    BY <2>2, <2>4 DEF SnapshotFile
  <2>8. file \in files
    BY <2>2 DEF FilesOf, IInv, Retained
  <2>9. Within' /\ PublishedIsFound' /\ DeliversWhatWasAsked'
    BY <2>4, <2>5, <2>7, <2>8 DEF Within, PublishedIsFound, DeliversWhatWasAsked
  <2> QED
    BY <1>1, <2>6, <2>9, ReaderStep DEF IInv
<1> QED
  BY <1>2, <1>3, <1>4 DEF ReadSize

\* A first read that failed: the full file is tried, or there is none to try.
LEMMA TryAgainStep ==
    ASSUME IInv, reader.stage = "read", UNCHANGED storage,
           NEW stage \in {"notfound", "error"}, NEW failed \in BOOLEAN,
           stage = "notfound" => SnapshotFile \notin files,
           stage = "error" => failed,
           TryAgain(stage, failed)
    PROVE  IInv'
<1>1. TypeOK /\ reader \in Reader /\ Reading
  BY DEF IInv, TypeOK, Reading
<1>2. SnapshotFile \in files \/ FullFile \in files
  BY DEF IInv, Within
<1>3. CASE FallsBack
  <2>1. reader' = [reader EXCEPT !.stage = "full", !.failed = failed]
    BY <1>3 DEF TryAgain
  <2>2. /\ reader' \in Reader /\ reader'.stage = "full" /\ reader'.failed = failed
        /\ reader'.size = reader.size
        /\ reader'.level = reader.level /\ reader'.index = reader.index
        /\ reader'.idx = reader.idx /\ reader'.ask = reader.ask
    BY <1>1, <2>1 DEF Reader
  <2>3. published' = published /\ files' = files
    BY DEF storage
  <2>4. TypeOK'
    BY <1>1, <2>2, <2>3, ReaderStep DEF TypeOK, Reading, IndexesOf, SizeAt
  <2>5. FullFile' = FullFile
    BY <2>2 DEF FullFile
  <2>6. Within'
    BY <1>2, <2>2, <2>3, <2>5 DEF Within
  <2>7. PublishedIsFound' /\ DeliversWhatWasAsked'
    BY <2>2 DEF PublishedIsFound, DeliversWhatWasAsked
  <2> QED
    BY <2>4, <2>6, <2>7, ReaderStep DEF IInv
<1>4. CASE ~FallsBack
  <2>1. SnapshotFile = FullFile
    BY <1>4 DEF FallsBack, SnapshotFile, FullFile, FileOf, File
  <2>2. stage = "error"
    BY <1>2, <2>1
  <2>3. reader' \in Reader /\ reader'.stage = "error"
    BY <1>1, <1>4, <2>2 DEF Reader, TryAgain
  <2> QED
    BY <2>3, RestingStep
<1> QED
  BY <1>3, <1>4

LEMMA ReadFilePreserves ==
    ASSUME IInv, ReadFile
    PROVE  IInv'
<1>1. reader.stage = "read" /\ Reading /\ UNCHANGED storage
  BY DEF ReadFile, Reading
<1>2. CASE SnapshotFile \in files /\ Deliver(SnapshotFile)
  BY <1>1, <1>2, DeliverStep
<1>3. CASE SnapshotFile \notin files /\ TryAgain("notfound", FALSE)
  BY <1>1, <1>3, TryAgainStep
<1>4. CASE "io" \in Faults /\ TryAgain("error", TRUE)
  BY <1>1, <1>4, TryAgainStep
<1> QED
  BY <1>2, <1>3, <1>4 DEF ReadFile

LEMMA ReadFullFilePreserves ==
    ASSUME IInv, ReadFullFile
    PROVE  IInv'
<1>1. /\ reader.stage = "full" /\ Reading /\ UNCHANGED storage
      /\ reader \in Reader
  BY DEF ReadFullFile, Reading, IInv, TypeOK
<1>2. CASE FullFile \in files /\ Deliver(FullFile)
  BY <1>1, <1>2, DeliverStep
<1>3. CASE FullFile \notin files /\ Finish("notfound")
  <2>1. reader.failed
    BY <1>1, <1>3 DEF IInv, Within
  <2>2. reader' \in Reader /\ reader'.stage = "notfound" /\ reader'.failed
    BY <1>1, <1>3, <2>1 DEF Reader, Finish
  <2> QED
    BY <1>1, <2>2, RestingStep
<1>4. CASE "io" \in Faults /\ Finish("error")
  <2>1. reader' \in Reader /\ reader'.stage = "error"
    BY <1>1, <1>4 DEF Reader, Finish
  <2> QED
    BY <1>1, <2>1, RestingStep
<1> QED
  BY <1>2, <1>3, <1>4 DEF ReadFullFile

LEMMA StutterPreserves ==
    ASSUME IInv, UNCHANGED vars
    PROVE  IInv'
<1>1. UNCHANGED storage /\ reader' = reader /\ files' = files /\ published' = published
  BY DEF vars, storage
<1>2. SnapshotFile' = SnapshotFile /\ FullFile' = FullFile
  BY <1>1 DEF SnapshotFile, FullFile
<1>3. TypeOK'
  BY <1>1, ReaderStep DEF IInv, TypeOK, Reading
<1> QED
  BY <1>1, <1>2, <1>3, ReaderStep
     DEF IInv, Within, PublishedIsFound, DeliversWhatWasAsked

-----------------------------------------------------------------------------
(* Theorems. *)

\* The inductive invariant holds in every reachable state.
THEOREM Invariance == Spec => []IInv
<1>1. Init => IInv
  BY InitEstablishesIInv
<1>2. IInv /\ [Next]_vars => IInv'
  <2> SUFFICES ASSUME IInv, [Next]_vars PROVE IInv'
    OBVIOUS
  <2>1. CASE Sequence \/ Integrate \/ Publish
    BY <2>1, GrowthPreserves
  <2>2. CASE CollectGarbage
    BY <2>2, GarbagePreserves
  <2>3. ASSUME NEW what \in {"entry", "proof"}, NEW idx \in 0 .. MaxEntries, Ask(what, idx)
        PROVE  IInv'
    BY <2>3, AskPreserves
  <2>4. CASE ReadSize
    BY <2>4, ReadSizePreserves
  <2>5. CASE ReadFile
    BY <2>5, ReadFilePreserves
  <2>6. CASE ReadFullFile
    BY <2>6, ReadFullFilePreserves
  <2>7. CASE Answer
    BY <2>7, AnswerPreserves
  <2>8. CASE UNCHANGED vars
    BY <2>8, StutterPreserves
  <2> QED
    BY <2>1, <2>2, <2>3, <2>4, <2>5, <2>6, <2>7, <2>8 DEF Next
<1> QED
  BY <1>1, <1>2, PTL DEF Spec

\* The state is well formed: no file is asked for that the tree whose size was
\* read does not have (helpers.go:36-44).
THEOREM TypeCorrect == Spec => []TypeOK
<1>1. IInv => TypeOK
  BY DEF IInv
<1> QED
  BY <1>1, Invariance, PTL

\* An index under the published size the reader took is never answered "not
\* found" unless the disk failed, whatever grows and is deleted meanwhile.
THEOREM NothingPublishedIsMissing == Spec => []PublishedIsFound
<1>1. IInv => PublishedIsFound
  BY DEF IInv
<1> QED
  BY <1>1, Invariance, PTL

\* The entry delivered is the one asked for; a tile covers the proof's tree.
THEOREM DeliveryIsRight == Spec => []DeliversWhatWasAsked
<1>1. IInv => DeliversWhatWasAsked
  BY DEF IInv
<1> QED
  BY <1>1, Invariance, PTL
=============================================================================
