---------------------------- MODULE AnchorProofs ----------------------------
(***************************************************************************)
(* Proofs about the anchor file for any number of forced publications, any *)
(* file length, any failures and restarts.                                 *)
(***************************************************************************)
EXTENDS Anchor, TLAPS

-----------------------------------------------------------------------------
(* What a write does to the file.                                          *)

\* The line of a record, or of a part of it.
LEMMA LinesOfRecords ==
    ASSUME NEW n \in Nat, NEW line, line \in TornRecords(n) \cup {Record(n)}
    PROVE  line \in Line /\ line.fields \in 1 .. 6 /\ line.size = n
<1>1. CASE line = Record(n)
  BY <1>1 DEF Record, Line
<1>2. CASE line = [Record(n) EXCEPT !.ended = FALSE]
  <2>1. line = [fields |-> 6, size |-> n, numbers |-> TRUE, whole |-> TRUE, ended |-> FALSE]
    BY <1>2 DEF Record
  <2> QED
    BY <2>1 DEF Line
<1>3. CASE \E k \in 1 .. 6 : line = TornAt(n, k)
  <2>1. PICK k \in 1 .. 6 : line = TornAt(n, k)
    BY <1>3
  <2> QED
    BY <2>1 DEF TornAt, Line
<1> QED
  BY <1>1, <1>2, <1>3 DEF TornRecords

\* A line has numbers for its fields and its size.
LEMMA LineTypes ==
    ASSUME NEW f \in Seq(Line), NEW i \in 1 .. Len(f)
    PROVE  /\ f[i] \in Line /\ f[i].fields \in Nat /\ f[i].size \in Nat
           /\ f[i].numbers \in BOOLEAN /\ f[i].whole \in BOOLEAN
<1>1. f[i] \in Line
  OBVIOUS
<1> QED
  BY <1>1 DEF Line

\* The two ways a line gets into the file.
LEMMA WrittenForm ==
    ASSUME NEW f \in Seq(Line), NEW line \in Line
    PROVE  \/ /\ f # << >> /\ Len(f) \in 1 .. Len(f)
              /\ Written(f, line) = [f EXCEPT ![Len(f)] = Joined(f[Len(f)], line)]
           \/ Written(f, line) = Append(f, line)
BY DEF Written

LEMMA JoinedIsLine ==
    ASSUME NEW a \in Line, NEW b \in Line, b.fields >= 1
    PROVE  Joined(a, b) \in Line
<1>1. a.fields + b.fields - 1 \in Nat
  BY DEF Line
<1> QED
  BY <1>1 DEF Line, Joined

\* A line not older than the others keeps the file bounded and ordered.
LEMMA WrittenFits ==
    ASSUME NEW f \in Seq(Line), NEW n \in Nat,
           NEW line \in Line, line.fields >= 1, line.size = n,
           Bounded(f, n), Ordered(f)
    PROVE  /\ Written(f, line) \in Seq(Line)
           /\ Bounded(Written(f, line), n)
           /\ Ordered(Written(f, line))
<1> DEFINE g == Written(f, line)
<1>a. \A i \in 1 .. Len(f) : f[i] \in Line /\ f[i].size \in Nat /\ f[i].size <= n
  BY LineTypes DEF Bounded
<1>1. CASE g = Append(f, line)
  <2>1. g \in Seq(Line) /\ Len(g) = Len(f) + 1
    BY <1>1
  <2>2. \A i \in 1 .. Len(g) : g[i] = IF i = Len(f) + 1 THEN line ELSE f[i]
    BY <1>1
  <2>3. Bounded(g, n)
    BY <2>1, <2>2, <1>a DEF Bounded
  <2>4. Ordered(g)
    <3> SUFFICES ASSUME NEW i \in 1 .. Len(g), NEW j \in 1 .. Len(g),
                        i < j, g[i].whole, g[j].whole
                 PROVE  g[i].size <= g[j].size
      BY DEF Ordered
    <3>1. i \in 1 .. Len(f) /\ g[i] = f[i]
      BY <2>1, <2>2
    <3>2. CASE j = Len(f) + 1
      BY <2>2, <3>1, <3>2, <1>a
    <3>3. CASE j # Len(f) + 1
      <4>1. j \in 1 .. Len(f) /\ g[j] = f[j]
        BY <2>1, <2>2, <3>3
      <4> QED
        BY <3>1, <4>1 DEF Ordered
    <3> QED
      BY <3>2, <3>3
  <2> QED
    BY <2>1, <2>3, <2>4
<1>2. CASE /\ f # << >> /\ Len(f) \in 1 .. Len(f)
           /\ g = [f EXCEPT ![Len(f)] = Joined(f[Len(f)], line)]
  <2> DEFINE last == Joined(f[Len(f)], line)
  <2>0. last \in Line
    BY <1>2, <1>a, JoinedIsLine
  <2>1. g \in Seq(Line) /\ Len(g) = Len(f)
    BY <1>2, <2>0
  <2>2. \A i \in 1 .. Len(g) : g[i] = IF i = Len(f) THEN last ELSE f[i]
    BY <1>2, <2>1
  <2>3. last.size <= n /\ (last.whole => last.size = n)
    <3>1. /\ last.size = IF f[Len(f)].fields = 1 THEN line.size ELSE f[Len(f)].size
          /\ last.whole => f[Len(f)].fields = 1
      BY DEF Joined
    <3>2. f[Len(f)].size \in Nat /\ f[Len(f)].size <= n
      BY <1>2, <1>a
    <3> HIDE DEF last
    <3> QED
      BY <3>1, <3>2
  <2>4. Bounded(g, n)
    BY <2>1, <2>2, <2>3, <1>a DEF Bounded
  <2>5. Ordered(g)
    BY <2>0, <2>1, <2>2, <2>3, <1>a DEF Ordered
  <2> QED
    BY <2>1, <2>4, <2>5
<1> QED
  BY <1>1, <1>2, WrittenForm

\* A torn line never comes to pass for an older record than the last one.
LEMMA WrittenDecodes ==
    ASSUME NEW f \in Seq(Line), NEW n \in Nat,
           NEW line \in Line, line.fields \in 1 .. 6, line.size = n,
           NEW last \in Nat \cup {None}, AtMost(last, n), Decodable(f, last)
    PROVE  Decodable(Written(f, line), last)
<1> DEFINE g == Written(f, line)
<1>a. \A i \in 1 .. Len(f) : f[i] \in Line /\ f[i].fields \in Nat /\ f[i].size \in Nat
  BY LineTypes
<1>1. CASE g = Append(f, line)
  <2>1. Len(g) = Len(f) + 1 /\ g # << >> /\ g[Len(g)] = line
    BY <1>1
  <2>2. \A i \in 1 .. Len(g) : g[i] = IF i = Len(f) + 1 THEN line ELSE f[i]
    BY <1>1
  <2>3. \A i \in 1 .. Len(g) : g[i].fields >= 1
    BY <2>1, <2>2 DEF Decodable
  <2> QED
    BY <2>1, <2>3 DEF Decodable, AtMost
<1>2. CASE /\ f # << >> /\ Len(f) \in 1 .. Len(f)
           /\ g = [f EXCEPT ![Len(f)] = Joined(f[Len(f)], line)]
  <2> DEFINE a == f[Len(f)]
  <2>1. Len(g) = Len(f) /\ g # << >>
    BY <1>2
  <2>2. \A i \in 1 .. Len(g) : g[i] = IF i = Len(f) THEN Joined(a, line) ELSE f[i]
    BY <1>2, <2>1
  <2>3. /\ Joined(a, line).fields = a.fields + line.fields - 1
        /\ Joined(a, line).size = IF a.fields = 1 THEN n ELSE a.size
    BY DEF Joined
  <2>4. a.fields \in Nat /\ a.fields >= 1
    BY <1>2, <1>a DEF Decodable
  <2>5. \A i \in 1 .. Len(g) : g[i].fields >= 1
    BY <2>1, <2>2, <2>3, <2>4 DEF Decodable
  <2>6. ASSUME last # None, g[Len(g)].fields <= 6
        PROVE  g[Len(g)].size >= last
    <3>1. g[Len(g)] = Joined(a, line)
      BY <1>2, <2>1, <2>2
    <3>2. a.fields <= 6
      BY <2>3, <2>4, <2>6, <3>1
    <3> QED
      BY <2>3, <2>6, <3>1, <3>2 DEF Decodable, AtMost
  <2> QED
    BY <2>1, <2>5, <2>6 DEF Decodable
<1> QED
  BY <1>1, <1>2, WrittenForm

\* A whole record is the last one, or cannot be decoded.
LEMMA RecordDecodes ==
    ASSUME NEW f \in Seq(Line), NEW n \in Nat,
           NEW last \in Nat \cup {None}, AtMost(last, n), Decodable(f, last)
    PROVE  Decodable(Written(f, Record(n)), n)
<1> DEFINE line == Record(n)
           g == Written(f, line)
<1>1. line \in Line /\ line.fields = 6 /\ line.size = n
  BY DEF Record, Line
<1>2. Decodable(g, last)
  BY <1>1, WrittenDecodes
<1>3. g # << >> /\ (g[Len(g)].fields <= 6 => g[Len(g)].size >= n)
  <2>1. CASE g = Append(f, line)
    <3>1. Len(g) = Len(f) + 1 /\ g # << >> /\ g[Len(g)] = line
      BY <1>1, <2>1
    <3> QED
      BY <1>1, <3>1
  <2>2. CASE /\ f # << >> /\ Len(f) \in 1 .. Len(f)
             /\ g = [f EXCEPT ![Len(f)] = Joined(f[Len(f)], line)]
    <3> DEFINE a == f[Len(f)]
    <3>1. g # << >> /\ g[Len(g)] = Joined(a, line)
      BY <2>2
    <3>2. /\ Joined(a, line).fields = a.fields + 5
          /\ Joined(a, line).size = IF a.fields = 1 THEN n ELSE a.size
      <4>1. a.fields \in Nat
        BY <2>2, LineTypes
      <4> QED
        BY <4>1 DEF Joined, Record
    <3>3. a.fields \in Nat /\ a.fields >= 1
      BY <2>2, LineTypes DEF Decodable
    <3> QED
      BY <3>1, <3>2, <3>3
  <2> QED
    BY <1>1, <2>1, <2>2, WrittenForm
<1> QED
  BY <1>2, <1>3 DEF Decodable

-----------------------------------------------------------------------------
(* What the mutex does. *)

LEMMA OneInside ==
    ASSUME TypeOK, NEW c \in Callers, pc[c] # "idle"
    PROVE  mu = c /\ \A d \in Callers : d # c => pc[d] = "idle"
BY DEF TypeOK

\* A return leaves nobody inside.
LEMMA UnlockEmpties ==
    ASSUME TypeOK, NEW c \in Callers, pc[c] # "idle", Unlock(c)
    PROVE  /\ \A d \in Callers : pc'[d] = "idle"
           /\ mu' = None /\ None \notin Callers
           /\ pc' \in [Callers -> {"idle", "read", "publish", "writing", "published"}]
           /\ cp' \in [Callers -> Nat \cup {None}]
BY OneInside, TickerIsNoForcer DEF Unlock, TypeOK, Callers

LEMMA NobodyInside ==
    ASSUME \A d \in Callers : pc'[d] = "idle"
    PROVE  \A d \in Callers : Inside(d)'
BY DEF Inside

LEMMA InitEstablishesIInv == Init => IInv
<1> SUFFICES ASSUME Init PROVE IInv
  OBVIOUS
<1>1. TypeOK
  <2>1. None \notin Callers
    BY TickerIsNoForcer DEF Callers
  <2> QED
    BY <2>1, AnchorBounds DEF Init, TypeOK, NoRequest, LatestAnswer
<1>2. Bounded(file, size) /\ Ordered(file) /\ Decodable(file, recorded)
  BY DEF Init, Bounded, Ordered, Decodable
<1>3. (\A c \in Callers : Inside(c)) /\ Remembered /\ FloorHolds /\ LatestIsFresh
  BY DEF Init, Inside, Remembered, FloorHolds, LatestIsFresh, NoRequest
<1> QED
  BY <1>1, <1>2, <1>3 DEF Init, IInv, AtMost

-----------------------------------------------------------------------------
(* One lemma per action. *)

LEMMA GrowCheckpointPreserves ==
    ASSUME IInv, GrowCheckpoint
    PROVE  IInv'
<1> USE DEF IInv
<1>1. /\ size' = size + 1 /\ size \in Nat /\ size' \in 0 .. MaxSize
      /\ UNCHANGED <<file, lastHash, mu, pc, cp, before, reader, up, session,
                     recorded, failures>>
  BY AnchorBounds DEF GrowCheckpoint, workerVars, history, TypeOK
<1>2. TypeOK'
  BY <1>1 DEF TypeOK
<1>3. Bounded(file, size)'
  BY <1>1, LineTypes DEF Bounded, TypeOK
<1>4. Ordered(file)' /\ Decodable(file, recorded)' /\ Remembered' /\ FloorHolds'
  BY <1>1 DEF Ordered, Decodable, Remembered, FloorHolds
<1>5. AtMost(lastHash, size)' /\ AtMost(recorded, size)'
  BY <1>1 DEF AtMost, TypeOK
<1>6. ASSUME NEW c \in Callers PROVE Inside(c)'
  <2>1. Inside(c)
    OBVIOUS
  <2>2. cp[c] \in 0 .. size => cp'[c] \in 0 .. size'
    BY <1>1
  <2> QED
    BY <1>1, <2>1, <2>2 DEF Inside, Base, Bounded, Ordered, Decodable, AtMost
<1>7. LatestIsFresh'
  BY <1>1 DEF LatestIsFresh, TypeOK
<1> QED
  BY <1>2, <1>3, <1>4, <1>5, <1>6, <1>7

LEMMA LockPreserves ==
    ASSUME IInv, NEW c \in Callers, Lock(c)
    PROVE  IInv'
<1> USE DEF IInv
<1>1. /\ pc[c] = "idle" /\ mu = None /\ mu' = c /\ up
      /\ pc' = [pc EXCEPT ![c] = "read"]
      /\ UNCHANGED <<size, file, lastHash, cp, before, reader, up, session,
                     recorded, failures>>
  BY DEF Lock, MutexFree, history
<1>2. \A d \in Callers : pc[d] = "idle"
  BY <1>1, TickerIsNoForcer DEF TypeOK, Callers
<1>3. TypeOK'
  BY <1>1, <1>2 DEF TypeOK
<1>4. \A d \in Callers : pc'[d] \in {"idle", "read"}
  BY <1>1, <1>2 DEF TypeOK
<1>5. \A d \in Callers : Inside(d)'
  BY <1>4 DEF Inside
<1>6. Remembered'
  BY <1>1, <1>2 DEF Remembered
<1>7. (Bounded(file, size) /\ Ordered(file) /\ Decodable(file, recorded))'
  BY <1>1 DEF Bounded, Ordered, Decodable
<1>8. (AtMost(lastHash, size) /\ AtMost(recorded, size) /\ FloorHolds /\ LatestIsFresh)'
  BY <1>1 DEF AtMost, FloorHolds, LatestIsFresh
<1> QED
  BY <1>3, <1>5, <1>6, <1>7, <1>8

LEMMA ReadCheckpointPreserves ==
    ASSUME IInv, NEW c \in Callers, ReadCheckpoint(c)
    PROVE  IInv'
<1> USE DEF IInv
<1>1. /\ pc[c] = "read" /\ ~NotNew(c)
      /\ cp' = [cp EXCEPT ![c] = size] /\ pc' = [pc EXCEPT ![c] = "publish"]
      /\ UNCHANGED <<size, file, lastHash, mu, before, reader, up, session,
                     recorded, failures>>
  BY DEF ReadCheckpoint, history
<1>2. \A d \in Callers : d # c => pc[d] = "idle"
  BY <1>1, OneInside
<1>3. TypeOK'
  BY <1>1, AnchorBounds DEF TypeOK
<1>4. \A d \in Callers : pc'[d] = IF d = c THEN "publish" ELSE "idle"
  BY <1>1, <1>2 DEF TypeOK
<1>5. cp'[c] = size /\ size \in Nat
  BY <1>1, AnchorBounds DEF TypeOK
<1>6. (Bounded(file, size) /\ Ordered(file) /\ Decodable(file, recorded))'
  BY <1>1 DEF Bounded, Ordered, Decodable
<1>7. (AtMost(lastHash, size) /\ AtMost(recorded, size) /\ FloorHolds /\ LatestIsFresh)'
  BY <1>1 DEF AtMost, FloorHolds, LatestIsFresh
<1>8. Inside(c)'
  <2>1. Base(c)' = file'
    BY <1>4 DEF Base
  <2>2. c = Ticker => cp'[c] # lastHash'
    BY <1>1, <1>5 DEF NotNew
  <2> QED
    BY <1>1, <1>4, <1>5, <1>6, <1>7, <2>1, <2>2 DEF Inside
<1>9. \A d \in Callers : Inside(d)'
  BY <1>4, <1>8 DEF Inside
<1>10. Remembered'
  BY <1>1, <1>2, <1>4 DEF Remembered
<1> QED
  BY <1>3, <1>6, <1>7, <1>9, <1>10

\* A return that publishes nothing.
LEMMA GiveUpPreserves ==
    ASSUME IInv, NEW c \in Callers, pc[c] \in {"read", "publish", "writing"},
           Unlock(c), failures' \in Nat, before' \in Seq(Line),
           UNCHANGED <<size, file, lastHash, reader, up, session, recorded>>
    PROVE  IInv'
<1> USE DEF IInv
<1>1. /\ \A d \in Callers : pc'[d] = "idle"
      /\ mu' = None /\ None \notin Callers
      /\ pc' \in [Callers -> {"idle", "read", "publish", "writing", "published"}]
      /\ cp' \in [Callers -> Nat \cup {None}]
  BY UnlockEmpties
<1>2. TypeOK'
  BY <1>1 DEF TypeOK
<1>3. \A d \in Callers : Inside(d)'
  BY <1>1, NobodyInside
<1>4. Remembered'
  BY OneInside DEF Remembered
<1>5. (Bounded(file, size) /\ Ordered(file) /\ Decodable(file, recorded))'
  BY DEF Bounded, Ordered, Decodable
<1>6. (AtMost(lastHash, size) /\ AtMost(recorded, size) /\ FloorHolds /\ LatestIsFresh)'
  BY DEF AtMost, FloorHolds, LatestIsFresh
<1> QED
  BY <1>2, <1>3, <1>4, <1>5, <1>6

LEMMA WritePartPreserves ==
    ASSUME IInv, NEW c \in Callers, WritePart(c)
    PROVE  IInv'
<1> USE DEF IInv
<1>1. /\ pc[c] = "publish" /\ before' = file
      /\ pc' = [pc EXCEPT ![c] = "writing"]
      /\ UNCHANGED <<size, lastHash, mu, cp, reader, up, session, recorded, failures>>
  BY DEF WritePart, history
<1>2. PICK line \in TornRecords(cp[c]) : file' = Written(file, line)
  BY DEF WritePart
<1>3. /\ cp[c] \in 0 .. size /\ AtMost(lastHash, cp[c]) /\ AtMost(recorded, cp[c])
      /\ c = Ticker => cp[c] # lastHash
      /\ Bounded(file, cp[c]) /\ Ordered(file) /\ Decodable(file, recorded)
  BY <1>1 DEF Inside, Base
<1>4. line \in Line /\ line.fields \in 1 .. 6 /\ line.size = cp[c]
  BY <1>2, <1>3, LinesOfRecords
<1>5. file' \in Seq(Line) /\ Bounded(file', cp[c]) /\ Ordered(file')
  BY <1>2, <1>3, <1>4, WrittenFits DEF TypeOK
<1>6. Decodable(file', recorded)
  BY <1>2, <1>3, <1>4, WrittenDecodes DEF TypeOK
<1>7. \A d \in Callers : d # c => pc[d] = "idle"
  BY <1>1, OneInside
<1>8. TypeOK'
  BY <1>1, <1>5 DEF TypeOK
<1>9. \A d \in Callers : pc'[d] = IF d = c THEN "writing" ELSE "idle"
  BY <1>1, <1>7 DEF TypeOK
<1>10. Bounded(file', size)
  BY <1>3, <1>5, LineTypes, AnchorBounds DEF Bounded, TypeOK
<1>11. \A d \in Callers : Inside(d)'
  <2>1. Base(c)' = file
    BY <1>1, <1>9 DEF Base
  <2>2. Inside(c)'
    BY <1>1, <1>3, <1>9, <2>1 DEF Inside, Bounded, Ordered, Decodable, AtMost
  <2> QED
    BY <1>9, <2>2 DEF Inside
<1>12. Remembered'
  BY <1>1, <1>7 DEF Remembered
<1>13. (Bounded(file, size) /\ Ordered(file) /\ Decodable(file, recorded))'
  BY <1>1, <1>5, <1>6, <1>10 DEF Bounded, Ordered, Decodable
<1>14. (AtMost(lastHash, size) /\ AtMost(recorded, size) /\ FloorHolds /\ LatestIsFresh)'
  BY <1>1 DEF AtMost, FloorHolds, LatestIsFresh
<1> QED
  BY <1>8, <1>11, <1>12, <1>13, <1>14

LEMMA PublishCheckpointPreserves ==
    ASSUME IInv, NEW c \in Callers, PublishCheckpoint(c)
    PROVE  IInv'
<1> USE DEF IInv
<1> DEFINE line == Record(cp[c])
<1>1. /\ pc[c] \in {"publish", "writing"} /\ file' = Written(Base(c), line)
      /\ before' = << >> /\ pc' = [pc EXCEPT ![c] = "published"]
      /\ session' = session \cup {cp[c]} /\ recorded' = cp[c]
      /\ UNCHANGED <<size, lastHash, mu, cp, reader, up, failures>>
  BY DEF PublishCheckpoint, Base
<1>2. /\ cp[c] \in 0 .. size /\ AtMost(lastHash, cp[c]) /\ AtMost(recorded, cp[c])
      /\ Bounded(Base(c), cp[c]) /\ Ordered(Base(c)) /\ Decodable(Base(c), recorded)
  BY <1>1 DEF Inside
<1>3. Base(c) \in Seq(Line) /\ cp[c] \in Nat
  BY <1>2 DEF Base, TypeOK
<1>4. line \in Line /\ line.fields = 6 /\ line.size = cp[c]
  BY <1>3 DEF Record, Line
<1>5. file' \in Seq(Line) /\ Bounded(file', cp[c]) /\ Ordered(file')
  BY <1>1, <1>2, <1>3, <1>4, WrittenFits
<1>6. Decodable(file', recorded')
  BY <1>1, <1>2, <1>3, RecordDecodes DEF TypeOK
<1>7. \A d \in Callers : d # c => pc[d] = "idle"
  BY <1>1, OneInside
<1>8. TypeOK'
  <2>1. /\ << >> \in Seq(Line) /\ session' \subseteq Nat
        /\ recorded' \in Nat \cup {None}
    <3>1. << >> \in Seq(Line)
      OBVIOUS
    <3>2. session \subseteq Nat
      BY DEF TypeOK
    <3> HIDE DEF line
    <3> QED
      BY <1>1, <1>3, <3>1, <3>2
  <2>2. /\ pc' \in [Callers -> {"idle", "read", "publish", "writing", "published"}]
        /\ \A d \in Callers : pc'[d] # "idle" <=> mu' = d
    BY <1>1 DEF TypeOK
  <2> HIDE DEF line
  <2> QED
    BY <1>1, <1>5, <2>1, <2>2 DEF TypeOK
<1>9. \A d \in Callers : pc'[d] = IF d = c THEN "published" ELSE "idle"
  BY <1>1, <1>7 DEF TypeOK
<1>10. \A n \in session' : n <= cp[c]
  <2>1. \A n \in session : n \in Nat /\ lastHash \in Nat /\ n <= lastHash
    BY <1>1, <1>7 DEF Remembered, TypeOK
  <2> QED
    BY <1>1, <1>2, <1>3, <2>1, AnchorNone DEF AtMost
<1>11. \A d \in Callers : Inside(d)'
  BY <1>1, <1>2, <1>9, <1>10 DEF Inside
<1>12. Remembered'
  BY <1>9 DEF Remembered
<1>13. Bounded(file', size)
  BY <1>2, <1>5, LineTypes, AnchorBounds DEF Bounded, TypeOK
<1>14. (Bounded(file, size) /\ Ordered(file) /\ Decodable(file, recorded))'
  BY <1>1, <1>5, <1>6, <1>13 DEF Bounded, Ordered, Decodable
<1>15. (AtMost(lastHash, size) /\ AtMost(recorded, size) /\ LatestIsFresh)'
  BY <1>1, <1>2 DEF AtMost, LatestIsFresh
<1>16. FloorHolds'
  BY <1>1, <1>2, AnchorNone DEF FloorHolds, AtMost, TypeOK
<1> QED
  BY <1>8, <1>11, <1>12, <1>14, <1>15, <1>16

LEMMA RememberHashPreserves ==
    ASSUME IInv, NEW c \in Callers, RememberHash(c)
    PROVE  IInv'
<1> USE DEF IInv
<1>1. /\ pc[c] = "published" /\ lastHash' = cp[c] /\ Unlock(c)
      /\ UNCHANGED <<size, file, before, reader, up, session, recorded, failures>>
  BY DEF RememberHash, NewHash, history
<1>2. cp[c] \in 0 .. size /\ cp[c] \in Nat /\ \A n \in session : n <= cp[c]
  BY <1>1 DEF Inside
<1>3. /\ \A d \in Callers : pc'[d] = "idle"
      /\ mu' = None /\ None \notin Callers
      /\ pc' \in [Callers -> {"idle", "read", "publish", "writing", "published"}]
      /\ cp' \in [Callers -> Nat \cup {None}]
  BY <1>1, UnlockEmpties
<1>4. TypeOK'
  BY <1>1, <1>2, <1>3 DEF TypeOK
<1>5. \A d \in Callers : Inside(d)'
  BY <1>3, NobodyInside
<1>6. Remembered'
  BY <1>1, <1>2, AnchorNone DEF Remembered
<1>7. (Bounded(file, size) /\ Ordered(file) /\ Decodable(file, recorded))'
  BY <1>1 DEF Bounded, Ordered, Decodable
<1>8. (AtMost(lastHash, size) /\ AtMost(recorded, size) /\ FloorHolds /\ LatestIsFresh)'
  BY <1>1, <1>2 DEF AtMost, FloorHolds, LatestIsFresh
<1> QED
  BY <1>4, <1>5, <1>6, <1>7, <1>8

LEMMA AnswerLatestPreserves ==
    ASSUME IInv, AnswerLatest
    PROVE  IInv'
<1> USE DEF IInv
<1> DEFINE answer == LatestCheckpoint(file)
<1>1. /\ reader.asked
      /\ reader' = [reader EXCEPT !.asked = FALSE, !.answer = answer]
      /\ UNCHANGED <<size, file, lastHash, mu, pc, cp, before, up, session,
                     recorded, failures>>
  BY DEF AnswerLatest, workerVars, history
<1>2. /\ reader \in [asked : BOOLEAN, floor : Nat \cup {None}, answer : LatestAnswer]
      /\ file \in Seq(Line) /\ size \in Nat /\ recorded \in Nat \cup {None}
  BY AnchorBounds DEF TypeOK
<1>3. \/ file = << >> /\ answer = NothingPublished
      \/ file # << >> /\ answer = Undecodable
      \/ /\ file # << >> /\ file[Len(file)].fields = 6
         /\ answer = [size |-> file[Len(file)].size, whole |-> file[Len(file)].whole,
                      block |-> Len(file)]
  BY DEF LatestCheckpoint
<1>4. file # << >> => Len(file) \in 1 .. Len(file)
  BY <1>2
<1>5. file # << >> => /\ file[Len(file)].size \in Nat
                      /\ file[Len(file)].whole \in BOOLEAN
  BY <1>2, <1>4, LineTypes
<1>6. answer \in LatestAnswer
  <2>1. Len(file) \in Nat
    BY <1>2
  <2> QED
    BY <1>3, <1>5, <2>1 DEF LatestAnswer
<1>7. reader' \in [asked : BOOLEAN, floor : Nat \cup {None}, answer : LatestAnswer]
      /\ reader'.floor = reader.floor /\ reader'.answer = answer /\ ~reader'.asked
  BY <1>1, <1>2, <1>6
<1>8. TypeOK'
  BY <1>1, <1>7 DEF TypeOK
<1>9. LatestIsFresh'
  <2> SUFFICES ASSUME reader.floor # None
               PROVE  /\ answer # NothingPublished
                      /\ "size" \in DOMAIN answer => answer.size \in reader.floor .. size
    BY <1>1, <1>7 DEF LatestIsFresh
  <2>1. recorded # None /\ reader.floor <= recorded /\ reader.floor \in Nat
    BY <1>1, <1>2 DEF FloorHolds
  <2>2. /\ file # << >>
        /\ file[Len(file)].fields <= 6 => file[Len(file)].size >= recorded
    BY <2>1 DEF Decodable
  <2>3. file[Len(file)].size <= size
    BY <1>4, <2>2 DEF Bounded
  <2>4. CASE answer = Undecodable
    <3> HIDE DEF answer
    <3>1. NothingPublished.err = "no published checkpoint"
      BY DEF NothingPublished
    <3>2. Undecodable.err = "decode anchor record" /\ DOMAIN Undecodable = {"err"}
      BY DEF Undecodable
    <3> QED
      BY <2>4, <3>1, <3>2
  <2>5. CASE /\ file[Len(file)].fields = 6
             /\ answer = [size |-> file[Len(file)].size,
                          whole |-> file[Len(file)].whole, block |-> Len(file)]
    <3> HIDE DEF answer
    <3>1. answer.size = file[Len(file)].size /\ "size" \in DOMAIN answer
      BY <2>5
    <3>2. answer # NothingPublished
      <4>1. DOMAIN NothingPublished = {"err"}
        BY DEF NothingPublished
      <4> QED
        BY <3>1, <4>1
    <3> QED
      BY <1>2, <1>5, <2>1, <2>2, <2>3, <2>5, <3>1, <3>2
  <2> QED
    BY <1>3, <2>2, <2>4, <2>5
<1>10. (Bounded(file, size) /\ Ordered(file) /\ Decodable(file, recorded))'
  BY <1>1 DEF Bounded, Ordered, Decodable
<1>11. (AtMost(lastHash, size) /\ AtMost(recorded, size) /\ Remembered)'
  BY <1>1 DEF AtMost, Remembered
<1>12. FloorHolds'
  BY <1>7 DEF FloorHolds
<1>13. \A c \in Callers : Inside(c)'
  BY <1>1 DEF Inside, Base, Bounded, Ordered, Decodable, AtMost
<1> QED
  BY <1>8, <1>9, <1>10, <1>11, <1>12, <1>13

LEMMA AskLatestPreserves ==
    ASSUME IInv, AskLatest
    PROVE  IInv'
<1> USE DEF IInv
<1>1. /\ reader' = [asked |-> TRUE, floor |-> recorded, answer |-> None]
      /\ UNCHANGED <<size, file, lastHash, mu, pc, cp, before, up, session,
                     recorded, failures>>
  BY DEF AskLatest, workerVars, history
<1>2. recorded \in Nat \cup {None}
  BY DEF TypeOK
<1>3. TypeOK'
  BY <1>1, <1>2 DEF TypeOK, LatestAnswer
<1>4. FloorHolds' /\ LatestIsFresh'
  BY <1>1, <1>2, AnchorNone DEF FloorHolds, LatestIsFresh
<1>5. (Bounded(file, size) /\ Ordered(file) /\ Decodable(file, recorded))'
  BY <1>1 DEF Bounded, Ordered, Decodable
<1>6. (AtMost(lastHash, size) /\ AtMost(recorded, size) /\ Remembered)'
  BY <1>1 DEF AtMost, Remembered
<1>7. \A c \in Callers : Inside(c)'
  BY <1>1 DEF Inside, Base, Bounded, Ordered, Decodable, AtMost
<1> QED
  BY <1>3, <1>4, <1>5, <1>6, <1>7

LEMMA CrashPreserves == IInv /\ Crash => IInv'
<1> SUFFICES ASSUME IInv, Crash PROVE IInv'
  OBVIOUS
<1> USE DEF IInv
<1>1. /\ lastHash' = None /\ mu' = None /\ before' = << >> /\ reader' = NoRequest
      /\ pc' = [c \in Callers |-> "idle"] /\ cp' = [c \in Callers |-> None]
      /\ session' = {} /\ up' = FALSE /\ failures' = failures + 1
      /\ UNCHANGED <<size, file, recorded>>
  BY DEF Crash, CountFailure
<1>2. TypeOK'
  <2>1. None \notin Callers
    BY TickerIsNoForcer DEF Callers
  <2>2. << >> \in Seq(Line)
    OBVIOUS
  <2>3. NoRequest \in [asked : BOOLEAN, floor : Nat \cup {None}, answer : LatestAnswer]
    BY DEF NoRequest, LatestAnswer
  <2>4. /\ pc' \in [Callers -> {"idle", "read", "publish", "writing", "published"}]
        /\ cp' \in [Callers -> Nat \cup {None}]
        /\ \A c \in Callers : pc'[c] # "idle" <=> mu' = c
    BY <1>1, <2>1
  <2>5. /\ size' \in 0 .. MaxSize /\ file' \in Seq(Line)
        /\ recorded' \in Nat \cup {None} /\ failures' \in Nat
    BY <1>1 DEF TypeOK
  <2> QED
    BY <1>1, <2>2, <2>3, <2>4, <2>5 DEF TypeOK
<1>3. \A c \in Callers : Inside(c)'
  BY <1>1, NobodyInside
<1>4. Remembered' /\ FloorHolds' /\ LatestIsFresh'
  BY <1>1 DEF Remembered, FloorHolds, LatestIsFresh, NoRequest
<1>5. (Bounded(file, size) /\ Ordered(file) /\ Decodable(file, recorded))'
  BY <1>1 DEF Bounded, Ordered, Decodable
<1>6. (AtMost(lastHash, size) /\ AtMost(recorded, size))'
  BY <1>1 DEF AtMost
<1> QED
  BY <1>2, <1>3, <1>4, <1>5, <1>6

\* A restart, or no step at all.
LEMMA RestartPreserves ==
    ASSUME IInv, UNCHANGED <<size, file, lastHash, mu, pc, cp, before, reader, session,
                             recorded, failures>>,
           up' \in BOOLEAN, up \/ mu = None, ~up' => ~up
    PROVE  IInv'
<1> USE DEF IInv
<1>1. TypeOK'
  BY DEF TypeOK
<1>2. (Bounded(file, size) /\ Ordered(file) /\ Decodable(file, recorded))'
  BY DEF Bounded, Ordered, Decodable
<1>3. (AtMost(lastHash, size) /\ AtMost(recorded, size) /\ Remembered)'
  BY DEF AtMost, Remembered
<1>4. \A c \in Callers : Inside(c)'
  BY DEF Inside, Base, Bounded, Ordered, Decodable, AtMost
<1>5. FloorHolds' /\ LatestIsFresh'
  BY DEF FloorHolds, LatestIsFresh
<1> QED
  BY <1>1, <1>2, <1>3, <1>4, <1>5

-----------------------------------------------------------------------------
(* The theorems. *)

LEMMA StepPreserves ==
    ASSUME IInv, NEW c \in Callers, Step(c)
    PROVE  IInv'
<1>1. CASE ReadCheckpoint(c)
  BY <1>1, ReadCheckpointPreserves
<1>2. CASE SkipOldCheckpoint(c)
  BY <1>2, GiveUpPreserves DEF SkipOldCheckpoint, history, IInv, TypeOK
<1>3. CASE WritePart(c)
  BY <1>3, WritePartPreserves
<1>4. CASE PublishCheckpoint(c)
  BY <1>4, PublishCheckpointPreserves
<1>5. CASE RememberHash(c)
  BY <1>5, RememberHashPreserves
<1>6. CASE ReadFails(c)
  BY <1>6, GiveUpPreserves DEF ReadFails, CountFailure, IInv, TypeOK
<1>7. CASE PublishFails(c)
  <2>1. << >> \in Seq(Line)
    OBVIOUS
  <2> QED
    BY <1>7, <2>1, GiveUpPreserves DEF PublishFails, CountFailure, IInv, TypeOK
<1> QED
  BY <1>1, <1>2, <1>3, <1>4, <1>5, <1>6, <1>7 DEF Step

LEMMA NextPreservesIInv == IInv /\ [Next]_vars => IInv'
<1> SUFFICES ASSUME IInv, [Next]_vars PROVE IInv'
  OBVIOUS
<1>0. up \/ mu = None
  BY DEF IInv, TypeOK
<1>1. CASE GrowCheckpoint
  BY <1>1, GrowCheckpointPreserves
<1>2. CASE \E c \in Callers : Lock(c) \/ Step(c)
  BY <1>2, LockPreserves, StepPreserves
<1>3. CASE AskLatest \/ AnswerLatest
  BY <1>3, AskLatestPreserves, AnswerLatestPreserves
<1>4. CASE Crash
  BY <1>4, CrashPreserves
<1>5. CASE Restart
  BY <1>0, <1>5, RestartPreserves DEF Restart, workerVars, history
<1>6. CASE UNCHANGED vars
  <2>1. up \in BOOLEAN
    BY DEF IInv, TypeOK
  <2> QED
    BY <1>0, <1>6, <2>1, RestartPreserves DEF vars, workerVars, history
<1> QED
  BY <1>1, <1>2, <1>3, <1>4, <1>5, <1>6 DEF Next

\* The inductive invariant holds in every reachable state: the mutex keeps
\* the file, lastHash and the caller's checkpoint in step (worker.go:101-127).
THEOREM Invariance == Spec => []IInv
BY InitEstablishesIInv, NextPreservesIInv, PTL DEF Spec

\* The state is well formed; the mutex has one holder (worker.go:102-103).
THEOREM TypeCorrect == Spec => []TypeOK
<1>1. IInv => TypeOK
  BY DEF IInv
<1> QED
  BY <1>1, Invariance, PTL

\* The tree sizes in the file never decrease, whatever races, fails or is cut
\* short (worker.go:101-127, file_publisher.go:35-56).
THEOREM NeverOutOfOrder == Spec => []RecordsOrdered
<1>1. IInv => RecordsOrdered
  BY DEF IInv, RecordsOrdered
<1> QED
  BY <1>1, Invariance, PTL

\* GET /anchor/latest never goes back behind what was published when the
\* request arrived (file_publisher.go:58-109).
THEOREM FreshLatest == Spec => []LatestIsFresh
<1>1. IInv => LatestIsFresh
  BY DEF IInv
<1> QED
  BY <1>1, Invariance, PTL

-----------------------------------------------------------------------------
(* The last record.                                                        *)

\* A part of a record does not end its line, and a whole record ends in its own
\* size and its own six fields, and can be parsed, wherever they come to stand.
LEMMA LastWritten ==
    ASSUME NEW f \in Seq(Line), NEW n \in Nat,
           NEW line \in TornRecords(n) \cup {Record(n)}
    PROVE  LET g == Written(f, line)
               last == g[Len(g)]
           IN  /\ g # << >>
               /\ last.ended => line = Record(n)
               /\ last.whole /\ last.ended => last.fields = 6 /\ last.numbers /\ last.size = n
<1> DEFINE g == Written(f, line)
           last == g[Len(g)]
<1>1. line \in Line /\ line.size = n /\ (line.ended => line = Record(n))
  <2>1. line \in Line /\ line.size = n
    BY LinesOfRecords
  <2>2. line \in TornRecords(n) => ~line.ended
    <3>1. CASE line = [Record(n) EXCEPT !.ended = FALSE]
      BY <3>1 DEF Record
    <3>2. CASE \E k \in 1 .. 6 : line = TornAt(n, k)
      BY <3>2 DEF TornAt, Record
    <3> QED
      BY <3>1, <3>2 DEF TornRecords
  <2> QED
    BY <2>1, <2>2
<1>2. Record(n).fields = 6 /\ Record(n).size = n /\ Record(n).numbers
  BY DEF Record
<1>3. CASE g = Append(f, line)
  <2>1. g # << >> /\ last = line
    BY <1>1, <1>3
  <2> QED
    BY <1>1, <1>2, <2>1
<1>4. CASE /\ f # << >> /\ Len(f) \in 1 .. Len(f)
           /\ g = [f EXCEPT ![Len(f)] = Joined(f[Len(f)], line)]
  <2> DEFINE a == f[Len(f)]
  <2>1. g # << >> /\ last = Joined(a, line)
    BY <1>4
  <2>2. ASSUME Joined(a, line).ended PROVE line = Record(n)
    <3>1. Joined(a, line).ended = line.ended
      BY DEF Joined
    <3> QED
      BY <1>1, <2>2, <3>1
  <2>3. ASSUME Joined(a, line).whole, Joined(a, line).ended
        PROVE  /\ Joined(a, line).fields = 6 /\ Joined(a, line).numbers
               /\ Joined(a, line).size = n
    <3>1. Joined(a, line).whole = (a.fields = 1 /\ line.whole)
      BY DEF Joined
    <3>2. a.fields = 1
      BY <2>3, <3>1
    <3>3. /\ Joined(a, line).fields = a.fields + line.fields - 1
          /\ line.numbers => Joined(a, line).numbers
          /\ Joined(a, line).size = line.size
      BY <3>2 DEF Joined
    <3>4. line.fields = 6 /\ line.numbers
      BY <1>2, <2>2, <2>3
    <3> QED
      BY <1>1, <3>2, <3>3, <3>4
  <2> HIDE DEF last, g, a
  <2>4. /\ g # << >>
        /\ last.ended => line = Record(n)
        /\ last.whole /\ last.ended => last.fields = 6 /\ last.numbers /\ last.size = n
    BY <2>1, <2>2, <2>3
  <2> QED
    BY <2>4 DEF last, g
<1> QED
  BY <1>1, <1>3, <1>4, WrittenForm

LEMMA StepKeepsLastRecord ==
    ASSUME IInv, LastIsRecorded, [Next]_vars
    PROVE  LastIsRecorded'
<1>1. CASE UNCHANGED <<file, recorded>>
  BY <1>1 DEF LastIsRecorded
<1>2. ASSUME NEW c \in Callers, WritePart(c)
      PROVE  LastIsRecorded'
  <2>1. PICK line \in TornRecords(cp[c]) : file' = Written(file, line)
    BY <1>2 DEF WritePart
  <2>2. cp[c] \in Nat /\ file \in Seq(Line)
    BY <1>2, AnchorBounds DEF WritePart, IInv, TypeOK, Inside
  <2>3. line # Record(cp[c])
    <3>1. CASE line = [Record(cp[c]) EXCEPT !.ended = FALSE]
      BY <3>1 DEF Record
    <3>2. CASE \E k \in 1 .. 6 : line = TornAt(cp[c], k)
      BY <3>2 DEF TornAt, Record
    <3> QED
      BY <3>1, <3>2 DEF TornRecords
  <2>4. file' # << >> /\ ~file'[Len(file')].ended
    BY <2>1, <2>2, <2>3, LastWritten
  <2> QED
    BY <2>4 DEF LastIsRecorded
<1>3. ASSUME NEW c \in Callers, PublishCheckpoint(c)
      PROVE  LastIsRecorded'
  <2>1. /\ pc[c] \in {"publish", "writing"} /\ file' = Written(Base(c), Record(cp[c]))
        /\ recorded' = cp[c]
    BY <1>3 DEF PublishCheckpoint, Base
  <2>2. cp[c] \in Nat /\ Base(c) \in Seq(Line)
    BY <2>1, AnchorBounds DEF Base, IInv, TypeOK, Inside
  <2>3. /\ file' # << >>
        /\ file'[Len(file')].whole /\ file'[Len(file')].ended =>
              /\ file'[Len(file')].fields = 6 /\ file'[Len(file')].numbers
              /\ file'[Len(file')].size = cp[c]
    BY <2>1, <2>2, LastWritten
  <2> QED
    BY <2>1, <2>3 DEF LastIsRecorded
<1>4. \/ UNCHANGED <<file, recorded>>
      \/ \E c \in Callers : WritePart(c) \/ PublishCheckpoint(c)
  BY DEF Next, Step, vars, history, GrowCheckpoint, Lock, AskLatest, AnswerLatest, Crash,
         Restart, ReadCheckpoint, SkipOldCheckpoint, RememberHash, ReadFails, PublishFails
<1> QED
  BY <1>1, <1>2, <1>3, <1>4

\* While no write has been cut short, what GET /anchor/latest reads when no
\* publication is under way is the record of the last publication of any process
\* (worker.go:95-127, file_publisher.go:58-109).
THEOREM LatestIsTheLast == Spec => []LatestUnlessTorn
<1>1. Init => LastIsRecorded
  BY DEF Init, LastIsRecorded
<1>2. IInv /\ LastIsRecorded /\ [Next]_vars => LastIsRecorded'
  BY StepKeepsLastRecord
<1>3. IInv /\ LastIsRecorded => LatestUnlessTorn
  <2> SUFFICES ASSUME IInv, LastIsRecorded, ~Torn, recorded # None
               PROVE  /\ "size" \in DOMAIN LatestCheckpoint(file)
                      /\ LatestCheckpoint(file).size = recorded
                      /\ LatestCheckpoint(file).whole
    BY DEF LatestUnlessTorn, LatestIsLastPublished
  <2>1. file # << >> /\ Len(file) \in 1 .. Len(file)
    BY DEF LastIsRecorded, IInv, TypeOK
  <2>2. file[Len(file)].whole /\ file[Len(file)].ended
    BY <2>1 DEF Torn
  <2>3. /\ file[Len(file)].fields = 6 /\ file[Len(file)].numbers
        /\ file[Len(file)].size = recorded
    BY <2>2 DEF LastIsRecorded
  <2>4. LatestCheckpoint(file) = [size |-> file[Len(file)].size,
                                  whole |-> file[Len(file)].whole, block |-> Len(file)]
    BY <2>1, <2>3 DEF LatestCheckpoint
  <2> QED
    BY <2>2, <2>3, <2>4
<1> QED
  BY <1>1, <1>2, <1>3, Invariance, PTL DEF Spec

\* A tick never writes what its process has already published: its checkpoint
\* is not the remembered one and not older than it, and everything published
\* is (worker.go:112-125).
THEOREM TicksNeverRepeat == Spec => TicksPublishOnlyNew
<1> DEFINE New == pc[Ticker] # pc'[Ticker] /\ pc'[Ticker] = "published" =>
                      cp[Ticker] \notin session
<1>1. ASSUME IInv, [Next]_vars PROVE New
  <2> SUFFICES ASSUME pc[Ticker] # pc'[Ticker], pc'[Ticker] = "published"
               PROVE  cp[Ticker] \notin session
    OBVIOUS
  <2>1. Ticker \in Callers /\ pc \in [Callers -> {"idle", "read", "publish", "writing", "published"}]
    BY <1>1 DEF Callers, IInv, TypeOK
  <2>2. PublishCheckpoint(Ticker)
    <3>1. ASSUME NEW c \in Callers, Lock(c) PROVE FALSE
      BY <2>1, <3>1 DEF Lock
    <3>2. ASSUME NEW c \in Callers, Step(c) PROVE PublishCheckpoint(Ticker)
      <4>1. c = Ticker
        BY <2>1, <3>2 DEF Step, ReadCheckpoint, SkipOldCheckpoint, WritePart,
                          PublishCheckpoint, RememberHash, ReadFails, PublishFails, Unlock
      <4> QED
        BY <2>1, <3>2, <4>1 DEF Step, ReadCheckpoint, SkipOldCheckpoint, WritePart,
                                RememberHash, ReadFails, PublishFails, Unlock
    <3>3. ~Crash
      BY <2>1 DEF Crash
    <3>4. ~(GrowCheckpoint \/ AskLatest \/ AnswerLatest \/ Restart \/ UNCHANGED vars)
      BY DEF GrowCheckpoint, AskLatest, AnswerLatest, Restart, vars, workerVars
    <3> QED
      BY <1>1, <3>1, <3>2, <3>3, <3>4 DEF Next
  <2>3. pc[Ticker] \in {"publish", "writing"}
    BY <2>2 DEF PublishCheckpoint
  <2>4. /\ cp[Ticker] \in 0 .. size /\ AtMost(lastHash, cp[Ticker])
        /\ cp[Ticker] # lastHash
    BY <1>1, <2>1, <2>3 DEF IInv, Inside
  <2>5. \A c \in Callers : pc[c] # "published"
    BY <1>1, <2>1, <2>3, OneInside DEF IInv
  <2>6. \A n \in session : n \in Nat /\ lastHash \in Nat /\ n <= lastHash
    BY <1>1, <2>5 DEF IInv, TypeOK, Remembered
  <2> QED
    BY <2>4, <2>6, AnchorNone DEF AtMost
<1> QED
  BY <1>1, Invariance, PTL DEF Spec, TicksPublishOnlyNew
=============================================================================
