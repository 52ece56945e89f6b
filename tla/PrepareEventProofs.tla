------------------------- MODULE PrepareEventProofs -------------------------
(***************************************************************************)
(* Proofs about PrepareEvent: for every body, digest, clock and mode, what *)
(* decoding and preparation make of a request depends on its tidy form     *)
(* only, is stable, and fits its type.                                     *)
(***************************************************************************)
EXTENDS PrepareEvent, TLAPS

-----------------------------------------------------------------------------
(* Texts. *)

\* Trimming and folding are idempotent, in either order.
LEMMA SpelledOnce ==
    ASSUME NEW t
    PROVE  /\ Trim(Trim(t)) = Trim(t)
           /\ FixCase(FixCase(t)) = FixCase(t)
           /\ FixCase(Trim(FixCase(Trim(t)))) = FixCase(Trim(t))
BY DEF Text, Trim, FixCase

\* The parsed digest, written back with its prefix, parses as itself.
LEMMA DigestParsesBack ==
    ASSUME NEW value, ParsePayloadHashValue(value) # None
    PROVE  /\ value.core \in Digests
           /\ ParsePayloadHashValue(value) = Plain(value.core)
           /\ ParsePayloadHashValue(Hex(ParsePayloadHashValue(value))) = Plain(value.core)
BY NoneIsNoDigest DEF ParsePayloadHashValue, Text, Trim, FixCase, Plain, Hex

\* Parsing a hash value does not see how it is spelled.
LEMMA TidyParses ==
    ASSUME NEW value
    PROVE  ParsePayloadHashValue(Text(value.core, FALSE, FALSE, value.hex))
             = ParsePayloadHashValue(value)
BY DEF ParsePayloadHashValue, Text, Trim, FixCase

-----------------------------------------------------------------------------
(* Requests. *)

Members == {"schema", "type", "doc", "prev", "leaf", "entity", "name", "title",
            "description", "notes", "issued", "hash"}

\* A raw request has all members and no others.
LEMMA MembersOfRaw ==
    ASSUME NEW f, IsRawRequest(f)
    PROVE  DOMAIN f = Members
BY DEF IsRawRequest, Members

\* What decoding makes of each member.
DecodedFrom(r, f) ==
    /\ r.schema = f.schema /\ r.type = FixCase(Trim(f.type)) /\ r.doc = Trim(f.doc)
    /\ r.prev = TrimOptional(f.prev) /\ r.leaf = f.leaf
    /\ r.entity = Trim(f.entity) /\ r.name = Trim(f.name) /\ r.title = Trim(f.title)
    /\ r.description = Trim(f.description) /\ r.notes = Trim(f.notes)
    /\ r.issued = f.issued /\ r.hash = f.hash

LEMMA DecodedMembers ==
    ASSUME NEW b, DOMAIN b.fields = Members
    PROVE  DecodedFrom(Decode(b), b.fields)
BY DEF Decode, DecodedFrom, Members

\* The members of a tidy request.
TidyHashOf(h) ==
    IF h = None THEN None ELSE [alg |-> Unpadded(h.alg), value |-> Folded(h.value)]
TidyFrom(g, f) ==
    /\ g.schema = f.schema /\ g.type = Folded(f.type) /\ g.doc = Unpadded(f.doc)
    /\ g.prev = IF f.prev = None THEN None ELSE Unpadded(f.prev)
    /\ g.leaf = f.leaf
    /\ g.entity = Unpadded(f.entity) /\ g.name = Unpadded(f.name)
    /\ g.title = Unpadded(f.title) /\ g.description = Unpadded(f.description)
    /\ g.notes = Unpadded(f.notes) /\ g.issued = f.issued
    /\ g.hash = TidyHashOf(f.hash)

LEMMA TidyMembers ==
    ASSUME NEW f, DOMAIN f = Members
    PROVE  DOMAIN TidyFields(f) = Members /\ TidyFrom(TidyFields(f), f)
BY DEF TidyFields, TidyFrom, TidyHashOf, Members

\* Decoding a tidy text gives what decoding the text gives.
LEMMA TidyDecodes ==
    ASSUME NEW t
    PROVE  Trim(Unpadded(t)) = Trim(t) /\ FixCase(Trim(Folded(t))) = FixCase(Trim(t))
BY DEF Unpadded, Folded, Trim, FixCase, Text

\* An optional member that is there is unlike an absent one, tidied or not,
\* and so is a hash that is written with the canonical algorithm.
LEMMA PrevStaysThere ==
    ASSUME NEW p, IsPrev(p), p # None
    PROVE  Unpadded(p) # None
<1>1. p \in TextsAround(p.core) /\ None \notin TextsAround(p.core)
  BY DEF IsPrev, IsText
<1>2. p.cased \in BOOLEAN /\ p.hex \in BOOLEAN
  BY <1>1 DEF TextsAround
<1>3. Unpadded(p) \in TextsAround(p.core)
  BY <1>2 DEF TextsAround, Unpadded, Text
<1>4. QED
  BY <1>1, <1>3

LEMMA HashStaysThere ==
    ASSUME NEW h, IsHash(h), h # None,
           NEW alg \in TextsAround(h.alg.core) \cup TextsAround("sha-256"),
           NEW value \in TextsAround(h.value.core)
    PROVE  [alg |-> alg, value |-> value] # None
<1> DEFINE Algs == TextsAround(h.alg.core) \cup TextsAround("sha-256")
           Values == TextsAround(h.value.core)
<1>1. None \notin [alg : Algs, value : Values]
  BY DEF IsHash
<1>2. [alg |-> alg, value |-> value] \in [alg : Algs, value : Values]
  OBVIOUS
<1>3. QED
  BY <1>1, <1>2

\* The texts of a hash.
LEMMA HashTexts ==
    ASSUME NEW h, IsHash(h), h # None
    PROVE  /\ Unpadded(h.alg) \in TextsAround(h.alg.core) \cup TextsAround("sha-256")
           /\ Folded(h.value) \in TextsAround(h.value.core)
<1> DEFINE Algs == TextsAround(h.alg.core) \cup TextsAround("sha-256")
           Values == TextsAround(h.value.core)
<1>1. h.alg \in Algs /\ h.value \in Values
  <2>1. h \in [alg : Algs, value : Values]
    BY DEF IsHash
  <2>2. QED
    BY <2>1
<1>2. h.alg.cased \in BOOLEAN /\ h.alg.hex \in BOOLEAN /\ h.value.hex \in BOOLEAN
  BY <1>1 DEF TextsAround
<1>3. QED
  BY <1>2 DEF TextsAround, Unpadded, Folded, Text

-----------------------------------------------------------------------------
(* What preparation makes of a decoded request.                            *)

\* A tidy hash is as valid as the one it stands for, and the same digest.
LEMMA TidyHash ==
    ASSUME NEW h, NEW g, g = [alg |-> Unpadded(h.alg), value |-> Folded(h.value)]
    PROVE  /\ ValidPayloadHash(g) <=> ValidPayloadHash(h)
           /\ ParsePayloadHashValue(g.value) = ParsePayloadHashValue(h.value)
<1>1. Trim(g.alg) = Trim(h.alg)
  BY DEF Trim, Unpadded, Text
<1>2. ParsePayloadHashValue(g.value) = ParsePayloadHashValue(h.value)
  BY TidyParses DEF Folded
<1>3. QED
  BY <1>1, <1>2 DEF ValidPayloadHash

\* Two decoded requests that say the same have one fate: they agree but in the
\* spelling of the hash and of issued_at and in a rounded prev_event_leaf.
SayTheSame(q, r) ==
    /\ q.schema = r.schema /\ q.type = r.type /\ q.doc = r.doc /\ q.prev = r.prev
    /\ q.entity = r.entity /\ q.name = r.name /\ q.title = r.title
    /\ q.description = r.description /\ q.notes = r.notes
    /\ (q.leaf # None => q.leaf >= 0) <=> (r.leaf # None => r.leaf >= 0)
    /\ CanonicalLeaf(q) = CanonicalLeaf(r)
    /\ ParsesAsTime(q.issued) <=> ParsesAsTime(r.issued)
    /\ Instant(q.issued) = Instant(r.issued)
    /\ q.hash = None <=> r.hash = None
    /\ r.hash # None =>
          /\ ValidPayloadHash(q.hash) <=> ValidPayloadHash(r.hash)
          /\ ParsePayloadHashValue(q.hash.value) = ParsePayloadHashValue(r.hash.value)

LEMMA OneFate ==
    ASSUME NEW r, NEW q, NEW time, NEW dev, SayTheSame(q, r)
    PROVE  /\ Admissible(q, time, dev) <=> Admissible(r, time, dev)
           /\ PreparedEvent(q, 1, Plain(EventID), ComputeRecordedAt(q, time, dev))
                = PreparedEvent(r, 1, Plain(EventID), ComputeRecordedAt(r, time, dev))
<1>1. ValidForType(q) <=> ValidForType(r)
  BY DEF SayTheSame, ValidForType
<1>2. ValidateAddEventRequest(q) <=> ValidateAddEventRequest(r)
  BY <1>1 DEF SayTheSame, ValidateAddEventRequest
<1>3. RecordedInTime(q, time, dev) <=> RecordedInTime(r, time, dev)
  BY DEF SayTheSame, RecordedInTime
<1>4. CanonicalPayloadHash(q) = CanonicalPayloadHash(r)
  BY DEF SayTheSame, CanonicalPayloadHash
<1>5. /\ ComputeRecordedAt(q, time, dev) = ComputeRecordedAt(r, time, dev)
      /\ CanonicalIssuedAt(q) = CanonicalIssuedAt(r)
  BY DEF SayTheSame, ComputeRecordedAt, CanonicalIssuedAt
<1>6. QED
  BY <1>2, <1>3, <1>4, <1>5 DEF SayTheSame, Admissible, PreparedEvent

\* A body and its tidy form have the same outcome.
LEMMA TidyOutcome ==
    ASSUME NEW b, IsRawRequest(b.fields), NEW time, NEW dev
    PROVE  Outcome(Tidy(b), time, dev) = Outcome(b, time, dev)
<1>1. PICK f : f = b.fields
  OBVIOUS
<1>2. PICK r, q : r = Decode(b) /\ q = Decode(Tidy(b))
  OBVIOUS
<1>3. IsRawRequest(f) /\ DOMAIN f = Members
  BY <1>1, MembersOfRaw
<1>4. PICK g : g = Tidy(b).fields /\ DOMAIN g = Members /\ TidyFrom(g, f)
  BY <1>1, <1>3, TidyMembers DEF Tidy
<1>5. DecodedFrom(r, f) /\ DecodedFrom(q, g)
  BY <1>1, <1>2, <1>3, <1>4, DecodedMembers
<1>6. /\ q.schema = r.schema /\ q.leaf = r.leaf /\ q.issued = r.issued
      /\ q.type = r.type /\ q.doc = r.doc /\ q.entity = r.entity /\ q.name = r.name
      /\ q.title = r.title /\ q.description = r.description /\ q.notes = r.notes
  BY <1>4, <1>5, TidyDecodes DEF DecodedFrom, TidyFrom
<1>7. q.prev = r.prev
  <2>1. CASE f.prev = None
    BY <1>4, <1>5, <2>1 DEF DecodedFrom, TidyFrom, TrimOptional
  <2>2. CASE f.prev # None
    <3>1. g.prev = Unpadded(f.prev) /\ g.prev # None
      BY <1>3, <1>4, <2>2, PrevStaysThere DEF IsRawRequest, TidyFrom
    <3>2. q.prev = Trim(Unpadded(f.prev)) /\ r.prev = Trim(f.prev)
      BY <1>5, <2>2, <3>1 DEF DecodedFrom, TrimOptional
    <3>3. QED
      BY <3>2, TidyDecodes
  <2>3. QED
    BY <2>1, <2>2
<1>8. /\ q.hash = None <=> r.hash = None
      /\ r.hash # None =>
           /\ ValidPayloadHash(q.hash) <=> ValidPayloadHash(r.hash)
           /\ ParsePayloadHashValue(q.hash.value) = ParsePayloadHashValue(r.hash.value)
  <2>1. r.hash = f.hash /\ q.hash = TidyHashOf(f.hash)
    BY <1>4, <1>5 DEF DecodedFrom, TidyFrom
  <2>2. CASE f.hash = None
    BY <2>1, <2>2 DEF TidyHashOf
  <2>3. CASE f.hash # None
    <3>1. q.hash = [alg |-> Unpadded(f.hash.alg), value |-> Folded(f.hash.value)]
      BY <2>1, <2>3 DEF TidyHashOf
    <3>2. q.hash # None
      BY <1>3, <2>3, <3>1, HashTexts, HashStaysThere DEF IsRawRequest
    <3>3. QED
      BY <2>1, <2>3, <3>1, <3>2, TidyHash
  <2>4. QED
    BY <2>2, <2>3
<1>9. SayTheSame(q, r)
  BY <1>6, <1>7, <1>8 DEF SayTheSame, CanonicalLeaf
<1>10. DecodeFails(Tidy(b)) <=> DecodeFails(b)
  <2>1. Tidy(b).fields.leaf = b.fields.leaf /\ Tidy(b).shape = b.shape
    BY <1>1, <1>4 DEF TidyFrom, Tidy
  <2>2. QED
    BY <2>1 DEF DecodeFails, RejectServerManagedFields
<1>11. QED
  BY <1>2, <1>9, <1>10, OneFate DEF Outcome

\* An admissible request's hash has a digest, and its canonical form has the
\* same one.
LEMMA AdmissibleHash ==
    ASSUME NEW r, NEW time, NEW dev, Admissible(r, time, dev), r.hash # None
    PROVE  /\ r.hash.value.core \in Digests
           /\ CanonicalPayloadHash(r) =
                [alg |-> Plain("sha-256"), value |-> Hex(Plain(r.hash.value.core))]
           /\ ParsePayloadHashValue(r.hash.value) = Plain(r.hash.value.core)
           /\ ParsePayloadHashValue(Hex(Plain(r.hash.value.core))) = Plain(r.hash.value.core)
<1>1. ValidPayloadHash(r.hash)
  BY DEF Admissible, ValidateAddEventRequest, ValidForType
<1>2. ParsePayloadHashValue(r.hash.value) # None
  BY <1>1 DEF ValidPayloadHash
<1>3. QED
  BY <1>2, DigestParsesBack DEF CanonicalPayloadHash

\* Rounding is done once.
LEMMA RoundedOnce ==
    ASSUME NEW l \in Nat
    PROVE  /\ l + (l % 2) \in Nat /\ l + (l % 2) >= l
           /\ (l + (l % 2)) % 2 = 0
OBVIOUS

LEMMA CanonicalLeafIsFixed ==
    ASSUME NEW r, NEW q, q.leaf = CanonicalLeaf(r),
           r.leaf \in Int \cup {None}, r.leaf # None => r.leaf >= 0
    PROVE  /\ CanonicalLeaf(q) = CanonicalLeaf(r)
           /\ q.leaf # None => q.leaf >= 0
<1>1. CASE r.leaf = None
  BY <1>1 DEF CanonicalLeaf
<1>2. CASE r.leaf # None
  <2>1. PICK l \in Nat : r.leaf = l
    BY <1>2
  <2>2. CASE l <= MaxExact
    BY <1>2, <2>1, <2>2 DEF CanonicalLeaf
  <2>3. CASE ~(l <= MaxExact)
    <3>1. PICK m \in Nat : m = l + (l % 2) /\ m >= l /\ m % 2 = 0
      BY RoundedOnce
    <3>2. q.leaf = m /\ CanonicalLeaf(r) = m
      BY <1>2, <2>1, <2>3, <3>1 DEF CanonicalLeaf
    <3>3. ~(m <= MaxExact) /\ m # None
      BY <2>3, <3>1, WidthsAssumption, NoneIsNoNumber
    <3>4. CanonicalLeaf(q) = m + (m % 2)
      BY <3>2, <3>3 DEF CanonicalLeaf
    <3>5. QED
      BY <3>1, <3>2, <3>4
  <2>4. QED
    BY <2>2, <2>3
<1>3. QED
  BY <1>1, <1>2

\* An instant written in UTC reads as itself, within the years that can be read.
LEMMA InstantReadsBack ==
    ASSUME NEW s, ParsesAsTime(s)
    PROVE  /\ Instant(FormatUTC(Instant(s))) = Instant(s)
           /\ ParsesAsTime(FormatUTC(Instant(s))) <=> Instant(s) \in Readings
<1>1. s.reading \in Int /\ s.offset \in Int /\ 0 \in Offsets
  <2>1. LastReading \in Nat /\ Offsets \subseteq Int /\ 0 \in Offsets
    BY ReadingsAssumption
  <2>2. s.reading \in 0 .. LastReading /\ s.offset \in Offsets
    BY DEF ParsesAsTime, Readings
  <2>3. s.reading \in Int
    BY ONLY <2>1, <2>2
  <2>4. s.offset \in Int
    BY ONLY <2>1, <2>2
  <2>5. QED
    BY <2>1, <2>3, <2>4
<1> DEFINE t == Instant(s)
<1>2. t \in Int
  BY <1>1 DEF Instant
<1> HIDE DEF t
<1>3. Instant(FormatUTC(t)) = t
  BY <1>2 DEF Instant, FormatUTC, Stamp
<1>4. ParsesAsTime(FormatUTC(t)) <=> t \in Readings
  BY <1>1 DEF ParsesAsTime, FormatUTC, Stamp
<1>5. QED
  BY <1>3, <1>4 DEF t

\* The hash of an admitted request, written back, says the same.
LEMMA HashWrittenBack ==
    ASSUME NEW r, NEW time, NEW dev, Admissible(r, time, dev), IsHash(r.hash),
           NEW h, h = CanonicalPayloadHash(r)
    PROVE  /\ h = None <=> r.hash = None
           /\ r.hash # None =>
                /\ ValidPayloadHash(h) /\ ValidPayloadHash(r.hash)
                /\ ParsePayloadHashValue(h.value) = ParsePayloadHashValue(r.hash.value)
<1>1. CASE r.hash = None
  BY <1>1 DEF CanonicalPayloadHash
<1>2. CASE r.hash # None
  <2> DEFINE c == r.hash.value.core
  <2>1. /\ c \in Digests
        /\ h = [alg |-> Plain("sha-256"), value |-> Hex(Plain(c))]
        /\ ParsePayloadHashValue(r.hash.value) = Plain(c)
        /\ ParsePayloadHashValue(Hex(Plain(c))) = Plain(c)
    BY <1>2, AdmissibleHash
  <2>2. h # None
    <3>1. Plain("sha-256") \in TextsAround("sha-256") /\ Hex(Plain(c)) \in TextsAround(c)
      BY DEF TextsAround, Plain, Hex, Text
    <3>2. QED
      BY <1>2, <2>1, <3>1, HashStaysThere
  <2>3. Plain(c) # None
    BY <2>1, NoneIsNoDigest
  <2> HIDE DEF c
  <2>4. h.alg = Plain("sha-256") /\ h.value = Hex(Plain(c))
    BY <2>1
  <2>5. Trim(h.alg) = Plain("sha-256")
    BY <2>4 DEF Trim, Plain, Text
  <2>6. ValidPayloadHash(h)
    BY <2>1, <2>3, <2>4, <2>5 DEF ValidPayloadHash
  <2>7. ValidPayloadHash(r.hash)
    BY <1>2 DEF Admissible, ValidateAddEventRequest, ValidForType
  <2>8. QED
    BY <1>2, <2>1, <2>2, <2>4, <2>6, <2>7
<1>3. QED
  BY <1>1, <1>2

\* The event made of a body, sent back, is that event, or is refused.
LEMMA StableOutcome ==
    ASSUME NEW b, IsRawRequest(b.fields), NEW time, NEW dev,
           NEW o, o = Outcome(b, time, dev), o # None
    PROVE  Outcome(SentBack(o), time, dev) =
               IF Instant(b.fields.issued) \in Readings /\ FitsInt64(o.leaf)
               THEN o ELSE None
<1>1. PICK f, g : f = b.fields /\ g = SentBack(o).fields
  OBVIOUS
<1>2. PICK r, q : r = Decode(b) /\ q = Decode(SentBack(o))
  OBVIOUS
<1>3. /\ Admissible(r, time, dev)
      /\ o = PreparedEvent(r, 1, Plain(EventID), ComputeRecordedAt(r, time, dev))
  BY <1>2 DEF Outcome
<1>4. IsRawRequest(f) /\ DecodedFrom(r, f)
  BY <1>1, <1>2, MembersOfRaw, DecodedMembers
<1>5. /\ DOMAIN g = Members
      /\ g.schema = r.schema /\ g.type = r.type /\ g.doc = r.doc /\ g.prev = r.prev
      /\ g.leaf = CanonicalLeaf(r) /\ g.entity = r.entity /\ g.name = r.name
      /\ g.title = r.title /\ g.description = r.description /\ g.notes = r.notes
      /\ g.issued = CanonicalIssuedAt(r) /\ g.hash = CanonicalPayloadHash(r)
  BY <1>1, <1>3 DEF SentBack, PreparedEvent, Members
<1>6. DecodedFrom(q, g)
  BY <1>1, <1>2, <1>5, DecodedMembers
<1>7. /\ q.schema = r.schema /\ q.type = r.type /\ q.doc = r.doc
      /\ q.entity = r.entity /\ q.name = r.name /\ q.title = r.title
      /\ q.description = r.description /\ q.notes = r.notes
  BY <1>4, <1>5, <1>6, SpelledOnce DEF DecodedFrom
<1>8. q.prev = r.prev
  BY <1>4, <1>5, <1>6, SpelledOnce DEF DecodedFrom, TrimOptional
<1>9. /\ CanonicalLeaf(q) = CanonicalLeaf(r)
      /\ q.leaf # None => q.leaf >= 0
      /\ r.leaf # None => r.leaf >= 0
  <2>1. r.leaf \in Int \cup {None} /\ (r.leaf # None => r.leaf >= 0)
    BY <1>3, <1>4 DEF IsRawRequest, DecodedFrom, Admissible, ValidateAddEventRequest
  <2>2. q.leaf = CanonicalLeaf(r)
    BY <1>5, <1>6 DEF DecodedFrom
  <2>3. QED
    BY <2>1, <2>2, CanonicalLeafIsFixed
<1>10. /\ ParsesAsTime(r.issued) /\ Instant(q.issued) = Instant(r.issued)
       /\ ParsesAsTime(q.issued) <=> Instant(r.issued) \in Readings
  <2>1. ParsesAsTime(r.issued)
    BY <1>3 DEF Admissible, ValidateAddEventRequest
  <2>2. q.issued = FormatUTC(Instant(r.issued))
    BY <1>5, <1>6 DEF DecodedFrom, CanonicalIssuedAt
  <2>3. QED
    BY <2>1, <2>2, InstantReadsBack
<1>11. /\ q.hash = None <=> r.hash = None
       /\ r.hash # None =>
            /\ ValidPayloadHash(q.hash) /\ ValidPayloadHash(r.hash)
            /\ ParsePayloadHashValue(q.hash.value) = ParsePayloadHashValue(r.hash.value)
  <2>1. IsHash(r.hash) /\ q.hash = CanonicalPayloadHash(r)
    BY <1>4, <1>5, <1>6 DEF IsRawRequest, DecodedFrom
  <2>2. QED
    BY <1>3, <2>1, HashWrittenBack
<1>12. DecodeFails(SentBack(o)) <=> ~FitsInt64(o.leaf)
  BY DEF DecodeFails, SentBack, RejectServerManagedFields, ServerManaged, Malformed
<1>13. r.issued = b.fields.issued
  BY <1>1, <1>4 DEF DecodedFrom
<1>14. CASE Instant(r.issued) \in Readings
  <2>1. SayTheSame(q, r)
    BY <1>7, <1>8, <1>9, <1>10, <1>11, <1>14 DEF SayTheSame
  <2>2. /\ Admissible(q, time, dev)
        /\ PreparedEvent(q, 1, Plain(EventID), ComputeRecordedAt(q, time, dev)) = o
    BY <1>3, <2>1, OneFate
  <2>3. QED
    BY <1>2, <1>12, <1>13, <1>14, <2>2 DEF Outcome
<1>15. CASE Instant(r.issued) \notin Readings
  <2>1. ~Admissible(q, time, dev)
    BY <1>10, <1>15 DEF Admissible, ValidateAddEventRequest
  <2>2. QED
    BY <1>2, <1>13, <1>15, <2>1 DEF Outcome
<1>16. QED
  BY <1>14, <1>15

\* What an admitted request's event has, its request had.
LEMMA FittingOutcome ==
    ASSUME NEW b, IsRawRequest(b.fields), NEW time, NEW dev,
           NEW o, o = Outcome(b, time, dev), o # None
    PROVE  /\ o.type = Create => o.prev \in {None, Blank}
           /\ o.type # Create => o.prev.core \in UUIDv4s
           /\ o.type \in {Create, Update} => \E d \in Digests : DocHash(o) = Plain(d)
<1>1. PICK r : r = Decode(b)
  OBVIOUS
<1>2. /\ Admissible(r, time, dev)
      /\ o = PreparedEvent(r, 1, Plain(EventID), ComputeRecordedAt(r, time, dev))
  BY <1>1 DEF Outcome
<1>3. o.type = r.type /\ o.prev = r.prev /\ o.hash = CanonicalPayloadHash(r)
  BY <1>2 DEF PreparedEvent
<1>4. IsHash(r.hash)
  BY <1>1, MembersOfRaw, DecodedMembers DEF DecodedFrom, IsRawRequest
<1>5. Create # Update /\ Create \notin Extensions
  BY DEF Create, Update, Extensions, Plain, Text
<1>6. o.type = Create => o.prev \in {None, Blank}
  BY <1>2, <1>3, <1>5 DEF Admissible, ValidateAddEventRequest, ValidForType
<1>7. o.type # Create => o.prev.core \in UUIDv4s
  <2>1. o.type # Create => RequireUUIDv4(o.prev)
    BY <1>2, <1>3 DEF Admissible, ValidateAddEventRequest, ValidForType
  <2>2. QED
    BY <2>1 DEF RequireUUIDv4, Trim, Text
<1>8. o.type \in {Create, Update} => \E d \in Digests : DocHash(o) = Plain(d)
  <2> SUFFICES ASSUME o.type \in {Create, Update}
               PROVE  \E d \in Digests : DocHash(o) = Plain(d)
    OBVIOUS
  <2>1. r.hash # None
    BY <1>2, <1>3, <1>5 DEF Admissible, ValidateAddEventRequest, ValidForType
  <2>2. /\ r.hash.value.core \in Digests
        /\ ParsePayloadHashValue(r.hash.value) = Plain(r.hash.value.core)
    BY <1>2, <2>1, AdmissibleHash
  <2>3. /\ o.hash # None
        /\ ParsePayloadHashValue(o.hash.value) = ParsePayloadHashValue(r.hash.value)
    BY <1>2, <1>3, <1>4, <2>1, HashWrittenBack
  <2>4. QED
    BY <2>2, <2>3 DEF DocHash
<1>9. QED
  BY <1>6, <1>7, <1>8

-----------------------------------------------------------------------------
(* The specification.                                                      *)

\* The inductive invariant: the answer, once given, is what the body, the
\* clock and the mode call for.
THEOREM PrepareInvariance == Spec => []PrepareInv
<1>1. Init => PrepareInv
  BY DEF Init, PrepareInv
<1>2. PrepareInv /\ [Answer]_vars => PrepareInv'
  <2> SUFFICES ASSUME PrepareInv, [Answer]_vars
               PROVE  PrepareInv'
    OBVIOUS
  <2>1. CASE Answer
    BY <2>1 DEF PrepareInv, Answer
  <2>2. CASE UNCHANGED vars
    BY <2>2 DEF PrepareInv, vars
  <2>3. QED
    BY <2>1, <2>2
<1>3. QED
  BY <1>1, <1>2, PTL DEF Spec

\* An event that was made was made of the body.
LEMMA NotarizedIsOutcome ==
    ASSUME PrepareInv, Notarized
    PROVE  /\ IsRawRequest(body.fields)
           /\ outcome = Outcome(body, now, devMode)
BY BodiesAreJSON DEF PrepareInv, Notarized

\* A body and its tidy form are both refused, or become events with the same
\* members, all those that are hashed.
THEOREM SpellingMakesNoDifference == Spec => []SpellingIsImmaterial
<1>1. PrepareInv => SpellingIsImmaterial
  <2> SUFFICES ASSUME PrepareInv, answered
               PROVE  outcome = Outcome(Tidy(body), now, devMode)
    BY DEF SpellingIsImmaterial
  <2>1. outcome = Outcome(body, now, devMode) /\ IsRawRequest(body.fields)
    BY BodiesAreJSON DEF PrepareInv
  <2>2. QED
    BY <2>1, TidyOutcome
<1>2. QED
  BY <1>1, PrepareInvariance, PTL

\* An event that is sent back becomes the same event, unless its issued_at left
\* the years 0000 to 9999 or its prev_event_leaf the int64s: then it is refused.
THEOREM CanonicalFormIsFixed == Spec => []CanonicalFormIsStable
<1>1. PrepareInv => CanonicalFormIsStable
  BY NotarizedIsOutcome, StableOutcome DEF CanonicalFormIsStable, Notarized
<1>2. QED
  BY <1>1, PrepareInvariance, PTL

\* An event has the predecessor and the digest its type demands.
THEOREM EventsFit == Spec => []EventFitsItsType
<1>1. PrepareInv => EventFitsItsType
  BY NotarizedIsOutcome, FittingOutcome DEF EventFitsItsType, Notarized
<1>2. QED
  BY <1>1, PrepareInvariance, PTL
=============================================================================
