----------------------------- MODULE AddRequest -----------------------------
(***************************************************************************)
(* The body of POST /add, from the JSON a client sends to the event that   *)
(* is appended: DecodeAddEventRequest normalises it, validateAddEventRe-   *)
(* quest and computeRecordedAt admit it, buildPreparedEvent gives it the   *)
(* canonical form that is hashed (server/internal/event/prepare.go).       *)
(*                                                                         *)
(* A JSON string is a Text: its core, the characters that carry meaning,   *)
(* with what the code reacts to around it: white space, letters whose case *)
(* is not the canonical one, and the prefix "hex:" of a payload hash. An   *)
(* issued_at is a Stamp: what a wall clock reads in a time zone, and how   *)
(* that is written.                                                        *)
(***************************************************************************)
EXTENDS Integers

CONSTANTS
    None,       \* a JSON member that is absent (a nil pointer in Go)
    UUIDv4s,    \* the cores uuid.Parse accepts as version 4
    Digests,    \* the cores that are 64 hex digits
    Times,      \* the instants the server's clock shows, a set of integers
    LastReading,\* the last reading of a wall clock in the year 9999; 0 is the
                \* first one in the year 0000
    Offsets,    \* the offsets from UTC that time.Parse reads
    MaxExact,   \* 2^53, up to which a float64 has every integer
    MaxInt64    \* 2^63 - 1

ASSUME TimesAssumption == Times \subseteq Int
ASSUME ReadingsAssumption ==
    /\ LastReading \in Nat
    /\ Offsets \subseteq Int /\ 0 \in Offsets
ASSUME WidthsAssumption == MaxExact \in Nat /\ MaxInt64 \in Nat
ASSUME UUIDAssumption == "" \notin UUIDv4s

-----------------------------------------------------------------------------
(* Texts. *)

Text(core, pad, cased, hex) ==
    [core |-> core, pad |-> pad, cased |-> cased, hex |-> hex]
Plain(core) == Text(core, FALSE, FALSE, FALSE)
Hex(t) == Text(t.core, t.pad, t.cased, TRUE)
Blank == Plain("")

Trim(t) == Text(t.core, FALSE, t.cased, t.hex)
FixCase(t) == Text(t.core, t.pad, FALSE, t.hex)
TrimOptional(t) == IF t = None THEN None ELSE Trim(t)

-----------------------------------------------------------------------------
(* Timestamps. A form is "canonical", as time.RFC3339Nano writes a time;   *)
(* "loose", the same time written otherwise, as with trailing zeros; or    *)
(* "illegible", what time.Parse refuses, as white space around it.         *)

Stamp(reading, offset, form) ==
    [reading |-> reading, offset |-> offset, form |-> form]

\* RFC 3339 has four digits for the year, of the reading and not of UTC.
Readings == 0 .. LastReading
ParsesAsTime(s) ==
    s.form # "illegible" /\ s.reading \in Readings /\ s.offset \in Offsets
Instant(s) == s.reading - s.offset

\* Format(time.RFC3339Nano) of a time in UTC.
FormatUTC(t) == Stamp(t, 0, "canonical")

-----------------------------------------------------------------------------

EventSchema == Plain("pa-notary-event@1")
Create == Plain("CREATE")
Update == Plain("UPDATE")
Extensions == {Update, Plain("REVOKE"), Plain("EXPIRE")}

-----------------------------------------------------------------------------
(* Decoding. A body is [shape, fields]: shape names what the JSON parser   *)
(* makes of it, and "object" is the only one that gets through, unless     *)
(* prev_event_leaf does not fit its int64.                                 *)

ServerManaged == {"event_id", "recorded_at", "doc_version"}
Malformed == {"empty", "not_json", "unknown_member", "trailing_data"}
Shapes == {"object"} \cup ServerManaged \cup Malformed

FitsInt64(leaf) == leaf = None \/ leaf <= MaxInt64

RejectServerManagedFields(body) == body.shape \in ServerManaged
DecodeFails(body) ==
    \/ RejectServerManagedFields(body)
    \/ body.shape \in Malformed
    \/ ~FitsInt64(body.fields.leaf)

\* A slip: the members nobody validates are left as they were sent.
DecodeRequired(body) ==
    [body.fields EXCEPT
        !.type   = FixCase(Trim(@)),
        !.doc    = Trim(@),
        !.prev   = TrimOptional(@),
        !.entity = Trim(@),
        !.title  = Trim(@)]
\* The decoded request. Schema, issued_at, payload_hash and prev_event_leaf
\* are taken as they were sent.
Decode(body) ==
    [body.fields EXCEPT
        !.type        = FixCase(Trim(@)),
        !.doc         = Trim(@),
        !.prev        = TrimOptional(@),
        !.entity      = Trim(@),
        !.name        = Trim(@),
        !.title       = Trim(@),
        !.description = Trim(@),
        !.notes       = Trim(@)]

-----------------------------------------------------------------------------
(* Validation. *)

\* hashutil.ParsePayloadHashValue: the bare digest in lower case, or None
\* for its error.
ParsePayloadHashValue(value) ==
    LET v == FixCase(Trim(value))
    IN  IF v.hex /\ v.core \in Digests THEN Plain(v.core) ELSE None

ValidPayloadHash(ph) ==
    /\ Trim(ph.alg) = Plain("sha-256")
    /\ ParsePayloadHashValue(ph.value) # None

\* uuid.Parse reads either case; requireUUIDv4 trims before it.
RequireUUIDv4(t) == t # None /\ ~t.hex /\ Trim(t).core \in UUIDv4s

\* A slip: a CREATE may name a predecessor.
ValidWithAnyPrev(req) ==
    /\ req.type \in {Create} \cup Extensions
    /\ req.type # Create => RequireUUIDv4(req.prev)
    /\ req.type \in {Create, Update} => req.hash # None
    /\ req.hash # None => ValidPayloadHash(req.hash)
ValidForType(req) ==
    \/ /\ req.type = Create
       /\ req.prev \in {None, Blank}
       /\ req.hash # None
       /\ ValidPayloadHash(req.hash)
    \/ /\ req.type = Update
       /\ RequireUUIDv4(req.prev)
       /\ req.hash # None
       /\ ValidPayloadHash(req.hash)
    \/ /\ req.type \in Extensions \ {Update}
       /\ RequireUUIDv4(req.prev)
       /\ req.hash # None => ValidPayloadHash(req.hash)

ValidateAddEventRequest(req) ==
    /\ req.schema = EventSchema
    /\ req.doc # Blank
    /\ req.entity # Blank
    /\ req.title # Blank
    /\ req.leaf # None => req.leaf >= 0
    /\ ParsesAsTime(req.issued)
    /\ ValidForType(req)

-----------------------------------------------------------------------------
(* Preparation. *)

\* computeRecordedAt refuses an issued_at after the server's clock, unless
\* the server runs in dev mode, where issued_at is the recording time.
RecordedInTime(req, now, devMode) == devMode \/ now >= Instant(req.issued)
ComputeRecordedAt(req, now, devMode) ==
    IF devMode THEN Instant(req.issued) ELSE now

Admissible(req, now, devMode) ==
    /\ ValidateAddEventRequest(req)
    /\ RecordedInTime(req, now, devMode)

CanonicalPayloadHash(req) ==
    IF req.hash = None THEN None
    ELSE [alg   |-> Plain("sha-256"),
          value |-> Hex(ParsePayloadHashValue(req.hash.value))]

\* A slip: the wall clock's reading, written as if it were UTC.
LocalIssuedAt(req) == FormatUTC(req.issued.reading)
CanonicalIssuedAt(req) == FormatUTC(Instant(req.issued))

\* The canonical JSON has numbers as float64 writes them: beyond 2^53 not
\* every integer is one. The gap is taken to be two, and odd numbers go up;
\* in the code it doubles with every power of two.
CanonicalLeaf(req) ==
    IF req.leaf = None \/ req.leaf <= MaxExact THEN req.leaf
    ELSE req.leaf + (req.leaf % 2)

\* The canonical event: the request with issued_at, payload_hash and
\* prev_event_leaf rewritten, and the three members only the server sets.
PreparedEvent(req, ver, id, recordedAt) ==
    [schema |-> req.schema, type |-> req.type, doc |-> req.doc,
     prev |-> req.prev, leaf |-> CanonicalLeaf(req),
     entity |-> req.entity, name |-> req.name, title |-> req.title,
     description |-> req.description, notes |-> req.notes,
     issued |-> CanonicalIssuedAt(req), hash |-> CanonicalPayloadHash(req),
     id |-> id, ver |-> ver, recorded_at |-> recordedAt]

\* PreparedEvent.DocHash: what AddEvent stores in the doc_hash column; a
\* blank when the event carries no payload hash.
DocHash(ev) ==
    IF ev.hash = None THEN Blank ELSE ParsePayloadHashValue(ev.hash.value)
=============================================================================
