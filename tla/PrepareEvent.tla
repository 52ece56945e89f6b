---------------------------- MODULE PrepareEvent ----------------------------
(***************************************************************************)
(* The path of one POST /add body through AddRequest: it is decoded,       *)
(* validated and prepared, or refused, at the time the server's clock      *)
(* shows, in or out of dev mode.                                           *)
(***************************************************************************)
EXTENDS AddRequest

CONSTANTS
    Bodies,     \* the bodies clients send: [shape, fields]
    EventID     \* the core of the UUID the server draws

VARIABLES body, now, devMode, answered, outcome

vars == <<body, now, devMode, answered, outcome>>

\* encoding/json fills a struct: every member is there, a string or, where
\* the struct has a pointer, possibly absent, which is unlike every string.
TextsAround(core) ==
    [core : {core}, pad : BOOLEAN, cased : BOOLEAN, hex : BOOLEAN]
IsText(t) == t \in TextsAround(t.core)
IsPrev(t) == t # None => IsText(t) /\ None \notin TextsAround(t.core)
IsHash(h) ==
    h # None =>
        LET Algs == TextsAround(h.alg.core) \cup TextsAround("sha-256")
            Forms == [alg : Algs, value : TextsAround(h.value.core)]
        IN  h \in Forms /\ None \notin Forms
IsRawRequest(f) ==
    /\ f = [schema |-> f.schema, type |-> f.type, doc |-> f.doc, prev |-> f.prev,
            leaf |-> f.leaf, entity |-> f.entity, name |-> f.name,
            title |-> f.title, description |-> f.description,
            notes |-> f.notes, issued |-> f.issued, hash |-> f.hash]
    /\ \A t \in {f.type, f.doc, f.entity, f.name, f.title, f.description, f.notes} :
           IsText(t)
    /\ IsPrev(f.prev)
    /\ f.leaf \in Int \cup {None}
    /\ IsHash(f.hash)

ASSUME BodiesAreJSON ==
    \A b \in Bodies :
        /\ b = [shape |-> b.shape, fields |-> b.fields]
        /\ b.shape \in Shapes
        /\ IsRawRequest(b.fields)
ASSUME NoneIsNoDigest == \A d \in Digests : Plain(d) # None
ASSUME NoneIsNoNumber == None \notin Int

Outcome(sent, time, dev) ==
    LET req == Decode(sent)
    IN  IF ~DecodeFails(sent) /\ Admissible(req, time, dev)
        THEN PreparedEvent(req, 1, Plain(EventID), ComputeRecordedAt(req, time, dev))
        ELSE None

-----------------------------------------------------------------------------

Init ==
    /\ body \in Bodies
    /\ now \in Times
    /\ devMode \in BOOLEAN
    /\ answered = FALSE
    /\ outcome = None

Answer ==
    /\ ~answered
    /\ answered' = TRUE
    /\ outcome' = Outcome(body, now, devMode)
    /\ UNCHANGED <<body, now, devMode>>

Spec == Init /\ [][Answer]_vars

-----------------------------------------------------------------------------

Notarized == outcome # None

\* The same body as a tidy client writes it: no white space around the
\* members that are trimmed (prepare.go:86-93, 264, hash.go:11), and canonical
\* case in the event's type and in the digest. Schema and issued_at stay as
\* they are: white space and case do make a difference there, as a refusal.
Unpadded(t) == Text(t.core, FALSE, t.cased, t.hex)
Folded(t) == Text(t.core, FALSE, FALSE, t.hex)
TidyFields(f) ==
    [f EXCEPT
        !.type        = Folded(@),
        !.doc         = Unpadded(@),
        !.prev        = IF @ = None THEN None ELSE Unpadded(@),
        !.entity      = Unpadded(@),
        !.name        = Unpadded(@),
        !.title       = Unpadded(@),
        !.description = Unpadded(@),
        !.notes       = Unpadded(@),
        !.hash        = IF @ = None THEN None
                        ELSE [alg |-> Unpadded(@.alg), value |-> Folded(@.value)]]
Tidy(b) == [shape |-> b.shape, fields |-> TidyFields(b.fields)]

\* White space around a member makes no difference, but in schema and
\* issued_at, nor does letter case in the type and the digest: a body is
\* admitted exactly when its tidy form is, as an event with the very same
\* members, so the canonical JSON and the leaf hash are the same
\* (prepare.go:86-93, 122-145, hash.go:10-30).
SpellingIsImmaterial == answered => outcome = Outcome(Tidy(body), now, devMode)

\* What a client can send of an event: all but the server's own members.
SentBack(ev) ==
    [shape  |-> "object",
     fields |-> [schema |-> ev.schema, type |-> ev.type, doc |-> ev.doc,
                 prev |-> ev.prev, leaf |-> ev.leaf, entity |-> ev.entity,
                 name |-> ev.name, title |-> ev.title,
                 description |-> ev.description, notes |-> ev.notes,
                 issued |-> ev.issued, hash |-> ev.hash]]

\* An event, sent back, becomes the same event: a second pass rewrites nothing
\* of the canonical form (prepare.go:122-145). It refuses an event, that the
\* first pass admitted, in two cases and no other: issued_at was in the years
\* 0000 to 9999 by its own zone and is not in UTC, or prev_event_leaf was
\* rounded beyond an int64.
CanonicalFormIsStable ==
    Notarized =>
        Outcome(SentBack(outcome), now, devMode) =
            IF Instant(body.fields.issued) \in Readings /\ FitsInt64(outcome.leaf)
            THEN outcome ELSE None

\* A notarized event has the predecessor and the digest its type demands, so
\* that the chain can be followed and the document found by its hash.
EventFitsItsType ==
    Notarized =>
        /\ outcome.type = Create => outcome.prev \in {None, Blank}
        /\ outcome.type # Create => outcome.prev.core \in UUIDv4s
        /\ outcome.type \in {Create, Update} =>
              \E d \in Digests : DocHash(outcome) = Plain(d)

PrepareInv ==
    /\ body \in Bodies
    /\ now \in Times
    /\ devMode \in BOOLEAN
    /\ outcome = IF answered THEN Outcome(body, now, devMode) ELSE None
=============================================================================
