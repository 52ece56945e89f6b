---------------------------- MODULE MCAddRequest ----------------------------
(***************************************************************************)
(* Bodies that combine every decoration the code reacts to.                *)
(***************************************************************************)
EXTENDS PrepareEvent, TLC

CONSTANTS u1

MCTimes == {0, 1, 2}
MCOffsets == {-1, 0, 1}
MCDigests == {"digest"}

\* All decorations of a core.
Forms(core) == {Text(core, p, c, FALSE) : p \in BOOLEAN, c \in BOOLEAN}
HexForms(core) == {Text(core, p, c, TRUE) : p \in BOOLEAN, c \in BOOLEAN}
Padded(core) == {Text(core, p, FALSE, FALSE) : p \in BOOLEAN}

Hashes == {None}
    \cup {[alg |-> a, value |-> v] :
            a \in Padded("sha-256") \cup {Blank, Plain("md5")},
            v \in HexForms("digest") \cup {Blank, Plain("digest"), Hex(Plain("not hex"))}}

Types == Forms("CREATE") \cup Forms("UPDATE")
            \cup {Plain("REVOKE"), Plain("EXPIRE"), Plain("DELETE"), Blank}
Prevs == {None} \cup Padded("") \cup Forms(u1) \cup {Hex(Plain(u1)), Plain("not a uuid")}

Clean == [schema |-> EventSchema, type |-> Create, doc |-> Plain("doc"),
          prev |-> None, leaf |-> None, entity |-> Plain("pa"),
          name |-> Plain("name"), title |-> Plain("title"),
          description |-> Blank, notes |-> Plain("notes"),
          issued |-> FormatUTC(1),
          hash |-> [alg |-> Plain("sha-256"), value |-> Hex(Plain("digest"))]]

\* Wall clocks in three zones, one reading before and one after the years that
\* RFC 3339 can write, and every form.
Stamps == {Stamp(r, o, f) : r \in -1 .. LastReading + 1, o \in Offsets,
                            f \in {"canonical", "loose", "illegible"}}

\* The members the event's type speaks about in every combination, issued_at
\* and prev_event_leaf together, the others one at a time.
MCRawRequests ==
    {[Clean EXCEPT !.type = t, !.prev = p, !.hash = h, !.doc = d, !.notes = n] :
        t \in Types, p \in Prevs, h \in Hashes, d \in Padded("doc"),
        n \in Padded("notes")}
    \cup {[Clean EXCEPT !.issued = i, !.leaf = l] :
            i \in Stamps, l \in {None} \cup -1 .. MaxInt64 + 1}
    \cup {[Clean EXCEPT !.schema = s] : s \in Forms("pa-notary-event@1")}
    \cup {[Clean EXCEPT !.entity = e] : e \in Padded("") \cup Padded("pa")}
    \cup {[Clean EXCEPT !.title = t] : t \in Padded("") \cup Padded("title")}
    \cup {[Clean EXCEPT !.name = n, !.description = d] :
            n \in Padded("") \cup Padded("name"),
            d \in Padded("") \cup Padded("description")}

MCBodies == [shape : {"object"}, fields : MCRawRequests]
                \cup [shape : Shapes, fields : {Clean}]
=============================================================================
