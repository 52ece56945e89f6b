--------------------------- MODULE MCNotaryServer ---------------------------
(* Small instances of NotaryServer. *)
EXTENDS NotaryServer, TLC

CONSTANTS u1, u2, u3, u4, w1, w2, d1, d2

Docs1 == {Plain(d1)}
Docs2 == {Plain(d1), Plain(d2)}

Base == [schema |-> EventSchema, type |-> Create, doc |-> Plain(d1),
         prev |-> None, leaf |-> None, entity |-> Plain("pa"), name |-> Blank,
         title |-> Plain("title"), description |-> Blank, notes |-> Blank,
         issued |-> FormatUTC(0),
         hash |-> [alg |-> Plain("sha-256"), value |-> Hex(Plain("digest"))]]

Creates(docs) == {[Base EXCEPT !.doc = d] : d \in docs}
Updates(docs) == {[Base EXCEPT !.type = Update, !.doc = d, !.prev = Plain(u)] :
                    d \in docs, u \in UUIDv4s}

\* Well-formed requests for one and for two documents; and for two documents,
\* one of them only opened, with requests that are refused for their title and
\* for want of a predecessor.
Requests1 == Creates(Docs1) \cup Updates(Docs1)
Requests2 == Creates(Docs2) \cup Updates(Docs2)
RequestsR == Creates(Docs2) \cup Updates(Docs1) \cup
    {[Base EXCEPT !.title = Blank], [Base EXCEPT !.type = Update]}

MCDigests == {"digest"}
MCTimes == {0}
AllFaults == {"lookup", "read", "append", "insert", "crash"}

WorkersAndIds == Permutations({w1, w2}) \cup Permutations({u1, u2, u3})
WorkersAndIds4 == Permutations({w1, w2}) \cup Permutations({u1, u2, u3, u4})
=============================================================================
