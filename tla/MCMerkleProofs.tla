--------------------------- MODULE MCMerkleProofs ---------------------------
(***************************************************************************)
(* A user verifies with one of the two pages. The files may belong         *)
(* together or not, proofs may be cut or have their nodes out of order,    *)
(* and the old checkpoint may be of a log that was rewritten since.        *)
(***************************************************************************)
EXTENDS InclusionPage, ConsistencyPage

CONSTANT MaxSize        \* bound: trees have at most this many entries

\* The log, and the log rewritten from entry f + 1 on. Each entry notarizes a
\* document of its own, but the second revokes one.
Payload(i) == IF i = 2 THEN NoPayload ELSE [payload |-> i]
Rewritten(f) ==
    [i \in 1 .. MaxSize |-> [index |-> i - 1, payload_hash |-> Payload(i), rewritten |-> i > f]]

MCLog == Rewritten(MaxSize)
MCOldLogs == {Rewritten(f) : f \in 0 .. MaxSize}
MCEntries == {MCLog[i] : i \in 1 .. MaxSize}
MCDocuments == {Payload(1), Payload(3)}

Cut(s) == {s} \cup (IF s = << >> THEN {} ELSE {Tail(s), SubSeq(s, 1, Len(s) - 1)})
Grown(s) == IF s = << >> THEN {} ELSE {Append(s, Head(s))}
Swapped(s) == IF Len(s) < 2 THEN {} ELSE {<<s[2], s[1]>> \o SubSeq(s, 3, Len(s))}
Variants(s) == Cut(s) \cup Grown(s) \cup Swapped(s)

MCProofs ==
    UNION {Variants(Path(i, size)) : <<i, size>> \in
             {<<j, k>> \in (0 .. MaxSize - 1) \X (1 .. MaxSize) : j < k}}
MCNodes ==
    UNION {Variants(Consistency(m, size)) : <<m, size>> \in
             {<<j, k>> \in (1 .. MaxSize) \X (1 .. MaxSize) : j <= k}}

Init == InclusionInit /\ ConsistencyInit

\* One page is open.
Next ==
    \/ ConsistencyIdle /\ InclusionNext /\ UNCHANGED consistencyVars
    \/ InclusionIdle /\ ConsistencyNext /\ UNCHANGED inclusionVars

Spec == Init /\ [][Next]_<<inclusionVars, consistencyVars>>
=============================================================================
